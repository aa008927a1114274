-------------------------- MODULE BabelRoutingProofs --------------------------
(***************************************************************************)
(* Proofs about BabelRouting for every network, every cost and every       *)
(* bound: a node remembers a distance for whatever its neighbours were     *)
(* told, and nodes that go by what is feasible now do not forward in a     *)
(* circle.                                                                 *)
(***************************************************************************)
EXTENDS BabelRouting, FiniteSetTheorems, TLAPS

Seqs == 0..MaxSeq
Metrics == 0..Inf
Age == 0..GCTime

Tlv == {u \in [rid : Origins \cup {None}, seq : Seqs, metric : Metrics] :
          u.metric < Inf => u.rid \in Origins}
Packet == Seq(Tlv) \ {<<>>}
Kept == [seq : Seqs, metric : Metrics, gc : Age]
Route == {r \in [rid : Origins \cup {None}, seq : Seqs, adv : Metrics, metric : Metrics,
                 feasible : BOOLEAN, ttl : 0..Hold] :
            (r.adv < Inf => r.rid \in Origins) /\ (r.metric < Inf => r.adv < Inf)}
Job == [to : Nodes, via : Nodes \cup {None}, seq : Seqs, retract : {"no", "yes", "nil"}]

\* The update that a route was learnt from.
Update(r) == [rid |-> r.rid, seq |-> r.seq, metric |-> r.adv]

TypeInv ==
  /\ scene \in Scenes /\ alive \subseteq Nodes /\ up \subseteq scene.links
  /\ seqno \in [Nodes -> Seqs]
  /\ local \in [Nodes -> Seqs \cup {None}]
  /\ route \in [Nodes -> [Nodes -> Route \cup {None}]]
  /\ sel \in [Nodes -> Nodes \cup {None}]
  /\ fd \in [Nodes -> [Origins -> Kept \cup {None}]]
  /\ pend \in [Nodes -> [Threads -> SUBSET Job]]
  /\ wire \in [Nodes -> [Nodes -> Seq(Packet)]]

\* A node advertises for itself only what it may, what it has selected is there,
\* and of a dead one nothing is left.
NodeAt(n) ==
  /\ local[n] # None => n \in Origins
  /\ \A t \in Threads : \A job \in pend[n][t] : job.via = n => n \in Origins
  /\ sel[n] = n => local[n] # None
  /\ sel[n] \notin {n, None} => route[n][sel[n]] # None /\ route[n][sel[n]].adv < Inf
  /\ n \notin alive => /\ \A m \in Nodes : route[n][m] = None
                       /\ \A o \in Origins : fd[n][o] = None
                       /\ \A t \in Threads : pend[n][t] = {}

NodeInv == \A n \in Nodes : NodeAt(n)

\* Updates come over tunnels, from others.
LinkInv ==
  \A n, m \in Nodes : (route[n][m] # None \/ wire[m][n] # <<>>) => {n, m} \in scene.links

\* The distances d of a node cover the update u for k more intervals.
Covers(d, u, k) ==
  u.metric < Inf => d[u.rid] # None /\ ~ Closer(u, d[u.rid]) /\ d[u.rid].gc >= k

\* What a node with the distances d may have on its links.
Backed(d) == {u \in Tlv : Covers(d, u, GCTime)}

\* The distances of n cover what is on its way to a neighbour for as long as they
\* last from now, and the neighbour's route for longer than that lasts.
KeptAt(n, m) ==
  /\ wire[n][m] \in Seq(Seq(Backed(fd[n])))
  /\ route[m][n] # None => Covers(fd[n], Update(route[m][n]), route[m][n].ttl + 1)

KeptInv == \A n, m \in alive : KeptAt(n, m)

IInv == TypeInv /\ NodeInv /\ LinkInv /\ KeptInv

-----------------------------------------------------------------------------
(* Metrics, routes and packets.                                            *)

LEMMA TunnelEnds ==
  ASSUME TypeInv, NEW l \in scene.links
  PROVE  /\ l \subseteq Nodes /\ LinkCost[l] \in Nat /\ scene.links \subseteq DOMAIN LinkCost
         /\ \A n \in Nodes : l # {n}
<1>1. l \in DOMAIN LinkCost
  BY BabelRoutingAssumption DEF TypeInv
<1>2. ASSUME NEW n \in Nodes PROVE l # {n}
  <2>1. Cardinality(l) = 2 /\ Cardinality({n}) = 1
    BY <1>1, BabelRoutingAssumption, FS_Singleton
  <2> QED  BY <2>1
<1> QED  BY <1>1, <1>2, BabelRoutingAssumption DEF TypeInv

LEMMA MetricType ==
  ASSUME NEW cost \in Nat, NEW adv \in Metrics
  PROVE  Metric(cost, adv) \in Metrics /\ (Metric(cost, adv) < Inf => adv < Inf)
BY BabelRoutingAssumption DEF Metric, Metrics

\* A new cost changes nothing but the metric of a route.
LEMMA RecomputedTypes ==
  ASSUME TypeInv, NEW n \in Nodes, NEW table \in [Nodes -> Route \cup {None}], NEW heard,
         \A m \in Nodes : table[m] # None => {n, m} \in scene.links
  PROVE  /\ Recomputed(n, table, heard) \in [Nodes -> Route \cup {None}]
         /\ \A m \in Nodes : Recomputed(n, table, heard)[m] # None =>
              /\ table[m] # None
              /\ Update(Recomputed(n, table, heard)[m]) = Update(table[m])
              /\ Recomputed(n, table, heard)[m].ttl = table[m].ttl
<1> SUFFICES ASSUME NEW m \in Nodes, table[m] # None
             PROVE  LET r == [table[m] EXCEPT !.metric = Metric(CostTo(n, m, heard), table[m].adv)]
                    IN  r \in Route /\ Update(r) = Update(table[m]) /\ r.ttl = table[m].ttl
  BY DEF Recomputed
<1>1. CostTo(n, m, heard) \in Nat
  BY TunnelEnds, BabelRoutingAssumption DEF CostTo
<1>2. table[m] \in Route /\ table[m].adv \in Metrics
  BY DEF Route
<1> QED  BY <1>1, <1>2, MetricType DEF Route, Update

\* The absent route is not a route, the absent distance not a distance.
LEMMA NoneApart == None \notin Route /\ None \notin Kept
<1>1. Seqs \subseteq Nat /\ Metrics \subseteq Nat /\ Age \subseteq Nat /\ 0..Hold \subseteq Nat
  BY BabelRoutingAssumption DEF Seqs, Metrics, Age
<1>2. Route \subseteq Entry /\ Kept \subseteq Distance
  BY <1>1, BabelRoutingAssumption DEF Route, Entry, Kept, Distance
<1> QED  BY <1>2, BabelRoutingAssumption

\* One place of a table of two dimensions is set.
LEMMA PlaceSet ==
  ASSUME NEW S, NEW w \in [Nodes -> [Nodes -> S]], NEW n \in Nodes, NEW m \in Nodes, NEW x \in S
  PROVE  /\ [w EXCEPT ![n][m] = x] \in [Nodes -> [Nodes -> S]]
         /\ \A k, j \in Nodes :
              [w EXCEPT ![n][m] = x][k][j] = IF k = n /\ j = m THEN x ELSE w[k][j]
OBVIOUS

LEMMA SeqGrows ==
  ASSUME NEW S, NEW T, S \subseteq T, NEW s \in Seq(S)
  PROVE  s \in Seq(T)
OBVIOUS

\* What is left of a link after the first TLV of its first packet is read.
LEMMA FirstRead ==
  ASSUME NEW B, NEW w \in Seq(Seq(B)), w # <<>>, Head(w) # <<>>
  PROVE  /\ Head(Head(w)) \in B
         /\ (IF Len(Head(w)) = 1 THEN Tail(w) ELSE <<Tail(Head(w))>> \o Tail(w)) \in Seq(Seq(B))
<1>1. Head(w) \in Seq(B) /\ Tail(w) \in Seq(Seq(B))
  OBVIOUS
<1>2. Head(Head(w)) \in B /\ Tail(Head(w)) \in Seq(B)
  BY <1>1
<1>3. <<Tail(Head(w))>> \in Seq(Seq(B))
  BY <1>2
<1>4. <<Tail(Head(w))>> \o Tail(w) \in Seq(Seq(B))
  BY <1>1, <1>3
<1> QED  BY <1>1, <1>2, <1>4

LEMMA PacketRead ==
  ASSUME NEW w \in Seq(Packet), w # <<>>
  PROVE  /\ Head(w) # <<>> /\ Head(Head(w)) \in Tlv
         /\ (IF Len(Head(w)) = 1 THEN Tail(w) ELSE <<Tail(Head(w))>> \o Tail(w)) \in Seq(Packet)
<1>1. Head(w) \in Seq(Tlv) /\ Head(w) # <<>> /\ Tail(w) \in Seq(Packet)
  <2>1. Head(w) \in Packet /\ Tail(w) \in Seq(Packet)
    OBVIOUS
  <2> QED  BY <2>1 DEF Packet
<1>2. Head(Head(w)) \in Tlv /\ Tail(Head(w)) \in Seq(Tlv) /\ Len(Head(w)) \in Nat \ {0}
  BY <1>1
<1>3. CASE Len(Head(w)) # 1
  <2>1. Tail(Head(w)) # <<>>
    <3>1. Len(Tail(Head(w))) = Len(Head(w)) - 1
      BY <1>1
    <3>2. Len(Head(w)) - 1 # 0 /\ Len(<<>>) = 0
      BY <1>2, <1>3
    <3> QED  BY <3>1, <3>2
  <2>2. Tail(Head(w)) \in Packet
    BY <1>2, <2>1 DEF Packet
  <2>3. <<Tail(Head(w))>> \in Seq(Packet)
    BY <2>2
  <2>4. <<Tail(Head(w))>> \o Tail(w) \in Seq(Packet)
    BY <1>1, <2>3
  <2> QED  BY <1>1, <1>2, <1>3, <2>4
<1> QED  BY <1>1, <1>2, <1>3

-----------------------------------------------------------------------------
(* One run of the selection.                                               *)

LEMMA ChosenTypes ==
  ASSUME NEW n \in Nodes, NEW table \in [Nodes -> Route \cup {None}], table[n] = None,
         NEW own, NEW prev, NEW s \in Choices(n, table, own, prev)
  PROVE  /\ s \in Nodes \cup {None} /\ (s = n => own # None)
         /\ s \notin {n, None} => table[s] # None /\ table[s].adv < Inf
<1>1. \A m \in Candidates(table) : m \in Nodes \ {n} /\ table[m] # None /\ table[m].adv < Inf
  BY DEF Candidates, Route
<1>2. None \notin Nodes
  BY BabelRoutingAssumption
<1>3. (s = n /\ own # None) \/ s = None \/ s \in Candidates(table)
  BY DEF Choices, Best
<1> QED  BY <1>1, <1>2, <1>3

LEMMA JobTypes ==
  ASSUME TypeInv, NEW n \in Nodes, NEW table, NEW own \in Seqs \cup {None}, NEW s \in Nodes \cup {None},
         s = n => own # None
  PROVE  /\ Triggered(n, table, own, s) \subseteq Job
         /\ \A job \in Triggered(n, table, own, s) : job.via = n => s = n
<1> DEFINE jobs(via, to, retract) ==
             {[to |-> m, via |-> via, seq |-> IF via = n THEN own ELSE 0, retract |-> retract] : m \in to}
<1>1. None # n /\ 0 \in Seqs
  BY BabelRoutingAssumption DEF Seqs
<1>2. ASSUME NEW via \in {None, s}, NEW to, to \subseteq Nodes, NEW retract \in {"no", "yes", "nil"}
      PROVE  jobs(via, to, retract) \subseteq Job /\ \A job \in jobs(via, to, retract) : job.via = n => s = n
  <2>1. (IF via = n THEN own ELSE 0) \in Seqs /\ via \in Nodes \cup {None}
    BY <1>1
  <2>2. ASSUME NEW m \in to
        PROVE  [to |-> m, via |-> via, seq |-> IF via = n THEN own ELSE 0, retract |-> retract] \in Job
    BY <1>2, <2>1 DEF Job
  <2>3. ASSUME NEW job \in jobs(via, to, retract) PROVE job \in Job /\ job.via = via
    <3>1. PICK m \in to : job = [to |-> m, via |-> via, seq |-> IF via = n THEN own ELSE 0, retract |-> retract]
      OBVIOUS
    <3> QED  BY <2>2, <3>1
  <2>4. \A job \in jobs(via, to, retract) : job.via = n => s = n
    BY <1>1, <2>3
  <2> HIDE DEF jobs
  <2> QED  BY <2>3, <2>4
<1>3. \A m : Neighbours(n) \subseteq Nodes /\ Neighbours(n) \ {m} \subseteq Nodes
  BY DEF Neighbours
<1> HIDE DEF jobs
<1>4. \/ Triggered(n, table, own, s) = {}
      \/ Triggered(n, table, own, s) = jobs(None, Neighbours(n), "nil")
      \/ Triggered(n, table, own, s) = jobs(None, Neighbours(n), "yes")
      \/ Triggered(n, table, own, s) = jobs(s, Neighbours(n) \ {s}, "no")
  BY DEF Triggered, jobs
<1> QED  BY <1>2, <1>3, <1>4

\* The tables of a node after a selection: those it ran on, with new metrics.
Selected(n, table, own) ==
  /\ route' \in [Nodes -> [Nodes -> Route \cup {None}]]
  /\ sel' \in [Nodes -> Nodes \cup {None}]
  /\ pend' \in [Nodes -> [Threads -> SUBSET Job]]
  /\ \A k \in Nodes \ {n} : route'[k] = route[k] /\ sel'[k] = sel[k] /\ pend'[k] = pend[k]
  /\ \A m \in Nodes : route'[n][m] # None =>
       /\ table[m] # None
       /\ Update(route'[n][m]) = Update(table[m]) /\ route'[n][m].ttl = table[m].ttl
  /\ sel'[n] = n => own # None
  /\ sel'[n] \notin {n, None} => route'[n][sel'[n]] # None /\ route'[n][sel'[n]].adv < Inf
  /\ \A t \in Threads : \A job \in pend'[n][t] : job.via = n => n \in Origins

LEMMA SelectionTypes ==
  ASSUME TypeInv, NodeInv, NEW n \in Nodes, NEW t \in Threads,
         NEW table \in [Nodes -> Route \cup {None}], NEW own \in Seqs \cup {None}, NEW heard,
         own # None => n \in Origins, \A m \in Nodes : table[m] # None => {n, m} \in scene.links,
         Selection(n, t, table, own, heard)
  PROVE  Selected(n, table, own)
<1> DEFINE new == Recomputed(n, table, heard)
<1>1. /\ new \in [Nodes -> Route \cup {None}]
      /\ \A m \in Nodes : new[m] # None =>
           table[m] # None /\ Update(new[m]) = Update(table[m]) /\ new[m].ttl = table[m].ttl
  <2>1. TypeInv /\ n \in Nodes /\ table \in [Nodes -> Route \cup {None}]
        /\ \A m \in Nodes : table[m] # None => {n, m} \in scene.links
    OBVIOUS
  <2> HIDE DEF new
  <2>2. new = Recomputed(n, table, heard)
    BY DEF new
  <2> QED  BY ONLY <2>1, <2>2, RecomputedTypes
<1>2. PICK s \in Choices(n, new, own, sel[n]) :
        /\ route' = [route EXCEPT ![n] = new]
        /\ sel' = [sel EXCEPT ![n] = s]
        /\ pend' = [pend EXCEPT ![n][t] = @ \cup Triggered(n, new, own, s)]
  BY DEF Selection
<1>3. new[n] = None
  BY <1>1, TunnelEnds
<1> HIDE DEF new
<1>4. /\ s \in Nodes \cup {None} /\ (s = n => own # None)
      /\ s \notin {n, None} => new[s] # None /\ new[s].adv < Inf
  BY <1>1, <1>2, <1>3, ChosenTypes
<1>5. /\ Triggered(n, new, own, s) \subseteq Job
      /\ \A job \in Triggered(n, new, own, s) : job.via = n => n \in Origins
  BY <1>4, JobTypes
<1>6. /\ route' \in [Nodes -> [Nodes -> Route \cup {None}]] /\ route'[n] = new
      /\ sel' \in [Nodes -> Nodes \cup {None}] /\ sel'[n] = s
      /\ \A k \in Nodes \ {n} : route'[k] = route[k] /\ sel'[k] = sel[k]
  BY <1>1, <1>2, <1>4 DEF TypeInv
<1>7. /\ pend' \in [Nodes -> [Threads -> SUBSET Job]]
      /\ pend'[n] = [pend[n] EXCEPT ![t] = @ \cup Triggered(n, new, own, s)]
      /\ \A k \in Nodes \ {n} : pend'[k] = pend[k]
  BY <1>2, <1>5 DEF TypeInv
<1>8. ASSUME NEW u \in Threads, NEW job \in pend'[n][u], job.via = n PROVE n \in Origins
  <2>1. job \in pend[n][u] \/ job \in Triggered(n, new, own, s)
    BY <1>7 DEF TypeInv
  <2> QED  BY <1>5, <1>8, <2>1 DEF NodeInv, NodeAt
<1> QED  BY <1>1, <1>4, <1>6, <1>7, <1>8 DEF Selected

\* A step of n that ends with a selection keeps the invariant, if the table it ran
\* on is backed by the distances of the neighbours, and all the others still are.
LEMMA SelectionHolds ==
  ASSUME IInv, NEW n \in alive, NEW t \in Threads,
         NEW table \in [Nodes -> Route \cup {None}], NEW own \in Seqs \cup {None}, NEW heard,
         own # None => n \in Origins, Selection(n, t, table, own, heard),
         UNCHANGED <<alive, scene, up>>, seqno' \in [Nodes -> Seqs],
         local' \in [Nodes -> Seqs \cup {None}], local'[n] = own,
         \A k \in Nodes \ {n} : local'[k] = local[k],
         fd' \in [Nodes -> [Origins -> Kept \cup {None}]], \A k \in Nodes \ {n} : fd'[k] = fd[k],
         wire' \in [Nodes -> [Nodes -> Seq(Packet)]],
         \A k, m \in Nodes : wire'[k][m] # <<>> => wire[k][m] # <<>>,
         \A m \in Nodes : table[m] # None => {n, m} \in scene.links,
         \A m \in alive : table[m] # None => Covers(fd'[m], Update(table[m]), table[m].ttl + 1),
         \A k, m \in alive : /\ wire'[k][m] \in Seq(Seq(Backed(fd'[k])))
                             /\ route[m][k] # None =>
                                  Covers(fd'[k], Update(route[m][k]), route[m][k].ttl + 1)
  PROVE  IInv'
<1>1. alive \subseteq Nodes /\ n \in Nodes /\ TypeInv /\ NodeInv
  BY DEF IInv, TypeInv
<1>2. Selected(n, table, own)
  BY <1>1, SelectionTypes
<1>3. TypeInv'
  BY <1>2 DEF Selected, IInv, TypeInv
<1>4. NodeInv'
  <2>1. ASSUME NEW k \in Nodes PROVE NodeAt(k)'
    <3>1. CASE k = n
      <4>1. n \in alive' /\ local'[n] = own
        OBVIOUS
      <4> QED  BY <1>2, <3>1, <4>1 DEF Selected, NodeAt
    <3>2. CASE k # n
      <4>1. NodeAt(k)
        BY DEF IInv, NodeInv
      <4>2. /\ route'[k] = route[k] /\ sel'[k] = sel[k] /\ pend'[k] = pend[k]
            /\ fd'[k] = fd[k] /\ local'[k] = local[k] /\ alive' = alive
        BY <1>2, <3>2 DEF Selected
      <4> QED  BY <4>1, <4>2 DEF NodeAt
    <3> QED  BY <3>1, <3>2
  <2> QED  BY <2>1 DEF NodeInv
<1>5. LinkInv'
  <2>1. ASSUME NEW k \in Nodes, NEW m \in Nodes, route'[k][m] # None \/ wire'[m][k] # <<>>
        PROVE  {k, m} \in scene.links
    <3>1. CASE k = n
      BY <1>2, <2>1, <3>1 DEF Selected, IInv, LinkInv
    <3>2. CASE k # n
      BY <1>2, <2>1, <3>2 DEF Selected, IInv, LinkInv
    <3> QED  BY <3>1, <3>2
  <2> QED  BY <2>1 DEF LinkInv
<1>6. KeptInv'
  <2>1. ASSUME NEW k \in alive, NEW m \in alive PROVE KeptAt(k, m)'
    <3>1. CASE m = n
      BY <1>1, <1>2, <3>1 DEF Selected, KeptAt
    <3>2. CASE m # n
      BY <1>1, <1>2, <3>2 DEF Selected, KeptAt
    <3> QED  BY <3>1, <3>2
  <2> QED  BY <2>1 DEF KeptInv
<1> QED  BY <1>3, <1>4, <1>5, <1>6 DEF IInv

-----------------------------------------------------------------------------
(* Steps that select.                                                      *)

LEMMA LivingNodes ==
  ASSUME IInv
  PROVE  alive \subseteq Nodes /\ TypeInv /\ NodeInv /\ LinkInv /\ KeptInv
BY DEF IInv, TypeInv

\* A selection on the routes as they are.
LEMMA OwnTableHolds ==
  ASSUME IInv, NEW n \in alive, NEW t \in Threads, NEW own \in Seqs \cup {None}, NEW heard,
         own # None => n \in Origins, Selection(n, t, route[n], own, heard),
         UNCHANGED <<alive, scene, up, fd, wire>>, seqno' \in [Nodes -> Seqs],
         local' \in [Nodes -> Seqs \cup {None}], local'[n] = own,
         \A k \in Nodes \ {n} : local'[k] = local[k]
  PROVE  IInv'
<1> USE LivingNodes
<1>1. route[n] \in [Nodes -> Route \cup {None}] /\ n \in Nodes
  BY DEF TypeInv
<1>2. \A m \in Nodes : route[n][m] # None => {n, m} \in scene.links
  BY <1>1 DEF LinkInv
<1>3. \A k, m \in alive : /\ wire[k][m] \in Seq(Seq(Backed(fd[k])))
                          /\ route[m][k] # None =>
                               Covers(fd[k], Update(route[m][k]), route[m][k].ttl + 1)
  BY DEF KeptInv, KeptAt
<1>4. fd \in [Nodes -> [Origins -> Kept \cup {None}]] /\ wire \in [Nodes -> [Nodes -> Seq(Packet)]]
  BY DEF TypeInv
<1>5. fd' = fd /\ wire' = wire /\ UNCHANGED <<alive, scene, up>>
  OBVIOUS
<1> QED  BY <1>1, <1>2, <1>3, <1>4, <1>5, SelectionHolds

LEMMA AdvertiseHolds ==
  ASSUME IInv, NEW n \in Origins, Advertise(n)
  PROVE  IInv'
<1>1. n \in alive /\ n \in Nodes /\ "other" \in Threads
  BY LivingNodes DEF Advertise, Idle, Free, Threads
<1>2. /\ seqno' \in [Nodes -> Seqs] /\ local' \in [Nodes -> Seqs \cup {None}]
      /\ local'[n] \in Seqs \cup {None} /\ \A k \in Nodes \ {n} : local'[k] = local[k]
  BY <1>1, LivingNodes, BabelRoutingAssumption DEF Advertise, TypeInv, Seqs
<1>3. Selection(n, "other", route[n], local'[n], near[n]) /\ UNCHANGED <<alive, scene, up, fd, wire>>
  BY DEF Advertise, links, budget
<1> QED  BY <1>1, <1>2, <1>3, OwnTableHolds

LEMMA WithdrawHolds ==
  ASSUME IInv, NEW n \in Origins, Withdraw(n)
  PROVE  IInv'
<1>1. n \in alive /\ n \in Nodes /\ "other" \in Threads
  BY LivingNodes DEF Withdraw, Idle, Free, Threads
<1>2. /\ seqno' \in [Nodes -> Seqs] /\ local' \in [Nodes -> Seqs \cup {None}]
      /\ local'[n] = None /\ \A k \in Nodes \ {n} : local'[k] = local[k]
  BY <1>1, LivingNodes DEF Withdraw, TypeInv
<1>3. Selection(n, "other", route[n], None, near[n]) /\ UNCHANGED <<alive, scene, up, fd, wire>>
  BY DEF Withdraw, links, budget
<1> QED  BY <1>1, <1>2, <1>3, OwnTableHolds

LEMMA SensingHolds ==
  ASSUME IInv, NEW n \in Nodes, NEW m \in Nodes, LoseNeighbour(n, m) \/ HearNeighbour(n, m)
  PROVE  IInv'
<1>1. n \in alive /\ "other" \in Threads /\ "reader" \in Threads
  BY DEF LoseNeighbour, HearNeighbour, Idle, Free, Threads
<1>2. /\ seqno' \in [Nodes -> Seqs] /\ local' \in [Nodes -> Seqs \cup {None}]
      /\ local[n] \in Seqs \cup {None} /\ local' = local /\ (local[n] # None => n \in Origins)
  BY LivingNodes DEF LoseNeighbour, HearNeighbour, TypeInv, NodeInv, NodeAt
<1>3. /\ \E t \in {"other", "reader"} : Selection(n, t, route[n], local[n], near'[n])
      /\ UNCHANGED <<alive, scene, up, fd, wire>>
  BY DEF LoseNeighbour, HearNeighbour, budget
<1> QED  BY <1>1, <1>2, <1>3, OwnTableHolds

\* A route is learnt with the hold time before it, which the distance outlasts.
LEMMA LearntTypes ==
  ASSUME NEW u \in Tlv, NEW feasible \in BOOLEAN
  PROVE  /\ Learnt(u, feasible) \in Route
         /\ \A d \in [Origins -> Kept \cup {None}] : u \in Backed(d) =>
               Covers(d, Update(Learnt(u, feasible)), Learnt(u, feasible).ttl + 1)
<1>1. Inf \in Nat /\ Hold \in Nat /\ GCTime >= Hold + 1 /\ GCTime \in Nat /\ 0 \in Seqs
  BY BabelRoutingAssumption DEF Seqs
<1>2. CASE u.metric = Inf
  <2>1. Learnt(u, feasible) = Dead
    BY <1>2 DEF Learnt
  <2>2. Dead \in Route /\ Update(Dead).metric = Inf /\ ~ (Inf < Inf)
    BY <1>1 DEF Dead, Route, Metrics, Update
  <2> QED  BY <1>1, <2>1, <2>2 DEF Covers
<1>3. CASE u.metric # Inf
  <2>1. u.metric < Inf /\ u.rid \in Origins /\ u.seq \in Seqs /\ u.metric \in Metrics
    BY <1>1, <1>3 DEF Tlv, Metrics
  <2>2. Learnt(u, feasible) = [rid |-> u.rid, seq |-> u.seq, adv |-> u.metric, metric |-> Inf,
                               feasible |-> feasible, ttl |-> Hold]
    BY <1>3 DEF Learnt
  <2>3. Learnt(u, feasible) \in Route /\ Inf \in Metrics
    BY <1>1, <2>1, <2>2 DEF Route, Metrics
  <2>4. Update(Learnt(u, feasible)) = [rid |-> u.rid, seq |-> u.seq, metric |-> u.metric]
        /\ Learnt(u, feasible).ttl = Hold
    BY <2>2 DEF Update
  <2>5. ASSUME NEW d \in [Origins -> Kept \cup {None}], u \in Backed(d)
        PROVE  Covers(d, Update(Learnt(u, feasible)), Hold + 1)
    <3>1. d[u.rid] # None /\ ~ Closer(u, d[u.rid]) /\ d[u.rid].gc >= GCTime
      BY <2>1, <2>5 DEF Backed, Covers
    <3>2. d[u.rid].gc >= Hold + 1
      <4>1. d[u.rid].gc \in Nat
        BY <1>1, <2>1, <3>1 DEF Kept, Age
      <4> QED  BY <1>1, <3>1, <4>1
    <3> QED  BY <2>4, <3>1, <3>2 DEF Covers, Closer
  <2> QED  BY <2>3, <2>4, <2>5
<1> QED  BY <1>2, <1>3

LEMMA ReceiveHolds ==
  ASSUME IInv, NEW n \in Nodes, NEW m \in Nodes, Receive(n, m)
  PROVE  IInv'
<1> USE LivingNodes
<1> DEFINE w == wire[m][n]
           u == Head(Head(w))
           feasible == u.metric = Inf \/ Feasible(u, fd[n][u.rid])
           left == IF Len(Head(w)) = 1 THEN Tail(w) ELSE <<Tail(Head(w))>> \o Tail(w)
           table == [route[n] EXCEPT ![m] = Learnt(u, feasible)]
<1>1. n \in alive /\ w # <<>> /\ {m, n} \in scene.links /\ "reader" \in Threads
  BY DEF Receive, Free, LinkInv, Threads
<1>2. w \in Seq(Packet) /\ Head(w) # <<>> /\ u \in Tlv /\ left \in Seq(Packet)
  <2>1. w \in Seq(Packet)
    BY DEF TypeInv
  <2> QED  BY <1>1, <2>1, PacketRead
<1>3. m \in alive => /\ u \in Backed(fd[m]) /\ left \in Seq(Seq(Backed(fd[m])))
  <2>1. m \in alive => w \in Seq(Seq(Backed(fd[m])))
    BY <1>1 DEF KeptInv, KeptAt
  <2> QED  BY <1>1, <1>2, <2>1, FirstRead
<1>4. wire' = [wire EXCEPT ![m][n] = left]
  BY DEF Receive
<1>5. UNCHANGED <<alive, scene, up, fd, seqno, local>>
  BY DEF Receive, links, budget
<1>6. \/ UNCHANGED <<route, sel, pend>>
      \/ Selection(n, "reader", table, local[n], near[n])
  BY DEF Receive
<1>7. feasible \in BOOLEAN
  BY DEF Feasible
<1> HIDE DEF u, feasible, left
<1>8. /\ wire' \in [Nodes -> [Nodes -> Seq(Packet)]] /\ wire'[m][n] = left
      /\ \A k, j \in Nodes : <<k, j>> # <<m, n>> => wire'[k][j] = wire[k][j]
  BY <1>2, <1>4 DEF TypeInv
<1>9. \A k, j \in alive : wire'[k][j] \in Seq(Seq(Backed(fd'[k])))
  <2>1. \A k, j \in alive : wire[k][j] \in Seq(Seq(Backed(fd[k])))
    BY DEF KeptInv, KeptAt
  <2> QED  BY <1>3, <1>5, <1>8, <2>1
<1>10. \A k, j \in Nodes : wire'[k][j] # <<>> => wire[k][j] # <<>>
  BY <1>1, <1>8
<1>11. \A k, j \in alive : route[j][k] # None =>
          Covers(fd'[k], Update(route[j][k]), route[j][k].ttl + 1)
  BY <1>5 DEF KeptInv, KeptAt
<1>12. CASE UNCHANGED <<route, sel, pend>>
  <2>1. TypeInv'
    BY <1>5, <1>8, <1>12 DEF TypeInv
  <2>2. NodeInv'
    BY <1>5, <1>12 DEF NodeInv, NodeAt
  <2>3. LinkInv'
    BY <1>5, <1>10, <1>12 DEF LinkInv
  <2>4. KeptInv'
    BY <1>5, <1>9, <1>11, <1>12 DEF KeptInv, KeptAt
  <2> QED  BY <2>1, <2>2, <2>3, <2>4 DEF IInv
<1>13. CASE Selection(n, "reader", table, local[n], near[n])
  <2>1. /\ table \in [Nodes -> Route \cup {None}] /\ table[m] = Learnt(u, feasible)
        /\ \A k \in Nodes \ {m} : table[k] = route[n][k]
    BY <1>2, <1>7, LearntTypes DEF TypeInv
  <2>2. \A k \in Nodes : table[k] # None => {n, k} \in scene.links
    BY <1>1, <2>1 DEF LinkInv
  <2>3. \A k \in alive : table[k] # None => Covers(fd'[k], Update(table[k]), table[k].ttl + 1)
    <3>1. ASSUME NEW k \in alive, table[k] # None, k = m
          PROVE  Covers(fd'[k], Update(table[k]), table[k].ttl + 1)
      <4>1. fd'[m] \in [Origins -> Kept \cup {None}] /\ u \in Backed(fd'[m])
        BY <1>3, <1>5, <3>1 DEF TypeInv
      <4> HIDE DEF table
      <4> QED  BY <1>2, <1>7, <2>1, <3>1, <4>1, LearntTypes
    <3>2. ASSUME NEW k \in alive, table[k] # None, k # m
          PROVE  Covers(fd'[k], Update(table[k]), table[k].ttl + 1)
      <4> HIDE DEF table
      <4> QED  BY <1>1, <1>11, <2>1, <3>2
    <3> QED  BY <3>1, <3>2
  <2>4. /\ local[n] \in Seqs \cup {None} /\ (local[n] # None => n \in Origins)
        /\ local \in [Nodes -> Seqs \cup {None}] /\ seqno \in [Nodes -> Seqs]
        /\ fd \in [Nodes -> [Origins -> Kept \cup {None}]]
    BY DEF TypeInv, NodeInv, NodeAt
  <2>5. /\ seqno' \in [Nodes -> Seqs] /\ local' \in [Nodes -> Seqs \cup {None}] /\ local'[n] = local[n]
        /\ fd' \in [Nodes -> [Origins -> Kept \cup {None}]] /\ UNCHANGED <<alive, scene, up>>
        /\ \A k \in Nodes \ {n} : local'[k] = local[k] /\ fd'[k] = fd[k]
    BY <1>5, <2>4
  <2> HIDE DEF table
  <2> QED  BY <1>1, <1>8, <1>9, <1>10, <1>11, <1>13, <2>1, <2>2, <2>3, <2>4, <2>5, SelectionHolds
<1> QED  BY <1>6, <1>12, <1>13

\* The sweep drops distances that cover nothing any more.
LEMMA SweepHolds ==
  ASSUME IInv, NEW n \in Nodes, Sweep(n)
  PROVE  IInv'
<1> USE LivingNodes
<1> DEFINE table == [m \in Nodes |-> Swept(route[n][m])]
           kept == [o \in Origins |-> IF fd[n][o] # None /\ fd[n][o].gc = 0 THEN None ELSE fd[n][o]]
<1>1. n \in alive /\ "other" \in Threads
  BY DEF Sweep, Idle, Free, Threads
<1>2. UNCHANGED <<alive, scene, up, wire, seqno, local>> /\ Selection(n, "other", table, local[n], near[n])
  BY DEF Sweep, links, budget
<1>3. fd' = [fd EXCEPT ![n] = kept]
  BY DEF Sweep
<1>4. kept \in [Origins -> Kept \cup {None}] /\ fd \in [Nodes -> [Origins -> Kept \cup {None}]]
  BY DEF TypeInv
<1>5. /\ fd' \in [Nodes -> [Origins -> Kept \cup {None}]] /\ fd'[n] = kept
      /\ \A k \in Nodes \ {n} : fd'[k] = fd[k]
  <2> HIDE DEF kept
  <2> QED  BY <1>3, <1>4
<1>6. ASSUME NEW k \in alive, NEW u \in Tlv, NEW j \in Nat \ {0}, Covers(fd[k], u, j)
      PROVE  Covers(fd'[k], u, j)
  <2>1. CASE k # n
    BY <1>5, <1>6, <2>1
  <2>2. CASE k = n /\ u.metric < Inf
    <3>1. u.rid \in Origins /\ fd[n][u.rid] # None /\ fd[n][u.rid].gc >= j
      BY <1>6, <2>2 DEF Covers, Tlv
    <3>2. fd[n][u.rid].gc # 0
      BY <1>4, <3>1 DEF Kept, Age
    <3>3. fd'[n][u.rid] = fd[n][u.rid]
      BY <1>5, <3>1, <3>2
    <3> QED  BY <1>6, <2>2, <3>3 DEF Covers
  <2>3. CASE ~ (u.metric < Inf)
    BY <2>3 DEF Covers
  <2> QED  BY <2>1, <2>2, <2>3
<1>7. ASSUME NEW r \in Route PROVE Update(r) \in Tlv /\ r.ttl + 1 \in Nat \ {0}
  BY BabelRoutingAssumption DEF Route, Tlv, Update
<1>8. \A k, m \in alive : /\ wire'[k][m] \in Seq(Seq(Backed(fd'[k])))
                          /\ route[m][k] # None =>
                               Covers(fd'[k], Update(route[m][k]), route[m][k].ttl + 1)
  <2>1. ASSUME NEW k \in alive, NEW m \in alive PROVE wire'[k][m] \in Seq(Seq(Backed(fd'[k])))
    <3>1. Backed(fd[k]) \subseteq Backed(fd'[k])
      BY <1>6, BabelRoutingAssumption DEF Backed
    <3>2. wire[k][m] \in Seq(Seq(Backed(fd[k])))
      BY DEF KeptInv, KeptAt
    <3>3. Seq(Backed(fd[k])) \subseteq Seq(Backed(fd'[k]))
      BY <3>1, SeqGrows
    <3> QED  BY <1>2, <3>2, <3>3, SeqGrows
  <2>2. ASSUME NEW k \in alive, NEW m \in alive, route[m][k] # None
        PROVE  Covers(fd'[k], Update(route[m][k]), route[m][k].ttl + 1)
    <3>1. route[m][k] \in Route /\ Covers(fd[k], Update(route[m][k]), route[m][k].ttl + 1)
      BY <2>2 DEF TypeInv, KeptInv, KeptAt
    <3> QED  BY <1>6, <1>7, <3>1
  <2> QED  BY <2>1, <2>2
<1>9. Dead \in Route /\ ~ (Update(Dead).metric < Inf)
  BY BabelRoutingAssumption DEF Dead, Route, Metrics, Seqs, Update
<1>10. ASSUME NEW m \in Nodes
       PROVE  /\ table[m] \in {route[n][m], Dead, None} /\ (table[m] # None => route[n][m] # None)
  BY DEF Swept
<1>11. table \in [Nodes -> Route \cup {None}]
  <2>1. ASSUME NEW m \in Nodes PROVE table[m] \in Route \cup {None}
    <3>1. route[n][m] \in Route \cup {None}
      BY DEF TypeInv
    <3> HIDE DEF table
    <3> QED  BY <1>9, <1>10, <3>1
  <2> QED  BY <2>1
<1> HIDE DEF table
<1>12. \A m \in Nodes : table[m] # None => {n, m} \in scene.links
  BY <1>10 DEF LinkInv
<1>13. ASSUME NEW m \in alive, table[m] # None
       PROVE  Covers(fd'[m], Update(table[m]), table[m].ttl + 1)
  <2>1. m \in Nodes
    OBVIOUS
  <2>2. CASE table[m] = Dead
    BY <1>9, <2>2 DEF Covers
  <2>3. CASE table[m] = route[n][m]
    BY <1>1, <1>8, <1>13, <2>3
  <2> QED  BY <1>10, <1>13, <2>1, <2>2, <2>3
<1>14. /\ local[n] \in Seqs \cup {None} /\ (local[n] # None => n \in Origins)
       /\ local' \in [Nodes -> Seqs \cup {None}] /\ seqno' \in [Nodes -> Seqs]
       /\ local'[n] = local[n] /\ \A k \in Nodes \ {n} : local'[k] = local[k]
       /\ wire' \in [Nodes -> [Nodes -> Seq(Packet)]]
       /\ \A k, m \in Nodes : wire'[k][m] # <<>> => wire[k][m] # <<>>
  BY <1>2 DEF TypeInv, NodeInv, NodeAt
<1>15. UNCHANGED <<alive, scene, up>>
  BY <1>2
<1> QED  BY <1>1, <1>2, <1>5, <1>8, <1>11, <1>12, <1>13, <1>14, <1>15, SelectionHolds

-----------------------------------------------------------------------------
(* Sending.                                                                *)

\* The record that is made of an update covers it, and all that it covered before.
LEMMA LoweredTypes ==
  ASSUME NEW d \in Kept \cup {None}, NEW u, u.seq \in Seqs, u.metric \in Metrics
  PROVE  /\ Lowered(d, u) \in Kept /\ Lowered(d, u) # None
         /\ ~ Closer(u, Lowered(d, u)) /\ Lowered(d, u).gc = GCTime
         /\ d # None => \A v : v.seq \in Seqs /\ v.metric \in Metrics /\ ~ Closer(v, d) =>
                                 ~ Closer(v, Lowered(d, u))
<1>1. MaxSeq \in Nat /\ Inf \in Nat /\ GCTime \in Nat /\ GCTime \in Age
  BY BabelRoutingAssumption DEF Age
<1>2. Lowered(d, u) \in Kept /\ Lowered(d, u).gc = GCTime
  BY <1>1 DEF Lowered, Kept
<1>3. ~ Closer(u, Lowered(d, u))
  BY <1>1 DEF Lowered, Closer, Seqs, Metrics, Kept
<1>4. ASSUME d # None, NEW v, v.seq \in Seqs, v.metric \in Metrics, ~ Closer(v, d)
      PROVE  ~ Closer(v, Lowered(d, u))
  BY <1>1, <1>4 DEF Lowered, Closer, Seqs, Metrics, Kept
<1> QED  BY <1>2, <1>3, <1>4, NoneApart

\* Lowering one distance leaves covered what was.
LEMMA CoveredStays ==
  ASSUME TypeInv, NEW n \in Nodes, NEW o \in Origins, NEW u, u.seq \in Seqs, u.metric \in Metrics,
         fd' = [fd EXCEPT ![n][o] = Lowered(@, u)]
  PROVE  /\ fd' \in [Nodes -> [Origins -> Kept \cup {None}]]
         /\ \A k \in Nodes \ {n} : fd'[k] = fd[k]
         /\ fd'[n][o] = Lowered(fd[n][o], u)
         /\ \A k \in Nodes : \A v \in Tlv : \A j \in 0..GCTime :
              Covers(fd[k], v, j) => Covers(fd'[k], v, j)
<1>1. fd[n][o] \in Kept \cup {None} /\ fd \in [Nodes -> [Origins -> Kept \cup {None}]]
  BY DEF TypeInv
<1>2. Lowered(fd[n][o], u) \in Kept
  BY <1>1, LoweredTypes
<1>3. /\ fd' \in [Nodes -> [Origins -> Kept \cup {None}]]
      /\ \A k \in Nodes \ {n} : fd'[k] = fd[k]
      /\ fd'[n][o] = Lowered(fd[n][o], u)
      /\ \A p \in Origins \ {o} : fd'[n][p] = fd[n][p]
  BY <1>1, <1>2
<1>4. ASSUME NEW k \in Nodes, NEW v \in Tlv, NEW j \in 0..GCTime, Covers(fd[k], v, j)
      PROVE  Covers(fd'[k], v, j)
  <2>1. CASE v.metric < Inf /\ k = n /\ v.rid = o
    <3>1. fd[n][o] # None /\ ~ Closer(v, fd[n][o]) /\ v.seq \in Seqs /\ v.metric \in Metrics
      BY <1>4, <2>1 DEF Covers, Tlv
    <3>2. Lowered(fd[n][o], u) # None /\ Lowered(fd[n][o], u).gc = GCTime
          /\ ~ Closer(v, Lowered(fd[n][o], u))
      BY <1>1, <3>1, LoweredTypes
    <3>3. GCTime >= j
      BY BabelRoutingAssumption
    <3> QED  BY <1>3, <2>1, <3>2, <3>3 DEF Covers
  <2>2. CASE v.metric < Inf /\ ~ (k = n /\ v.rid = o)
    <3>1. v.rid \in Origins
      BY <2>2 DEF Tlv
    <3>2. fd'[k][v.rid] = fd[k][v.rid]
      BY <1>3, <2>2, <3>1
    <3> QED  BY <1>4, <3>2 DEF Covers
  <2> QED  BY <2>1, <2>2 DEF Covers
<1> QED  BY <1>3, <1>4

LEMMA EncodedTypes ==
  ASSUME IInv, NEW n \in Nodes, NEW t \in Threads, NEW job \in pend[n][t]
  PROVE  \/ Encoded(n, job) = <<>>
         \/ \E u \in Tlv : u.rid \in Origins /\ Encoded(n, job) = <<u>>
<1>1. job \in Job /\ (job.via = n => n \in Origins)
  BY LivingNodes DEF TypeInv, NodeInv, NodeAt
<1>2. CASE job.via = n /\ job.via # None
  <2> DEFINE u == [rid |-> n, seq |-> IF local[n] # None THEN local[n] ELSE job.seq, metric |-> 0]
  <2>1. u.seq \in Seqs /\ 0 \in Metrics
    BY <1>1, LivingNodes, BabelRoutingAssumption DEF Job, TypeInv, Metrics
  <2>2. u \in Tlv
    BY <1>1, <1>2, <2>1 DEF Tlv
  <2> QED  BY <1>1, <1>2, <2>2 DEF Encoded
<1>3. CASE job.via \notin {n, None} /\ route[n][job.via] # None /\ route[n][job.via].metric # Inf
  <2> DEFINE r == route[n][job.via]
             u == [rid |-> r.rid, seq |-> r.seq, metric |-> r.metric]
  <2>1. r \in Route
    BY <1>1, <1>3, LivingNodes DEF TypeInv, Job
  <2>2. r.metric < Inf /\ r.rid \in Origins
    BY <1>3, <2>1, BabelRoutingAssumption DEF Route, Metrics
  <2>3. u \in Tlv /\ u.rid \in Origins
    BY <2>1, <2>2 DEF Tlv, Route
  <2> QED  BY <1>3, <2>3 DEF Encoded
<1>4. CASE job.via = None \/ (job.via # n /\ (route[n][job.via] = None \/ route[n][job.via].metric = Inf))
  BY <1>4 DEF Encoded
<1> QED  BY <1>2, <1>3, <1>4

LEMMA RetractionTlv ==
  ASSUME NEW d
  PROVE  Retraction \in Tlv /\ Retraction \in Backed(d)
BY BabelRoutingAssumption DEF Retraction, Tlv, Backed, Covers, Seqs, Metrics

\* The record is made before the update leaves.
LEMMA SendHolds ==
  ASSUME IInv, NEW n \in Nodes, NEW t \in Threads, NEW job \in pend[n][t], Send(n, t, job)
  PROVE  IInv'
<1> USE LivingNodes
<1> DEFINE update == Encoded(n, job)
           packet == IF job.retract = "yes" THEN Append(update, Retraction) ELSE update
           to == job.to
<1>1. n \in alive /\ to \in Nodes
  BY DEF NodeInv, NodeAt, TypeInv, Job
<1>2. /\ UNCHANGED <<alive, seqno, local, route, sel, near, up, dumped, scene, flaps>>
      /\ pend' = [pend EXCEPT ![n][t] = @ \ {job}]
  BY DEF Send, links
<1>3. update = <<>> \/ \E u \in Tlv : u.rid \in Origins /\ update = <<u>>
  BY EncodedTypes
<1>4. fd' = IF update = <<>> THEN fd ELSE [fd EXCEPT ![n][update[1].rid] = Lowered(@, update[1])]
  BY DEF Send
<1>5. Transmit(n, to, packet)
  BY DEF Send
<1> HIDE DEF update
<1>6. /\ fd' \in [Nodes -> [Origins -> Kept \cup {None}]]
      /\ \A k \in Nodes \ {n} : fd'[k] = fd[k]
      /\ \A k \in Nodes : \A v \in Tlv : \A j \in 0..GCTime :
           Covers(fd[k], v, j) => Covers(fd'[k], v, j)
      /\ update \in Seq(Tlv) /\ update \in Seq(Backed(fd'[n]))
  <2>1. CASE update = <<>>
    BY <1>4, <2>1 DEF TypeInv
  <2>2. ASSUME NEW u \in Tlv, u.rid \in Origins, update = <<u>>
        PROVE  /\ fd' \in [Nodes -> [Origins -> Kept \cup {None}]]
               /\ \A k \in Nodes \ {n} : fd'[k] = fd[k]
               /\ \A k \in Nodes : \A v \in Tlv : \A j \in 0..GCTime :
                    Covers(fd[k], v, j) => Covers(fd'[k], v, j)
               /\ update \in Seq(Tlv) /\ update \in Seq(Backed(fd'[n]))
    <3>1. u.seq \in Seqs /\ u.metric \in Metrics /\ update # <<>> /\ update[1] = u
      BY <2>2 DEF Tlv
    <3>2. fd' = [fd EXCEPT ![n][u.rid] = Lowered(@, u)]
      BY <1>4, <3>1
    <3>3. /\ fd' \in [Nodes -> [Origins -> Kept \cup {None}]]
          /\ \A k \in Nodes \ {n} : fd'[k] = fd[k]
          /\ fd'[n][u.rid] = Lowered(fd[n][u.rid], u)
          /\ \A k \in Nodes : \A v \in Tlv : \A j \in 0..GCTime :
               Covers(fd[k], v, j) => Covers(fd'[k], v, j)
      BY <2>2, <3>1, <3>2, CoveredStays
    <3>4. u \in Backed(fd'[n])
      <4>1. fd[n][u.rid] \in Kept \cup {None}
        BY <2>2 DEF TypeInv
      <4>2. Lowered(fd[n][u.rid], u) # None /\ ~ Closer(u, Lowered(fd[n][u.rid], u))
            /\ Lowered(fd[n][u.rid], u).gc = GCTime
        BY <3>1, <4>1, LoweredTypes
      <4> QED  BY <3>3, <4>2, BabelRoutingAssumption DEF Backed, Covers
    <3> QED  BY <2>2, <3>3, <3>4
  <2> QED  BY <1>3, <2>1, <2>2
<1>7. packet \in Seq(Tlv) /\ packet \in Seq(Backed(fd'[n]))
  <2>1. Append(update, Retraction) \in Seq(Tlv) /\ Append(update, Retraction) \in Seq(Backed(fd'[n]))
    BY <1>6, RetractionTlv
  <2> QED  BY <1>6, <2>1
<1> HIDE DEF packet, to
<1>8. \/ wire' = wire
      \/ /\ wire' = [wire EXCEPT ![n][to] = Append(@, packet)]
         /\ packet # <<>> /\ {n, to} \in up
  BY <1>5 DEF Transmit
<1>9. ASSUME NEW k \in Nodes, NEW m \in Nodes
      PROVE  \/ wire'[k][m] = wire[k][m]
             \/ k = n /\ m = to /\ wire'[k][m] = Append(wire[k][m], packet)
                /\ packet # <<>> /\ {n, to} \in up
  <2>1. wire \in [Nodes -> [Nodes -> Seq(Packet)]]
    BY DEF TypeInv
  <2>2. ASSUME wire' = [wire EXCEPT ![n][to] = Append(@, packet)]
        PROVE  wire'[k][m] = IF k = n /\ m = to THEN Append(wire[n][to], packet) ELSE wire[k][m]
    BY <1>1, <2>1, <2>2
  <2> QED  BY <1>8, <2>2
<1>10. wire' \in [Nodes -> [Nodes -> Seq(Packet)]]
  <2>1. ASSUME packet # <<>> PROVE Append(wire[n][to], packet) \in Seq(Packet)
    <3>1. packet \in Packet
      BY <1>7, <2>1 DEF Packet
    <3>2. wire[n][to] \in Seq(Packet)
      BY <1>1 DEF TypeInv
    <3> QED  BY <3>1, <3>2
  <2>2. wire \in [Nodes -> [Nodes -> Seq(Packet)]]
    BY DEF TypeInv
  <2>3. packet # <<>> =>
          [wire EXCEPT ![n][to] = Append(wire[n][to], packet)] \in [Nodes -> [Nodes -> Seq(Packet)]]
    BY <1>1, <2>1, <2>2, PlaceSet
  <2> QED  BY <1>8, <2>2, <2>3
<1>11. TypeInv'
  <2>1. pend' \in [Nodes -> [Threads -> SUBSET Job]]
    BY <1>2 DEF TypeInv
  <2> QED  BY <1>2, <1>6, <1>10, <2>1 DEF TypeInv
<1>12. NodeInv'
  <2>1. \A k \in Nodes, s \in Threads : pend'[k][s] \subseteq pend[k][s]
    BY <1>2 DEF TypeInv
  <2>2. \A k \in Nodes : k \notin alive => fd'[k] = fd[k]
    BY <1>1, <1>6
  <2> QED  BY <1>2, <2>1, <2>2 DEF NodeInv, NodeAt
<1>13. LinkInv'
  <2>1. up \subseteq scene.links /\ \A k, m \in Nodes : {k, m} = {m, k}
    BY DEF TypeInv
  <2>2. ASSUME NEW k \in Nodes, NEW m \in Nodes, wire'[m][k] # <<>> PROVE {k, m} \in scene.links
    <3>1. CASE wire'[m][k] = wire[m][k]
      BY <2>2, <3>1 DEF LinkInv
    <3>2. CASE m = n /\ k = to /\ {n, to} \in up
      BY <2>1, <3>2
    <3> QED  BY <1>9, <3>1, <3>2
  <2>3. route' = route /\ scene' = scene
    BY <1>2
  <2> QED  BY <2>2, <2>3 DEF LinkInv
<1>14. KeptInv'
  <2>1. ASSUME NEW k \in alive, NEW m \in alive PROVE wire'[k][m] \in Seq(Seq(Backed(fd'[k])))
    <3>1. Backed(fd[k]) \subseteq Backed(fd'[k])
      BY <1>6, BabelRoutingAssumption DEF Backed
    <3>2. wire[k][m] \in Seq(Seq(Backed(fd[k])))
      BY DEF KeptInv, KeptAt
    <3>3. Seq(Backed(fd[k])) \subseteq Seq(Backed(fd'[k]))
      BY <3>1, SeqGrows
    <3>4. wire[k][m] \in Seq(Seq(Backed(fd'[k])))
      BY <3>2, <3>3, SeqGrows
    <3>5. ASSUME k = n PROVE Append(wire[k][m], packet) \in Seq(Seq(Backed(fd'[k])))
      <4>1. packet \in Seq(Backed(fd'[k]))
        BY <1>7, <3>5
      <4> QED  BY <3>4, <4>1
    <3> QED  BY <1>9, <3>4, <3>5
  <2>2. ASSUME NEW k \in alive, NEW m \in alive, route[m][k] # None
        PROVE  Covers(fd'[k], Update(route[m][k]), route[m][k].ttl + 1)
    <3>1. route[m][k] \in Route /\ Covers(fd[k], Update(route[m][k]), route[m][k].ttl + 1)
      BY <2>2 DEF TypeInv, KeptInv, KeptAt
    <3>2. Update(route[m][k]) \in Tlv /\ route[m][k].ttl + 1 \in 0..GCTime
      BY <3>1, BabelRoutingAssumption DEF Route, Tlv, Update
    <3> QED  BY <1>6, <3>1, <3>2
  <2>3. alive' = alive /\ route' = route
    BY <1>2
  <2> QED  BY <2>1, <2>2, <2>3 DEF KeptInv, KeptAt
<1> QED  BY <1>11, <1>12, <1>13, <1>14 DEF IInv

LEMMA PanicHolds ==
  ASSUME IInv, NEW n \in Nodes, NEW t \in Threads, NEW job \in pend[n][t], Panic(n, t, job)
  PROVE  IInv'
<1> USE LivingNodes
<1>1. /\ alive' = alive \ {n} /\ UNCHANGED <<scene, up, seqno>>
      /\ local' = [local EXCEPT ![n] = None] /\ sel' = [sel EXCEPT ![n] = None]
      /\ route' = [route EXCEPT ![n] = [m \in Nodes |-> None]]
      /\ fd' = [fd EXCEPT ![n] = [o \in Origins |-> None]]
      /\ pend' = [pend EXCEPT ![n] = [s \in Threads |-> {}]]
      /\ wire' = [m \in Nodes |-> [wire[m] EXCEPT ![n] = <<>>]]
  BY DEF Panic, links, budget
<1>2. \A k, m \in Nodes : wire'[k][m] = IF m = n THEN <<>> ELSE wire[k][m]
  BY <1>1 DEF TypeInv
<1>3. \A k \in Nodes \ {n} : /\ local'[k] = local[k] /\ sel'[k] = sel[k] /\ route'[k] = route[k]
                             /\ fd'[k] = fd[k] /\ pend'[k] = pend[k]
  BY <1>1 DEF TypeInv
<1>4. /\ local'[n] = None /\ sel'[n] = None /\ route'[n] = [m \in Nodes |-> None]
      /\ fd'[n] = [o \in Origins |-> None] /\ pend'[n] = [s \in Threads |-> {}]
  BY <1>1 DEF TypeInv
<1>5. TypeInv'
  <2>1. wire' \in [Nodes -> [Nodes -> Seq(Packet)]]
    BY <1>1 DEF TypeInv
  <2>2. pend' \in [Nodes -> [Threads -> SUBSET Job]] /\ route' \in [Nodes -> [Nodes -> Route \cup {None}]]
    BY <1>1 DEF TypeInv
  <2>3. fd' \in [Nodes -> [Origins -> Kept \cup {None}]]
    BY <1>1 DEF TypeInv
  <2> QED  BY <1>1, <2>1, <2>2, <2>3 DEF TypeInv
<1>6. NodeInv'
  <2>1. ASSUME NEW k \in Nodes PROVE NodeAt(k)'
    <3>1. CASE k = n
      BY <1>4, <3>1, BabelRoutingAssumption DEF NodeAt
    <3>2. CASE k # n
      BY <1>1, <1>3, <3>2 DEF NodeInv, NodeAt
    <3> QED  BY <3>1, <3>2
  <2> QED  BY <2>1 DEF NodeInv
<1>7. LinkInv'
  <2>1. ASSUME NEW k \in Nodes, NEW m \in Nodes
        PROVE  (route'[k][m] # None => route[k][m] # None) /\ (wire'[m][k] # <<>> => wire[m][k] # <<>>)
    BY <1>2, <1>3, <1>4
  <2> QED  BY <1>1, <2>1 DEF LinkInv
<1>8. KeptInv'
  <2>1. ASSUME NEW k \in alive \ {n}, NEW m \in alive \ {n} PROVE KeptAt(k, m)'
    <3>1. wire'[k][m] = wire[k][m] /\ fd'[k] = fd[k] /\ route'[m] = route[m]
      BY <1>2, <1>3
    <3> QED  BY <3>1 DEF KeptInv, KeptAt
  <2> QED  BY <1>1, <2>1 DEF KeptInv
<1> QED  BY <1>5, <1>6, <1>7, <1>8 DEF IInv

LEMMA DumpHolds ==
  ASSUME IInv, NEW n \in Nodes, Dump(n)
  PROVE  IInv'
<1> USE LivingNodes
<1> DEFINE held == \E k \in Nodes : route[n][k] # None /\ route[n][k].metric = Inf /\ route[n][k].ttl > 0
           via(m) == IF sel[n] = m THEN None ELSE sel[n]
           job(m) == [to |-> m, via |-> via(m), seq |-> IF via(m) = n THEN local[n] ELSE 0,
                      retract |-> IF held THEN "yes" ELSE "no"]
           jobs == {job(m) : m \in {k \in Neighbours(n) : via(k) # None \/ held}}
<1>1. UNCHANGED <<alive, scene, up, seqno, local, sel, route, fd, wire>> /\ n \in alive
  BY DEF Dump, tables, links, budget, Idle, Free
<1>2. pend' = [pend EXCEPT ![n]["timers"] = jobs]
  BY DEF Dump
<1>3. ASSUME NEW m \in Nodes PROVE job(m) \in Job /\ (job(m).via = n => n \in Origins)
  <2>1. via(m) \in Nodes \cup {None} /\ (via(m) = n => local[n] \in Seqs /\ n \in Origins)
    BY BabelRoutingAssumption DEF TypeInv, NodeInv, NodeAt
  <2>2. 0 \in Seqs
    BY BabelRoutingAssumption DEF Seqs
  <2> HIDE DEF via, held
  <2> QED  BY <2>1, <2>2 DEF Job
<1>4. jobs \subseteq Job /\ \A j \in jobs : j.via = n => n \in Origins
  <2>1. Neighbours(n) \subseteq Nodes
    BY DEF Neighbours
  <2> HIDE DEF via, held, job
  <2> QED  BY <1>3, <2>1
<1> HIDE DEF jobs
<1>5. /\ pend' \in [Nodes -> [Threads -> SUBSET Job]]
      /\ \A k \in Nodes \ {n} : pend'[k] = pend[k]
      /\ \A t \in Threads : pend'[n][t] = pend[n][t] \/ pend'[n][t] = jobs
  BY <1>2, <1>4 DEF TypeInv, Threads
<1>6. TypeInv'
  BY <1>1, <1>5 DEF TypeInv
<1>7. NodeInv'
  <2>1. ASSUME NEW k \in Nodes PROVE NodeAt(k)'
    <3>1. NodeAt(k)
      BY DEF NodeInv
    <3>2. CASE k = n
      BY <1>1, <1>4, <1>5, <3>1, <3>2 DEF NodeAt
    <3>3. CASE k # n
      BY <1>1, <1>5, <3>1, <3>3 DEF NodeAt
    <3> QED  BY <3>2, <3>3
  <2> QED  BY <2>1 DEF NodeInv
<1>8. LinkInv' /\ KeptInv'
  BY <1>1 DEF LinkInv, KeptInv, KeptAt
<1> QED  BY <1>6, <1>7, <1>8 DEF IInv

-----------------------------------------------------------------------------
(* Time and links.                                                         *)

\* An interval passes once nothing is on its way and nothing is due.
LEMMA TickHolds ==
  ASSUME IInv, Tick
  PROVE  IInv'
<1> USE LivingNodes
<1>1. /\ UNCHANGED <<alive, scene, up, seqno, local, sel, pend, wire>>
      /\ route' = [n \in Nodes |-> [m \in Nodes |->
           IF route[n][m] = None THEN None ELSE [route[n][m] EXCEPT !.ttl = @ - 1]]]
      /\ fd' = [n \in Nodes |-> [o \in Origins |->
           IF fd[n][o] = None THEN None ELSE [fd[n][o] EXCEPT !.gc = @ - 1]]]
  BY DEF Tick, links, budget
<1>2. \A n \in alive : (\A m \in Neighbours(n) : wire[m][n] = <<>>) /\ ~ Due(n)
  BY DEF Tick
<1>3. ASSUME NEW n \in Nodes, NEW m \in Nodes, route[n][m] # None
      PROVE  /\ n \in alive /\ route[n][m] \in Route /\ route[n][m].ttl \in Nat \ {0}
             /\ route'[n][m] = [route[n][m] EXCEPT !.ttl = @ - 1]
             /\ route'[n][m] \in Route /\ route'[n][m] # None
             /\ Update(route'[n][m]) = Update(route[n][m]) /\ route'[n][m].adv = route[n][m].adv
             /\ route'[n][m].ttl = route[n][m].ttl - 1
  <2>1. n \in alive /\ route[n][m] \in Route
    BY <1>3 DEF NodeInv, NodeAt, TypeInv
  <2>2. route[n][m].ttl # 0
    BY <1>2, <1>3, <2>1 DEF Due
  <2>3. route[n][m].ttl \in Nat \ {0} /\ route[n][m].ttl - 1 \in 0..Hold
    BY <2>1, <2>2, BabelRoutingAssumption DEF Route
  <2>4. route'[n][m] = [route[n][m] EXCEPT !.ttl = @ - 1]
    BY <1>1, <1>3
  <2>5. route'[n][m] \in Route
    BY <2>1, <2>3, <2>4 DEF Route
  <2> QED  BY <2>1, <2>3, <2>4, <2>5, NoneApart DEF Route, Update
<1>4. ASSUME NEW n \in Nodes, NEW o \in Origins, fd[n][o] # None
      PROVE  /\ n \in alive /\ fd[n][o] \in Kept /\ fd[n][o].gc \in Nat \ {0}
             /\ fd'[n][o] \in Kept /\ fd'[n][o] # None
             /\ fd'[n][o].seq = fd[n][o].seq /\ fd'[n][o].metric = fd[n][o].metric
             /\ fd'[n][o].gc = fd[n][o].gc - 1
  <2>1. n \in alive /\ fd[n][o] \in Kept
    BY <1>4 DEF NodeInv, NodeAt, TypeInv
  <2>2. fd[n][o].gc # 0
    BY <1>2, <1>4, <2>1 DEF Due
  <2>3. fd[n][o].gc \in Nat \ {0} /\ fd[n][o].gc - 1 \in Age
    BY <2>1, <2>2, BabelRoutingAssumption DEF Kept, Age
  <2>4. fd'[n][o] = [fd[n][o] EXCEPT !.gc = @ - 1]
    BY <1>1, <1>4
  <2> QED  BY <2>1, <2>3, <2>4, NoneApart DEF Kept
<1>5. \A n, m \in Nodes : route[n][m] = None => route'[n][m] = None
  BY <1>1
<1>6. \A n \in Nodes, o \in Origins : fd[n][o] = None => fd'[n][o] = None
  BY <1>1
<1>7. TypeInv'
  <2>1. route' \in [Nodes -> [Nodes -> Route \cup {None}]]
    BY <1>1, <1>3
  <2>2. fd' \in [Nodes -> [Origins -> Kept \cup {None}]]
    BY <1>1, <1>4
  <2> QED  BY <1>1, <2>1, <2>2 DEF TypeInv
<1>8. NodeInv'
  <2>1. ASSUME NEW n \in Nodes PROVE NodeAt(n)'
    <3>1. NodeAt(n)
      BY DEF NodeInv
    <3>2. sel[n] \notin {n, None} => route'[n][sel[n]] # None /\ route'[n][sel[n]].adv < Inf
      <4>1. sel[n] \in Nodes \cup {None}
        BY DEF TypeInv
      <4>2. ASSUME sel[n] \notin {n, None} PROVE route'[n][sel[n]] # None /\ route'[n][sel[n]].adv < Inf
        <5>1. sel[n] \in Nodes /\ route[n][sel[n]] # None /\ route[n][sel[n]].adv < Inf
          BY <3>1, <4>1, <4>2 DEF NodeAt
        <5>2. route'[n][sel[n]].adv < Inf
          BY <1>3, <5>1
        <5> QED  BY <5>1, <5>2, <1>3
      <4> QED  BY <4>2
    <3> QED  BY <1>1, <1>5, <1>6, <3>1, <3>2 DEF NodeAt
  <2> QED  BY <2>1 DEF NodeInv
<1>9. LinkInv'
  BY <1>1, <1>5 DEF LinkInv
<1>10. KeptInv'
  <2>1. ASSUME NEW n \in alive, NEW m \in alive PROVE KeptAt(n, m)'
    <3>1. wire'[n][m] = <<>>
      <4>1. wire[n][m] # <<>> => n \in Neighbours(m)
        BY DEF LinkInv, Neighbours
      <4> QED  BY <1>1, <1>2, <4>1
    <3>2. ASSUME route'[m][n] # None
          PROVE  Covers(fd'[n], Update(route'[m][n]), route'[m][n].ttl + 1)
      <4>1. route[m][n] # None
        BY <1>5, <3>2
      <4>2. route[m][n] \in Route /\ Covers(fd[n], Update(route[m][n]), route[m][n].ttl + 1)
        BY <4>1 DEF TypeInv, KeptInv, KeptAt
      <4> DEFINE u == Update(route[m][n])
      <4>3. Update(route'[m][n]) = u /\ route[m][n].ttl \in Nat \ {0}
            /\ route'[m][n].ttl = route[m][n].ttl - 1
        BY <1>3, <4>1
      <4>4. ASSUME u.metric < Inf
            PROVE  fd'[n][u.rid] # None /\ ~ Closer(u, fd'[n][u.rid]) /\ fd'[n][u.rid].gc >= route[m][n].ttl
        <5>1. u.rid \in Origins
          BY <4>2, <4>4 DEF Route, Update
        <5>2. fd[n][u.rid] # None /\ ~ Closer(u, fd[n][u.rid]) /\ fd[n][u.rid].gc >= route[m][n].ttl + 1
          BY <4>2, <4>4 DEF Covers
        <5> HIDE DEF u
        <5> QED  BY <1>4, <4>3, <5>1, <5>2 DEF Closer
      <4>5. route'[m][n].ttl + 1 = route[m][n].ttl
        BY <4>3
      <4> HIDE DEF u
      <4> QED  BY <4>3, <4>4, <4>5 DEF Covers
    <3>3. wire'[n][m] \in Seq(Seq(Backed(fd'[n])))
      BY <3>1
    <3> QED  BY <3>2, <3>3 DEF KeptAt
  <2> QED  BY <1>1, <2>1 DEF KeptInv
<1> QED  BY <1>7, <1>8, <1>9, <1>10 DEF IInv

\* A link that fails loses what is on it.
LEMMA FlapHolds ==
  ASSUME IInv, NEW n \in Nodes, NEW m \in Nodes, LinkDown(n, m) \/ LinkUp(n, m)
  PROVE  IInv'
<1> USE LivingNodes
<1>1. /\ UNCHANGED <<alive, scene, seqno, local, route, sel, fd, pend>>
      /\ up' \subseteq scene.links
      /\ wire' = wire \/ wire' = [wire EXCEPT ![n][m] = <<>>, ![m][n] = <<>>]
  BY DEF LinkDown, LinkUp, tables, TypeInv
<1>2. wire' \in [Nodes -> [Nodes -> Seq(Packet)]]
      /\ \A k, j \in Nodes : wire'[k][j] \in {wire[k][j], <<>>}
  <2>1. wire \in [Nodes -> [Nodes -> Seq(Packet)]] /\ <<>> \in Seq(Packet)
    BY DEF TypeInv
  <2> DEFINE w == [wire EXCEPT ![n][m] = <<>>]
  <2>2. /\ w \in [Nodes -> [Nodes -> Seq(Packet)]]
        /\ \A k, j \in Nodes : w[k][j] \in {wire[k][j], <<>>}
    <3> HIDE DEF w
    <3>1. w = [wire EXCEPT ![n][m] = <<>>]
      BY DEF w
    <3> QED  BY <2>1, <3>1, PlaceSet
  <2> HIDE DEF w
  <2>3. /\ [w EXCEPT ![m][n] = <<>>] \in [Nodes -> [Nodes -> Seq(Packet)]]
        /\ \A k, j \in Nodes : [w EXCEPT ![m][n] = <<>>][k][j] \in {w[k][j], <<>>}
    BY <2>1, <2>2, PlaceSet
  <2>4. wire' = wire \/ wire' = [w EXCEPT ![m][n] = <<>>]
    BY <1>1 DEF w
  <2> QED  BY <2>1, <2>2, <2>3, <2>4
<1>4. TypeInv'
  BY <1>1, <1>2 DEF TypeInv
<1>5. NodeInv'
  BY <1>1 DEF NodeInv, NodeAt
<1>6. LinkInv'
  <2>1. \A k, j \in Nodes : wire'[k][j] # <<>> => wire[k][j] # <<>>
    BY <1>2
  <2> QED  BY <1>1, <2>1 DEF LinkInv
<1>7. KeptInv'
  <2>1. ASSUME NEW k \in alive, NEW j \in alive PROVE wire'[k][j] \in Seq(Seq(Backed(fd[k])))
    <3>1. wire[k][j] \in Seq(Seq(Backed(fd[k]))) /\ <<>> \in Seq(Seq(Backed(fd[k])))
      BY DEF KeptInv, KeptAt
    <3> QED  BY <1>2, <3>1
  <2> QED  BY <1>1, <2>1 DEF KeptInv, KeptAt
<1> QED  BY <1>4, <1>5, <1>6, <1>7 DEF IInv

-----------------------------------------------------------------------------
(* The theorems.                                                           *)

LEMMA InitHolds ==
  ASSUME Init
  PROVE  IInv
<1>1. scene.links \subseteq DOMAIN LinkCost /\ scene \in Scenes
  BY BabelRoutingAssumption DEF Init
<1>2. UNION scene.links \subseteq Nodes
  BY <1>1, BabelRoutingAssumption
<1>3. 0 \in Seqs /\ <<>> \in Seq(Packet)
  BY BabelRoutingAssumption DEF Seqs
<1>4. TypeInv
  <2>1. pend \in [Nodes -> [Threads -> SUBSET Job]] /\ wire \in [Nodes -> [Nodes -> Seq(Packet)]]
    BY <1>3 DEF Init
  <2> QED  BY <1>1, <1>2, <1>3, <2>1 DEF Init, TypeInv
<1>5. NodeInv
  BY BabelRoutingAssumption DEF Init, NodeInv, NodeAt
<1>6. LinkInv
  BY DEF Init, LinkInv
<1>7. KeptInv
  <2>1. ASSUME NEW n \in Nodes, NEW m \in Nodes PROVE KeptAt(n, m)
    <3>1. wire[n][m] = <<>> /\ route[m][n] = None
      BY DEF Init
    <3>2. <<>> \in Seq(Seq(Backed(fd[n])))
      OBVIOUS
    <3> QED  BY <3>1, <3>2 DEF KeptAt
  <2>2. alive \subseteq Nodes
    BY <1>2 DEF Init
  <2> QED  BY <2>1, <2>2 DEF KeptInv
<1> QED  BY <1>4, <1>5, <1>6, <1>7 DEF IInv

LEMMA StepHolds ==
  ASSUME IInv, [Next]_vars
  PROVE  IInv'
<1>1. CASE Sending
  BY <1>1, SendHolds, PanicHolds DEF Sending
<1>2. CASE Speaking
  BY <1>2, DumpHolds, ReceiveHolds DEF Speaking
<1>3. CASE Timing
  BY <1>3, TickHolds, SweepHolds DEF Timing
<1>4. CASE Sensing
  BY <1>4, SensingHolds DEF Sensing
<1>5. CASE \E o \in Origins : Advertise(o) \/ Withdraw(o)
  BY <1>5, AdvertiseHolds, WithdrawHolds
<1>6. CASE \E n, m \in Nodes : LinkDown(n, m) \/ LinkUp(n, m)
  BY <1>6, FlapHolds
<1>7. CASE UNCHANGED vars
  <2>1. UNCHANGED <<alive, seqno, local, route, sel, fd, up, scene, pend, wire>>
    BY <1>7 DEF vars, tables, links, budget
  <2> QED  BY <2>1 DEF IInv, TypeInv, NodeInv, NodeAt, LinkInv, KeptInv, KeptAt
<1> QED  BY <1>1, <1>2, <1>3, <1>4, <1>5, <1>6, <1>7 DEF Next

\* Selections, packets and distances belong to the network, and each distance
\* is kept while a neighbour relies on it (onUpdateReceived, SourceGCTime).
THEOREM IInvCorrect == Spec => []IInv
BY InitHolds, StepHolds, PTL DEF Spec

\* A node remembers a distance that covers whatever a neighbour may go by.
LEMMA KeptImplies ==
  ASSUME IInv
  PROVE  DistanceKept
<1> SUFFICES ASSUME NEW n \in alive, NEW m \in alive, NEW u \in Claims(n, m)
             PROVE  fd[n][u.rid] # None /\ ~ Closer(u, fd[n][u.rid])
  BY DEF DistanceKept
<1>1. u \in Told(n, m) /\ u.metric < Inf
  BY DEF Claims
<1>2. KeptAt(n, m)
  BY DEF IInv, KeptInv
<1>3. CASE route[m][n] # None /\ u = Update(route[m][n])
  BY <1>1, <1>2, <1>3 DEF KeptAt, Covers
<1>4. ASSUME NEW i \in 1..Len(wire[n][m]), NEW j \in 1..Len(wire[n][m][i]), u = wire[n][m][i][j]
      PROVE  fd[n][u.rid] # None /\ ~ Closer(u, fd[n][u.rid])
  <2>1. wire[n][m] \in Seq(Seq(Backed(fd[n])))
    BY <1>2 DEF KeptAt
  <2>2. wire[n][m][i] \in Seq(Backed(fd[n]))
    BY <2>1
  <2>3. u \in Backed(fd[n])
    BY <1>4, <2>2
  <2> QED  BY <1>1, <2>3 DEF Backed, Covers
<1>5. \/ route[m][n] # None /\ u = Update(route[m][n])
      \/ \E i \in 1..Len(wire[n][m]) : \E j \in 1..Len(wire[n][m][i]) : u = wire[n][m][i][j]
  BY <1>1 DEF Told, Update
<1> QED  BY <1>3, <1>4, <1>5

\* The record that sourceFeasibilityLocked made is there, and small enough, for as
\* long as a neighbour has the update or a route learnt from it (SourceGCTime).
THEOREM DistanceKeptCorrect == Spec => []DistanceKept
BY IInvCorrect, KeptImplies, PTL

\* The least-number principle, from the order of the finite sets.
LEMMA Smallest ==
  ASSUME NEW T, T \subseteq Nat, T # {}
  PROVE  \E x \in T : \A y \in T : x <= y
<1> DEFINE U == {0..n : n \in T}
<1>1. U # {} /\ U \subseteq FiniteSubsetsOf(Nat)
  <2>1. ASSUME NEW n \in T PROVE 0..n \in FiniteSubsetsOf(Nat)
    BY FS_Interval, n \in Nat DEF FiniteSubsetsOf
  <2> QED  BY <2>1
<1>2. PICK u \in U : \A v \in U : <<v, u>> \notin StrictSubsetOrdering(Nat)
  <2> HIDE DEF U
  <2> QED  BY <1>1, FS_StrictSubsetOrderingWellFounded, WFMin
<1>3. PICK x \in T : u = 0..x
  BY DEF U
<1>4. ASSUME NEW y \in T, ~ (x <= y) PROVE FALSE
  <2>1. x \in Nat /\ y \in Nat /\ y < x
    BY <1>4
  <2>2. <<0..y, 0..x>> \notin StrictSubsetOrdering(Nat)
    BY <1>2, <1>3
  <2>3. 0..y \subseteq 0..x /\ 0..x # 0..y /\ 0..x \subseteq Nat
    <3>1. x \in 0..x /\ x \notin 0..y
      BY <2>1
    <3> QED  BY <2>1, <3>1
  <2> QED  BY <2>2, <2>3 DEF StrictSubsetOrdering
<1> QED  BY <1>4

\* From a node that goes by what is feasible now, the distance falls to the next.
LEMMA DistanceFalls ==
  ASSUME IInv, NEW c \in Loops, NEW n \in c, ~ Refused(n)
  PROVE  LET o == route[n][sel[n]].rid
             m == sel[n]
         IN  /\ o \in Origins /\ m \in c /\ fd[m][o] # None
             /\ fd[n][o] # None => Closer(fd[m][o], fd[n][o])
<1> DEFINE m == sel[n]
           r == route[n][m]
           o == r.rid
<1>1. c \subseteq alive /\ m \in c \ {n} /\ alive \subseteq Nodes
  BY LivingNodes DEF Loops
<1>2. r # None /\ r.adv < Inf
  <2>1. sel[n] \notin {n, None}
    BY <1>1, BabelRoutingAssumption
  <2> QED  BY <1>1, <2>1, LivingNodes DEF NodeInv, NodeAt
<1>3. r \in Route /\ o \in Origins
  BY <1>1, <1>2, LivingNodes DEF TypeInv, Route
<1>4. fd[m][o] # None /\ ~ Closer(Update(r), fd[m][o])
  <2>1. KeptAt(m, n)
    BY <1>1, LivingNodes DEF KeptInv
  <2>2. Covers(fd[m], Update(r), r.ttl + 1)
    BY <1>2, <2>1 DEF KeptAt
  <2> QED  BY <1>2, <2>2 DEF Covers, Update
<1>5. fd[n][o] # None => Closer(Update(r), fd[n][o])
  <2>1. Feasible(Update(r), fd[n][o])
    BY DEF Refused, Update
  <2>2. Update(r).metric # Inf
    BY <1>2, <1>3, BabelRoutingAssumption DEF Update, Route, Metrics
  <2> QED  BY <2>1, <2>2 DEF Feasible
<1>6. ASSUME fd[n][o] # None PROVE Closer(fd[m][o], fd[n][o])
  <2>1. /\ Update(r).seq \in Nat /\ Update(r).metric \in Nat
        /\ fd[m][o].seq \in Nat /\ fd[m][o].metric \in Nat
        /\ fd[n][o].seq \in Nat /\ fd[n][o].metric \in Nat
    <3>1. Seqs \subseteq Nat /\ Metrics \subseteq Nat
      BY BabelRoutingAssumption DEF Seqs, Metrics
    <3>2. fd \in [Nodes -> [Origins -> Kept \cup {None}]] /\ m \in Nodes /\ n \in Nodes
      BY <1>1, LivingNodes DEF TypeInv
    <3> HIDE DEF r, o, m
    <3>3. fd[m][o] \in Kept /\ fd[n][o] \in Kept
      BY <1>3, <1>4, <1>6, <3>2
    <3>4. Update(r).seq \in Seqs /\ Update(r).metric \in Metrics
      BY <1>3 DEF Route, Update
    <3> QED  BY <3>1, <3>3, <3>4 DEF Kept
  <2> HIDE DEF r, o, m
  <2> QED  BY <1>4, <1>5, <1>6, <2>1 DEF Closer
<1> QED  BY <1>1, <1>3, <1>4, <1>6

\* Along a loop of such nodes it would fall for ever: there is one with the newest
\* sequence number, and of those with that number one with the least metric.
LEMMA LoopsImplied ==
  ASSUME IInv
  PROVE  LoopsAreStale
<1> SUFFICES ASSUME NEW c \in Loops, \A n \in c : ~ Refused(n) PROVE FALSE
  BY DEF LoopsAreStale
<1>1. PICK start \in c : TRUE
  BY DEF Loops
<1> DEFINE o == route[start][sel[start]].rid
           T == {n \in c : fd[n][o] # None}
<1>2. \A n \in c : route[n][sel[n]].rid = o
  BY DEF Loops
<1>3. o \in Origins /\ T # {} /\ \A n \in T : sel[n] \in T /\ Closer(fd[sel[n]][o], fd[n][o])
  BY <1>1, <1>2, DistanceFalls
<1>4. \A n \in T : /\ fd[n][o].seq \in 0..MaxSeq /\ fd[n][o].metric \in Nat
                   /\ MaxSeq - fd[n][o].seq \in Nat
  <2>1. T \subseteq Nodes /\ \A n \in T : fd[n][o] # None
    BY LivingNodes DEF Loops
  <2>2. fd \in [Nodes -> [Origins -> Kept \cup {None}]]
    BY LivingNodes DEF TypeInv
  <2> HIDE DEF T, o
  <2>3. \A n \in T : fd[n][o] \in Kept
    BY <1>3, <2>1, <2>2
  <2> QED  BY <2>3, BabelRoutingAssumption DEF Kept, Seqs, Metrics
<1> HIDE DEF T
<1>5. PICK a \in T : \A n \in T : MaxSeq - fd[a][o].seq <= MaxSeq - fd[n][o].seq
  <2> DEFINE S == {MaxSeq - fd[n][o].seq : n \in T}
  <2>1. S \subseteq Nat /\ S # {}
    BY <1>3, <1>4
  <2>2. PICK x \in S : \A y \in S : x <= y
    <3> HIDE DEF S
    <3> QED  BY <2>1, Smallest
  <2> QED  BY <2>2
<1> DEFINE newest == {n \in T : fd[n][o].seq = fd[a][o].seq}
<1>6. PICK b \in newest : \A n \in newest : fd[b][o].metric <= fd[n][o].metric
  <2> DEFINE S == {fd[n][o].metric : n \in newest}
  <2>1. S \subseteq Nat /\ S # {}
    BY <1>4, <1>5
  <2>2. PICK x \in S : \A y \in S : x <= y
    <3> HIDE DEF S
    <3> QED  BY <2>1, Smallest
  <2> QED  BY <2>2
<1>7. sel[b] \in T /\ Closer(fd[sel[b]][o], fd[b][o])
  BY <1>3, <1>6
<1> HIDE DEF o
<1>8. /\ fd[b][o].seq \in 0..MaxSeq /\ fd[b][o].seq = fd[a][o].seq /\ fd[b][o].metric \in Nat
      /\ fd[sel[b]][o].seq \in 0..MaxSeq /\ fd[sel[b]][o].metric \in Nat
      /\ MaxSeq - fd[a][o].seq <= MaxSeq - fd[sel[b]][o].seq
  BY <1>4, <1>5, <1>6, <1>7
<1>9. fd[sel[b]][o].seq <= fd[b][o].seq
  BY <1>8, BabelRoutingAssumption
<1>10. fd[sel[b]][o].seq = fd[b][o].seq /\ fd[sel[b]][o].metric < fd[b][o].metric
  BY <1>7, <1>8, <1>9, BabelRoutingAssumption DEF Closer
<1>11. fd[b][o].metric <= fd[sel[b]][o].metric
  BY <1>6, <1>7, <1>8, <1>10
<1> QED  BY <1>8, <1>10, <1>11

\* Nodes that go by what is feasible now never forward in a circle; the loops there
\* are rest on a route that was accepted before (Route.Feasible).
THEOREM LoopsAreStaleCorrect == Spec => []LoopsAreStale
BY IInvCorrect, LoopsImplied, PTL
=============================================================================
