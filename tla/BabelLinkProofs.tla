--------------------------- MODULE BabelLinkProofs ---------------------------
(***************************************************************************)
(* Proofs about BabelLink for every capacity of a packet, hold time and    *)
(* budget: no update is taken for another router's, nothing queued is left *)
(* without a timer, the Hello history shows no Hello that was not heard,   *)
(* and no deadline is reported early.  Three invariants carry them: of the *)
(* sender and its queue, of the packets in flight, and of the neighbour.   *)
(***************************************************************************)
EXTENDS BabelLink, FiniteSetTheorems, SequenceTheorems, WellFoundedInduction, TLAPS

Numbers == 0..SeqSpace - 1
Costs == {Nominal, Infinite}
Values ==
  {Hello(s) : s \in Numbers} \cup {IHU(c) : c \in Costs} \cup {RouterID(r) : r \in Routers}
  \cup {NextHop} \cup {Update(p, r) : p \in Dests, r \in Routers}

\* The last router-id before an update, if there is one, is its router's.
RouterAt(q, i) == q[i].type = "router"
UpdateAt(q, j) == q[j].type = "update"
Attributed(q) ==
  \A i, j \in DOMAIN q :
    i < j /\ RouterAt(q, i) /\ UpdateAt(q, j)
      /\ (\A k \in DOMAIN q : i < k /\ k < j => ~ RouterAt(q, k))
      => q[i].id = q[j].of

Packets == {q \in Seq(Values) : Attributed(q)}

\* The send queue, and its timer.
SenderInv ==
  /\ sender = [queue |-> sender.queue, timer |-> sender.timer, seqno |-> sender.seqno,
               dead |-> sender.dead, failed |-> sender.failed]
  /\ sender.queue \in Packets /\ sender.timer \in Deadline /\ sender.seqno \in Numbers
  /\ sender.dead \in BOOLEAN /\ sender.failed \in BOOLEAN
  /\ NoneStranded

NetInv == net \in Seq(Packets)

\* A neighbour whose history is true, and whose timer has gone off only after the
\* hold time.
Truthful(n) ==
  \A i \in n.vector : (n.expected - 1 - i) % SeqSpace \in n.heard
Sound(n) ==
  /\ n \in Neighbour
  /\ n.timer.firing => n.silent = Hold
  /\ ~ n.jumped => Truthful(n)
PeerInv == peer # None => Sound(peer)

LearntInv == learnt = [p \in Dests |-> learnt[p]] /\ Attribution

IInv == SenderInv /\ NetInv /\ PeerInv /\ LearntInv

-----------------------------------------------------------------------------
(* Sequence numbers.                                                       *)

LEMMA ModRange == ASSUME NEW a \in Int PROVE a % SeqSpace \in Numbers
BY SMTT(30) DEF SeqSpace, Numbers

\* Shifting a history by the distance between two numbers renumbers its bits.
LEMMA ShiftedBack ==
  ASSUME NEW s \in Numbers, NEW e \in Numbers, NEW j \in Int
  PROVE  (s - 1 - (j - ((e - s) % SeqSpace))) % SeqSpace = (e - 1 - j) % SeqSpace
BY SMTT(60) DEF SeqSpace, Numbers

LEMMA ShiftedOn ==
  ASSUME NEW s \in Numbers, NEW e \in Numbers, NEW j \in Int
  PROVE  (s - 1 - (j + ((s - e) % SeqSpace))) % SeqSpace = (e - 1 - j) % SeqSpace
BY SMTT(60) DEF SeqSpace, Numbers

LEMMA NextNumber ==
  ASSUME NEW s \in Numbers, NEW k \in Int
  PROVE  (((s + 1) % SeqSpace) - 1 - k) % SeqSpace = (s - k) % SeqSpace
BY SMTT(60) DEF SeqSpace, Numbers

\* Numbers neither of which is less than the other are equal, or half the number
\* space apart.
LEMMA NeitherLess ==
  ASSUME NEW s \in Numbers, NEW e \in Numbers, ~ SeqnoLess(s, e), ~ SeqnoLess(e, s),
         (s - e) % SeqSpace # SeqSpace \div 2
  PROVE  s = e
<1>1. s \in Int /\ e \in Int /\ 0 <= s /\ s < 65536 /\ 0 <= e /\ e < 65536
  BY SMTT(30) DEF Numbers, SeqSpace
<1>2. CASE e < s
  <2>1. (s - e) % 65536 = s - e /\ (e - s) % 65536 = e - s + 65536
    BY <1>1, <1>2, SMTT(30)
  <2>2. s - e # 32768
    BY <2>1 DEF SeqSpace
  <2>3. CASE s - e < 32768
    <3>1. Signed(s - e) = s - e
      BY <1>1, <2>1, <2>3 DEF Signed, SeqSpace
    <3> QED  BY <1>1, <1>2, <3>1 DEF SeqnoLess
  <2>4. CASE s - e > 32768
    <3>1. Signed(e - s) = e - s + 65536
      BY <1>1, <2>1, <2>4 DEF Signed, SeqSpace
    <3> QED  BY <1>1, <2>4, <3>1 DEF SeqnoLess
  <2> QED  BY <1>1, <2>2, <2>3, <2>4
<1>3. CASE s < e
  <2>1. (e - s) % 65536 = e - s /\ (s - e) % 65536 = s - e + 65536
    BY <1>1, <1>3, SMTT(30)
  <2>2. e - s # 32768
    BY <1>1, <2>1 DEF SeqSpace
  <2>3. CASE e - s < 32768
    <3>1. Signed(e - s) = e - s
      BY <1>1, <2>1, <2>3 DEF Signed, SeqSpace
    <3> QED  BY <1>1, <1>3, <3>1 DEF SeqnoLess
  <2>4. CASE e - s > 32768
    <3>1. Signed(s - e) = s - e + 65536
      BY <1>1, <2>1, <2>4 DEF Signed, SeqSpace
    <3> QED  BY <1>1, <2>4, <3>1 DEF SeqnoLess
  <2> QED  BY <1>1, <2>2, <2>3, <2>4
<1> QED  BY <1>1, <1>2, <1>3

\* Moving the history to a number leaves its bits true of the number before it.
LEMMA AlignedTruthful ==
  ASSUME NEW v, v \subseteq 0..Window - 1, NEW e \in Numbers, NEW s \in Numbers, NEW heard,
         \A i \in v : (e - 1 - i) % SeqSpace \in heard,
         (s - e) % SeqSpace # SeqSpace \div 2
  PROVE  /\ Aligned(v, e, s) \subseteq 0..Window - 1
         /\ \A k \in Aligned(v, e, s) : (s - 1 - k) % SeqSpace \in heard
<1> DEFINE back == (e - s) % SeqSpace
           on == (s - e) % SeqSpace
<1>1. CASE Aligned(v, e, s) = {}
  BY <1>1
<1>2. CASE SeqnoLess(s, e) /\ Aligned(v, e, s) = ShiftRight(v, back)
  <2>1. \A k \in ShiftRight(v, back) : k \in 0..Window - 1 /\ \E j \in v : k = j - back
    BY DEF ShiftRight
  <2>2. ASSUME NEW k \in ShiftRight(v, back) PROVE (s - 1 - k) % SeqSpace \in heard
    <3>1. PICK j \in v : k = j - back
      BY <2>1
    <3>2. (s - 1 - k) % SeqSpace = (e - 1 - j) % SeqSpace
      BY <3>1, ShiftedBack DEF Window
    <3> QED  BY <3>1, <3>2
  <2> QED  BY <1>2, <2>1, <2>2
<1>3. CASE SeqnoLess(e, s) /\ Aligned(v, e, s) = ShiftLeft(v, on)
  <2>1. \A k \in ShiftLeft(v, on) : k \in 0..Window - 1 /\ \E j \in v : k = j + on
    BY DEF ShiftLeft
  <2>2. ASSUME NEW k \in ShiftLeft(v, on) PROVE (s - 1 - k) % SeqSpace \in heard
    <3>1. PICK j \in v : k = j + on
      BY <2>1
    <3>2. (s - 1 - k) % SeqSpace = (e - 1 - j) % SeqSpace
      BY <3>1, ShiftedOn DEF Window
    <3> QED  BY <3>1, <3>2
  <2> QED  BY <1>3, <2>1, <2>2
<1>4. CASE ~ SeqnoLess(s, e) /\ ~ SeqnoLess(e, s) /\ Aligned(v, e, s) = v
  <2>1. s = e
    BY <1>4, NeitherLess
  <2> QED  BY <1>4, <2>1
<1> QED  BY <1>1, <1>2, <1>3, <1>4 DEF Aligned

-----------------------------------------------------------------------------
(* What a neighbour makes of the values of a packet.                       *)

\* What an update of a timer does to it.
LEMMA TimerTypes ==
  ASSUME NEW d \in Deadline
  PROVE  /\ Reset(d) \in Deadline /\ Reset(d).firing = FALSE /\ Reset(d).token = d.token
         /\ Reset(d).armed = TRUE
         /\ Stop(d) \in Deadline /\ Stop(d).firing = FALSE /\ Stop(d).token = d.token
         /\ GoesOff(d) \in Deadline /\ GoesOff(d).firing = TRUE /\ GoesOff(d).token = d.token
         /\ Expires(d) \in Deadline /\ Expires(d).firing = FALSE /\ Expires(d).token = TRUE
         /\ StaleEnds(d) \in Deadline /\ StaleEnds(d).firing = d.firing
         /\ StaleEnds(d).token = d.token /\ StaleEnds(d).armed = d.armed
BY DEF Deadline, Reset, Stop, GoesOff, Expires, StaleEnds

\* A Hello.
LEMMA HistorySound ==
  ASSUME NEW n, Sound(n), NEW s \in Numbers
  PROVE  Sound(History(n, s)) /\ History(n, s).timer = n.timer
<1> DEFINE a == Aligned(n.vector, n.expected, s)
           vector == ShiftLeft(a, 1) \cup {0}
           next == (s + 1) % SeqSpace
           heard == n.heard \cup {s}
           jumped == (n.jumped \/ (s - n.expected) % SeqSpace = SeqSpace \div 2)
           m == History(n, s)
<1>1. /\ n \in Neighbour
      /\ n.vector \subseteq 0..Window - 1 /\ n.expected \in Numbers /\ n.heard \subseteq Numbers
      /\ n.jumped \in BOOLEAN
  BY DEF Sound, Neighbour, Numbers
<1>2. m = [n EXCEPT !.vector = vector, !.expected = next, !.heard = heard, !.jumped = jumped]
  BY DEF History
<1>3. vector \subseteq 0..Window - 1
  BY DEF ShiftLeft, Window
<1>4. next \in Numbers /\ heard \subseteq Numbers /\ jumped \in BOOLEAN
  BY <1>1, ModRange DEF Numbers
<1>5. ~ jumped /\ Truthful(n) =>
        \A k \in a : (s - 1 - k) % SeqSpace \in n.heard
  BY <1>1, AlignedTruthful DEF Truthful
<1>6. ASSUME ~ jumped, Truthful(n), NEW i \in vector
      PROVE  (next - 1 - i) % SeqSpace \in heard
  <2>1. i \in Int /\ (next - 1 - i) % SeqSpace = (s - i) % SeqSpace
    BY <1>3, <1>6, NextNumber DEF Window
  <2>2. CASE i = 0
    <3>1. s \in Int /\ 0 <= s /\ s < 65536
      BY SMTT(30) DEF Numbers, SeqSpace
    <3>2. s - 0 = s /\ s % 65536 = s
      BY <3>1
    <3>3. (s - 0) % SeqSpace = s
      BY <3>2 DEF SeqSpace
    <3> QED  BY <2>1, <2>2, <3>3
  <2>3. CASE i # 0
    <3>1. PICK k \in a : i = k + 1
      BY <1>6, <2>3 DEF ShiftLeft
    <3>2. k \in Int
      <4>1. a \subseteq 0..Window - 1
        BY <1>1, <1>6, AlignedTruthful DEF Truthful
      <4> QED  BY <3>1, <4>1 DEF Window
    <3>3. s - i = s - 1 - k
      BY <3>1, <3>2 DEF Numbers
    <3> QED  BY <1>5, <1>6, <2>1, <3>1, <3>3
  <2> QED  BY <2>2, <2>3
<1> HIDE DEF a, vector, next, heard, jumped, m
<1>7. /\ m.vector = vector /\ m.expected = next /\ m.heard = heard /\ m.jumped = jumped
      /\ m.timer = n.timer /\ m.silent = n.silent
  BY <1>1, <1>2 DEF Neighbour
<1>8. m \in Neighbour
  BY <1>1, <1>2, <1>3, <1>4 DEF Neighbour, Numbers
<1>9. ~ jumped => ~ n.jumped
  BY DEF jumped
<1>10. ~ m.jumped => Truthful(m)
  BY <1>6, <1>7, <1>9 DEF Truthful, Sound
<1>11. Sound(m)
  BY <1>7, <1>8, <1>10 DEF Sound
<1> QED  BY <1>7, <1>11 DEF m

\* An IHU.
LEMMA HeardSound ==
  ASSUME NEW n, Sound(n), NEW c \in Costs
  PROVE  Sound(Heard(n, c)) /\ Heard(n, c).timer.token = n.timer.token
<1> DEFINE t == Reset(n.timer)
           m == Heard(n, c)
<1>1. n \in Neighbour /\ n.timer \in Deadline
  BY DEF Sound, Neighbour
<1>2. t \in Deadline /\ t.firing = FALSE /\ t.token = n.timer.token
  BY <1>1, TimerTypes
<1>3. m = [n EXCEPT !.timer = t, !.tx = c, !.silent = 0, !.ihu = TRUE]
  BY DEF Heard
<1>4. 0 \in 0..Hold
  BY BabelLinkAssumption
<1> HIDE DEF t, m
<1>5. m \in Neighbour
  BY <1>1, <1>2, <1>3, <1>4 DEF Neighbour, Costs
<1>6. /\ m.timer = t /\ m.vector = n.vector /\ m.expected = n.expected
      /\ m.heard = n.heard /\ m.jumped = n.jumped
  BY <1>1, <1>3 DEF Neighbour
<1>7. Sound(m)
  BY <1>2, <1>5, <1>6 DEF Sound, Truthful
<1> QED  BY <1>2, <1>6, <1>7 DEF m

\* The fields of values.
LEMMA ValueFields ==
  ASSUME NEW v \in Values
  PROVE  /\ v.type \in {"hello", "ihu", "router", "hop", "update"}
         /\ v.type = "hello" => v.seqno \in Numbers
         /\ v.type = "ihu" => v.cost \in Costs
         /\ v.type = "router" => v.id \in Routers
         /\ v.type = "update" => v.prefix \in Dests /\ v.of \in Routers
BY DEF Values, Hello, IHU, RouterID, NextHop, Update

\* Any value.
LEMMA HandledSound ==
  ASSUME NEW n, Sound(n), NEW v \in Values
  PROVE  Sound(Handled(n, v)) /\ Handled(n, v).timer.token = n.timer.token
<1>1. CASE v.type = "hello"
  <2>1. Handled(n, v) = History(n, v.seqno)
    BY <1>1 DEF Handled
  <2> QED  BY <1>1, <2>1, ValueFields, HistorySound
<1>2. CASE v.type = "ihu"
  <2>1. Handled(n, v) = Heard(n, v.cost)
    BY <1>2 DEF Handled
  <2> QED  BY <1>2, <2>1, ValueFields, HeardSound
<1>3. CASE v.type \in {"router", "hop", "update"}
  BY <1>3 DEF Handled
<1> QED  BY <1>1, <1>2, <1>3, ValueFields

\* The least-number principle, from the order of the finite sets.
LEMMA Smallest ==
  ASSUME NEW T, T \subseteq Nat, T # {}
  PROVE  \E x \in T : \A y \in T : x <= y
<1> DEFINE U == {0..n : n \in T}
<1>1. U # {} /\ U \subseteq FiniteSubsetsOf(Nat)
  <2>1. ASSUME NEW n \in T PROVE 0..n \in FiniteSubsetsOf(Nat)
    BY FS_Interval, n \in Nat DEF FiniteSubsetsOf
  <2> QED  BY <2>1
<1>2. PICK u \in U : \A v \in U : <<v, u>> \notin StrictSubsetOrdering(Nat)
  <2> HIDE DEF U
  <2> QED  BY <1>1, FS_StrictSubsetOrderingWellFounded, WFMin
<1>3. PICK x \in T : u = 0..x
  BY DEF U
<1>4. ASSUME NEW y \in T, ~ (x <= y) PROVE FALSE
  <2>1. x \in Nat /\ y \in Nat /\ y < x
    BY <1>4
  <2>2. <<0..y, 0..x>> \notin StrictSubsetOrdering(Nat)
    BY <1>2, <1>3
  <2>3. 0..y \subseteq 0..x /\ 0..x # 0..y /\ 0..x \subseteq Nat
    <3>1. x \in 0..x /\ x \notin 0..y
      BY <2>1
    <3> QED  BY <2>1, <3>1
  <2> QED  BY <2>2, <2>3 DEF StrictSubsetOrdering
<1> QED  BY <1>3, <1>4

\* The neighbour after each value: there is such a function, of any length.
After(f, n, pkt, k) == f = [i \in 0..k |-> IF i = 0 THEN n ELSE Handled(f[i-1], pkt[i])]

LEMMA AfterExists ==
  ASSUME NEW n, NEW pkt
  PROVE  \A k \in Nat : \E f : After(f, n, pkt, k)
<1> DEFINE T == {k \in Nat : ~ \E f : After(f, n, pkt, k)}
<1>1. SUFFICES ASSUME T # {} PROVE FALSE
  OBVIOUS
<1>2. PICK k \in T : \A j \in T : k <= j
  BY <1>1, Smallest
<1>3. CASE k = 0
  <2> DEFINE f == [i \in 0..0 |-> n]
  <2>1. After(f, n, pkt, 0)
    BY DEF After
  <2> QED  BY <1>2, <1>3, <2>1
<1>4. CASE k # 0
  <2>1. k \in Nat /\ k - 1 \in Nat /\ k - 1 \notin T
    BY <1>2, <1>4
  <2>2. PICK g : After(g, n, pkt, k - 1)
    BY <2>1
  <2> DEFINE f == [i \in 0..k |-> IF i = k THEN Handled(g[k-1], pkt[k]) ELSE g[i]]
  <2>3. \A i \in 0..k - 1 : f[i] = g[i]
    BY <2>1
  <2>4. \A i \in 0..k - 1 : g[i] = IF i = 0 THEN n ELSE Handled(g[i-1], pkt[i])
    BY <2>2 DEF After
  <2>5. ASSUME NEW i \in 0..k PROVE f[i] = IF i = 0 THEN n ELSE Handled(f[i-1], pkt[i])
    <3>1. CASE i = 0
      BY <1>4, <2>1, <2>3, <2>4, <3>1
    <3>2. CASE i = k
      <4>1. f[i] = Handled(g[i-1], pkt[i]) /\ f[i-1] = g[i-1]
        BY <2>1, <2>3, <3>2
      <4> QED  BY <1>4, <3>2, <4>1
    <3>3. CASE i # 0 /\ i # k
      <4>1. i \in 0..k - 1 /\ i - 1 \in 0..k - 1
        BY <2>1, <3>3
      <4>2. f[i] = g[i] /\ f[i-1] = g[i-1] /\ g[i] = Handled(g[i-1], pkt[i])
        BY <2>3, <2>4, <3>3, <4>1
      <4> QED  BY <3>3, <4>2
    <3> QED  BY <3>1, <3>2, <3>3
  <2>6. f = [i \in 0..k |-> f[i]]
    OBVIOUS
  <2> HIDE DEF f
  <2>7. After(f, n, pkt, k)
    BY <2>5, <2>6 DEF After
  <2> QED  BY <1>2, <2>7
<1> QED  BY <1>3, <1>4

\* A packet.
LEMMA HandledAllSound ==
  ASSUME NEW n, Sound(n), NEW pkt \in Seq(Values)
  PROVE  Sound(HandledAll(n, pkt)) /\ HandledAll(n, pkt).timer.token = n.timer.token
<1> DEFINE len == Len(pkt)
           f == CHOOSE g : g = [i \in 0..len |-> IF i = 0 THEN n ELSE Handled(g[i-1], pkt[i])]
<1>1. len \in Nat /\ \A i \in 1..len : pkt[i] \in Values
  OBVIOUS
<1>2. HandledAll(n, pkt) = f[len]
  BY DEF HandledAll
<1> HIDE DEF len
<1>3. \E g : g = [i \in 0..len |-> IF i = 0 THEN n ELSE Handled(g[i-1], pkt[i])]
  <2>1. \E g : After(g, n, pkt, len)
    BY <1>1, AfterExists
  <2> QED  BY <2>1 DEF After
<1>4. f = [i \in 0..len |-> IF i = 0 THEN n ELSE Handled(f[i-1], pkt[i])]
  BY <1>3
<1> HIDE DEF f
<1>5. \A i \in 0..len : f[i] = IF i = 0 THEN n ELSE Handled(f[i-1], pkt[i])
  BY <1>4
<1> DEFINE Good(m) == Sound(m) /\ m.timer.token = n.timer.token
           T == {i \in 0..len : ~ Good(f[i])}
<1>6. ASSUME T # {} PROVE FALSE
  <2>0. T \subseteq Nat
    BY <1>1
  <2>1. PICK k \in T : \A j \in T : k <= j
    <3> HIDE DEF T
    <3> QED  BY <1>6, <2>0, Smallest
  <2>2. CASE k = 0
    BY <1>1, <1>5, <2>1, <2>2
  <2>3. CASE k # 0
    <3>1. k \in 1..len /\ k - 1 \in 0..len /\ k - 1 \notin T
      BY <1>1, <2>1, <2>3
    <3>2. Good(f[k-1]) /\ f[k] = Handled(f[k-1], pkt[k]) /\ pkt[k] \in Values
      BY <1>1, <1>5, <2>3, <3>1
    <3>3. Good(f[k])
      BY <3>2, HandledSound
    <3> QED  BY <2>1, <3>3
  <2> QED  BY <2>2, <2>3
<1>7. len \in 0..len
  BY <1>1
<1> QED  BY <1>2, <1>6, <1>7

-----------------------------------------------------------------------------
(* Queues and packets.                                                     *)

\* The largest of some places up to one.
LEMMA MaxIn ==
  ASSUME NEW n \in Nat, NEW S, S \subseteq 1..n, S # {}
  PROVE  Max(S) \in S /\ \A y \in S : Max(S) >= y
<1> DEFINE T == {n - y : y \in S}
<1>1. T # {} /\ T \subseteq Nat
  <2>1. ASSUME NEW y \in S PROVE n - y \in Nat
    BY y \in 1..n
  <2> QED  BY <2>1
<1>2. PICK z \in T : \A t \in T : z <= t
  <2> HIDE DEF T
  <2> QED  BY <1>1, Smallest
<1>3. PICK x \in S : z = n - x
  BY DEF T
<1>4. ASSUME NEW y \in S PROVE x >= y
  <2>1. n - y \in T /\ x \in Nat /\ y \in Nat
    BY <1>3
  <2> QED  BY <1>2, <1>3, <2>1
<1>5. \E m \in S : \A y \in S : m >= y
  BY <1>4
<1> QED  BY <1>5 DEF Max

\* An update that is decoded with a router-id has that of its router
\* (Parser.update).
LEMMA DecodedRight ==
  ASSUME NEW pkt \in Packets, NEW u \in Decoded(pkt), u.id # None
  PROVE  u.id = u.of
<1>1. PICK j \in DOMAIN pkt : pkt[j].type = "update"
        /\ u = [prefix |-> pkt[j].prefix, id |-> CurrentRouterID(pkt, j), of |-> pkt[j].of]
  BY DEF Decoded
<1> DEFINE before == {i \in 1..j : pkt[i].type = "router"}
           m == Max(before)
<1>2. DOMAIN pkt = 1..Len(pkt) /\ Len(pkt) \in Nat /\ j \in Nat
  BY DEF Packets
<1>3. CurrentRouterID(pkt, j) = IF before = {} THEN None ELSE pkt[m].id
  BY DEF CurrentRouterID
<1>4. before # {}
  BY <1>1, <1>3
<1>5. before \subseteq 1..j
  OBVIOUS
<1> HIDE DEF before, m
<1>6. m \in before /\ \A y \in before : m >= y
  BY <1>2, <1>4, <1>5, MaxIn DEF m
<1>7. m \in DOMAIN pkt /\ m < j /\ RouterAt(pkt, m)
  <2>1. m \in 1..j /\ pkt[m].type = "router"
    BY <1>6 DEF before
  <2>2. m # j
    BY <1>1, <2>1
  <2> QED  BY <1>2, <2>1, <2>2 DEF RouterAt
<1>8. \A k \in DOMAIN pkt : m < k /\ k < j => ~ RouterAt(pkt, k)
  <2>1. ASSUME NEW k \in DOMAIN pkt, m < k, k < j, RouterAt(pkt, k) PROVE FALSE
    <3>1. k \in before
      BY <1>2, <2>1 DEF before, RouterAt
    <3>2. m >= k /\ m \in Nat /\ k \in Nat
      BY <1>2, <1>6, <1>7, <3>1
    <3> QED  BY <2>1, <3>2
  <2> QED  BY <2>1
<1>9. pkt[m].id = pkt[j].of
  BY <1>1, <1>7, <1>8 DEF Packets, Attributed, UpdateAt
<1> QED  BY <1>1, <1>3, <1>4, <1>9

\* Values that bring their router with them may follow any others (Queue.push).
Grouped(vs) ==
  \A j \in DOMAIN vs : UpdateAt(vs, j) => \E i \in DOMAIN vs : i < j /\ RouterAt(vs, i)

LEMMA QueuedPacket ==
  ASSUME NEW q \in Packets, NEW vs \in Packets, Grouped(vs)
  PROVE  Queued(q, vs) \in Packets
<1> DEFINE c == q \o vs
           n == Len(q)
<1>1. q \in Seq(Values) /\ vs \in Seq(Values) /\ Attributed(q) /\ Attributed(vs)
  BY DEF Packets
<1>2. /\ n \in Nat /\ Len(vs) \in Nat /\ DOMAIN q = 1..n /\ DOMAIN vs = 1..Len(vs)
      /\ c \in Seq(Values) /\ DOMAIN c = 1..n + Len(vs)
      /\ \A i \in 1..n : c[i] = q[i]
      /\ \A i \in 1..Len(vs) : c[n + i] = vs[i]
  <2>1. n \in Nat /\ Len(vs) \in Nat /\ DOMAIN q = 1..n /\ DOMAIN vs = 1..Len(vs)
    BY <1>1
  <2>2. /\ c \in Seq(Values) /\ Len(c) = n + Len(vs)
        /\ \A i \in 1..n + Len(vs) : c[i] = IF i <= n THEN q[i] ELSE vs[i - n]
    BY <1>1, ConcatProperties
  <2>3. DOMAIN c = 1..n + Len(vs)
    BY <2>2, LenProperties
  <2> HIDE DEF c, n
  <2>4. \A i \in 1..n : c[i] = q[i]
    BY <2>1, <2>2
  <2>5. ASSUME NEW i \in 1..Len(vs) PROVE c[n + i] = vs[i]
    <3>1. n + i \in 1..n + Len(vs) /\ ~ n + i <= n /\ (n + i) - n = i
      BY <2>1
    <3> QED  BY <2>2, <3>1
  <2> QED  BY <2>1, <2>2, <2>3, <2>4, <2>5
<1> HIDE DEF c, n
<1>3. ASSUME NEW i \in DOMAIN c, NEW j \in DOMAIN c, i < j, RouterAt(c, i), UpdateAt(c, j),
             \A k \in DOMAIN c : i < k /\ k < j => ~ RouterAt(c, k)
      PROVE  c[i].id = c[j].of
  <2>1. CASE j <= n
    <3>1. i \in DOMAIN q /\ j \in DOMAIN q /\ c[i] = q[i] /\ c[j] = q[j]
      BY <1>2, <1>3, <2>1
    <3>2. \A k \in DOMAIN q : i < k /\ k < j => ~ RouterAt(q, k)
      BY <1>2, <1>3 DEF RouterAt
    <3> QED  BY <1>1, <1>3, <3>1, <3>2 DEF Attributed, RouterAt, UpdateAt
  <2>2. CASE j > n
    <3>1. j - n \in DOMAIN vs /\ c[j] = vs[j - n] /\ j = n + (j - n)
      BY <1>2, <1>3, <2>2
    <3>2. PICK h \in DOMAIN vs : h < j - n /\ RouterAt(vs, h)
      BY <1>3, <3>1 DEF Grouped, UpdateAt
    <3>3. n + h \in DOMAIN c /\ n + h < j /\ RouterAt(c, n + h)
      BY <1>2, <1>3, <3>1, <3>2 DEF RouterAt
    <3>4. ~ i < n + h
      BY <1>3, <3>3
    <3>5. i - n \in DOMAIN vs /\ i = n + (i - n) /\ i - n < j - n
      BY <1>2, <1>3, <3>1, <3>2, <3>4
    <3>6. c[i] = vs[i - n]
      BY <1>2, <3>5
    <3>7. ASSUME NEW k \in DOMAIN vs, i - n < k, k < j - n PROVE ~ RouterAt(vs, k)
      <4>1. n + k \in DOMAIN c /\ i < n + k /\ n + k < j /\ c[n + k] = vs[k]
        BY <1>2, <1>3, <3>7
      <4> QED  BY <1>3, <4>1 DEF RouterAt
    <3> QED  BY <1>1, <1>3, <3>1, <3>5, <3>6, <3>7 DEF Attributed, RouterAt, UpdateAt
  <2>3. n \in Nat /\ j \in Nat
    BY <1>2
  <2> QED  BY <2>1, <2>2, <2>3
<1>4. Attributed(c)
  BY <1>3 DEF Attributed
<1>5. c \in Packets
  BY <1>2, <1>4 DEF Packets
<1> QED  BY <1>5 DEF Queued, c

\* What stands together in a queue is attributed as before, wherever it is cut
\* (Queue.send).
LEMMA PartPacket ==
  ASSUME NEW q \in Packets, NEW a \in Nat \ {0}, NEW b \in Nat, b <= Len(q)
  PROVE  SubSeq(q, a, b) \in Packets
<1> DEFINE c == SubSeq(q, a, b)
<1>1. q \in Seq(Values) /\ Attributed(q) /\ DOMAIN q = 1..Len(q) /\ Len(q) \in Nat
  BY DEF Packets
<1>2. \A i \in a..b : q[i] \in Values
  BY <1>1
<1>3. a \in Int /\ b \in Int
  OBVIOUS
<1>4. /\ c \in Seq(Values) /\ Len(c) = IF a <= b THEN b - a + 1 ELSE 0
      /\ \A i \in 1..b - a + 1 : c[i] = q[a + i - 1]
  <2> HIDE DEF Values
  <2> QED  BY <1>2, <1>3, SubSeqProperties
<1> HIDE DEF c
<1>5. DOMAIN c = 1..Len(c)
  BY <1>4, LenProperties
<1>6. ASSUME NEW i \in DOMAIN c
      PROVE  i \in 1..b - a + 1 /\ i \in Int /\ c[i] = q[a + i - 1] /\ a + i - 1 \in DOMAIN q
  <2>1. i \in 1..b - a + 1
    BY <1>3, <1>4, <1>5
  <2>2. a + i - 1 \in 1..Len(q)
    BY <1>1, <2>1
  <2> QED  BY <1>1, <1>4, <2>1, <2>2
<1>7. ASSUME NEW i \in DOMAIN c, NEW j \in DOMAIN c, i < j, RouterAt(c, i), UpdateAt(c, j),
             \A k \in DOMAIN c : i < k /\ k < j => ~ RouterAt(c, k)
      PROVE  c[i].id = c[j].of
  <2>1. a + i - 1 < a + j - 1
    BY <1>3, <1>7, <1>6
  <2>2. ASSUME NEW k \in DOMAIN q, a + i - 1 < k, k < a + j - 1 PROVE ~ RouterAt(q, k)
    <3>1. i \in 1..b - a + 1 /\ j \in 1..b - a + 1 /\ k \in Int
      BY <1>1, <1>6
    <3>2. i < k - a + 1 /\ k - a + 1 < j /\ a + (k - a + 1) - 1 = k
      BY <1>3, <2>2, <3>1
    <3>3. k - a + 1 \in DOMAIN c
      BY <1>3, <1>4, <1>5, <3>1, <3>2
    <3>4. c[k - a + 1] = q[k]
      BY <1>6, <3>2, <3>3
    <3> QED  BY <1>7, <3>2, <3>3, <3>4 DEF RouterAt
  <2> QED  BY <1>1, <1>7, <1>6, <2>1, <2>2 DEF Attributed, RouterAt, UpdateAt
<1>8. c \in Packets
  BY <1>4, <1>7 DEF Attributed, Packets
<1> QED  BY <1>8 DEF c

LEMMA CutPackets ==
  ASSUME NEW q \in Packets
  PROVE  Packed(q) \in Packets /\ Left(q) \in Packets
<1>1. Len(q) \in Nat /\ Capacity \in Nat
  BY BabelLinkAssumption DEF Packets
<1>2. Least(Capacity, Len(q)) \in Nat /\ Least(Capacity, Len(q)) <= Len(q)
      /\ Least(Capacity, Len(q)) + 1 \in Nat \ {0} /\ 1 \in Nat \ {0}
  BY <1>1 DEF Least
<1> QED  BY <1>1, <1>2, PartPacket DEF Packed, Left

\* What a speaker queues.
LEMMA SinglePacket ==
  ASSUME NEW v \in Values, v.type # "update"
  PROVE  <<v>> \in Packets /\ Grouped(<<v>>)
BY DEF Packets, Attributed, Grouped, UpdateAt, RouterAt

LEMMA EncodedPacket ==
  ASSUME NEW p \in Dests, NEW r \in Routers, NEW vs \in Encodings(p, r)
  PROVE  vs \in Packets /\ Grouped(vs)
<1>1. RouterID(r) \in Values /\ NextHop \in Values /\ Update(p, r) \in Values
  BY DEF Values
<1>2. /\ RouterID(r).type = "router" /\ RouterID(r).id = r /\ NextHop.type = "hop"
      /\ Update(p, r).type = "update" /\ Update(p, r).of = r
  BY DEF RouterID, NextHop, Update
<1>3. CASE vs = <<RouterID(r), NextHop, Update(p, r)>>
  <2>1. /\ vs \in Seq(Values) /\ DOMAIN vs = {1, 2, 3}
        /\ vs[1] = RouterID(r) /\ vs[2] = NextHop /\ vs[3] = Update(p, r)
    BY <1>1, <1>3
  <2>2. Attributed(vs)
    BY <1>2, <2>1 DEF Attributed, RouterAt, UpdateAt
  <2>3. Grouped(vs)
    BY <1>2, <2>1 DEF Grouped, RouterAt, UpdateAt
  <2> QED  BY <2>1, <2>2, <2>3 DEF Packets
<1>4. CASE vs = <<RouterID(r), Update(p, r)>>
  <2>1. /\ vs \in Seq(Values) /\ DOMAIN vs = {1, 2}
        /\ vs[1] = RouterID(r) /\ vs[2] = Update(p, r)
    BY <1>1, <1>4
  <2>2. Attributed(vs)
    BY <1>2, <2>1 DEF Attributed, RouterAt, UpdateAt
  <2>3. Grouped(vs)
    BY <1>2, <2>1 DEF Grouped, RouterAt, UpdateAt
  <2> QED  BY <2>1, <2>2, <2>3 DEF Packets
<1> QED  BY <1>3, <1>4 DEF Encodings

-----------------------------------------------------------------------------
(* The steps.                                                              *)

\* Parts that a step leaves alone.
LEMMA PartsKept ==
  /\ SenderInv /\ UNCHANGED sender => SenderInv'
  /\ NetInv /\ UNCHANGED net => NetInv'
  /\ PeerInv /\ UNCHANGED peer => PeerInv'
  /\ LearntInv /\ UNCHANGED learnt => LearntInv'
BY DEF SenderInv, NoneStranded, NetInv, PeerInv, LearntInv, Attribution

\* The sender changes: what it queues still has a timer.
LEMMA SenderChanges ==
  ASSUME NEW q \in Packets, NEW d \in Deadline, NEW s \in Numbers,
         NEW dead \in BOOLEAN, NEW failed \in BOOLEAN,
         sender' = [queue |-> q, timer |-> d, seqno |-> s, dead |-> dead, failed |-> failed],
         q # <<>> /\ ~ failed => Waiting(d)
  PROVE  SenderInv'
BY DEF SenderInv, NoneStranded

LEMMA NoValues == <<>> \in Packets
BY DEF Packets, Attributed

LEMMA PushStep ==
  ASSUME SenderInv, NEW vs \in Packets, Grouped(vs), NEW s \in Numbers,
         sender' = [sender EXCEPT !.queue = Queued(@, vs), !.timer = Reset(@),
                                  !.failed = FALSE, !.seqno = s]
  PROVE  SenderInv'
<1> DEFINE q == Queued(sender.queue, vs)
           d == Reset(sender.timer)
<1>1. q \in Packets /\ d \in Deadline /\ d.armed = TRUE
  BY QueuedPacket, TimerTypes DEF SenderInv
<1>2. sender' = [sender EXCEPT !.queue = q, !.timer = d, !.failed = FALSE, !.seqno = s]
  OBVIOUS
<1> HIDE DEF q, d
<1>3. sender' = [queue |-> q, timer |-> d, seqno |-> s, dead |-> sender.dead, failed |-> FALSE]
  BY <1>2 DEF SenderInv
<1>4. Waiting(d) /\ sender.dead \in BOOLEAN
  BY <1>1 DEF Waiting, SenderInv
<1> QED  BY <1>1, <1>3, <1>4, SenderChanges

LEMMA SendHelloStep ==
  ASSUME SenderInv, SendHello
  PROVE  SenderInv'
<1> DEFINE s == (sender.seqno + 1) % SeqSpace
<1>1. s \in Numbers
  BY ModRange DEF SenderInv, Numbers
<1>2. sender' = [sender EXCEPT !.queue = Queued(@, <<Hello(s)>>), !.timer = Reset(@),
                               !.failed = FALSE, !.seqno = s]
  BY DEF SendHello
<1> HIDE DEF s
<1>3. Hello(s) \in Values /\ Hello(s).type # "update"
  BY <1>1 DEF Values, Hello
<1>4. <<Hello(s)>> \in Packets /\ Grouped(<<Hello(s)>>)
  BY <1>3, SinglePacket
<1> QED  BY <1>1, <1>2, <1>4, PushStep

LEMMA PushedStep ==
  ASSUME SenderInv, NEW vs \in Packets, Grouped(vs), Push(vs)
  PROVE  SenderInv'
<1> DEFINE q == Queued(sender.queue, vs)
           d == Reset(sender.timer)
<1>1. q \in Packets /\ d \in Deadline /\ d.armed = TRUE
  BY QueuedPacket, TimerTypes DEF SenderInv
<1>2. sender' = [sender EXCEPT !.queue = q, !.timer = d, !.failed = FALSE]
  BY DEF Push
<1> HIDE DEF q, d
<1>3. sender' = [queue |-> q, timer |-> d, seqno |-> sender.seqno, dead |-> sender.dead, failed |-> FALSE]
  BY <1>2 DEF SenderInv
<1>4. Waiting(d) /\ sender.dead \in BOOLEAN /\ sender.seqno \in Numbers
  BY <1>1 DEF Waiting, SenderInv
<1> QED  BY <1>1, <1>3, <1>4, SenderChanges

LEMMA SendIHUStep ==
  ASSUME SenderInv, SendIHU
  PROVE  SenderInv'
<1>1. PICK c \in {Nominal, Infinite} : Push(<<IHU(c)>>)
  BY DEF SendIHU
<1>2. IHU(c) \in Values /\ IHU(c).type # "update"
  BY DEF Values, IHU, Costs
<1>3. <<IHU(c)>> \in Packets /\ Grouped(<<IHU(c)>>)
  BY <1>2, SinglePacket
<1> QED  BY <1>1, <1>3, PushedStep

LEMMA SendUpdateStep ==
  ASSUME SenderInv, SendUpdate
  PROVE  SenderInv'
<1>1. PICK p \in Dests, r \in Routers : \E vs \in Encodings(p, r) : Push(vs)
  BY DEF SendUpdate
<1>2. PICK vs \in Encodings(p, r) : Push(vs)
  BY <1>1
<1> QED  BY <1>2, EncodedPacket, PushedStep

\* A timer goes off, or its callback runs: it still waits for something.
LEMMA QueueTimerStep ==
  ASSUME SenderInv, QueueTimer
  PROVE  SenderInv'
<1> DEFINE t == sender.timer
<1>1. t \in Deadline
  BY DEF SenderInv
<1>2. PICK d : sender' = [sender EXCEPT !.timer = d]
        /\ (\/ d = Expires(t) \/ d = StaleEnds(t) \/ d = GoesOff(t))
  BY DEF QueueTimer, Callbacks
<1>3. d \in Deadline /\ (Waiting(t) => Waiting(d))
  <2> HIDE DEF t
  <2>1. CASE d = Expires(t)
    <3>1. Expires(t) \in Deadline /\ Expires(t).token = TRUE
      BY <1>1, TimerTypes
    <3> QED  BY <2>1, <3>1 DEF Waiting
  <2>2. CASE d = StaleEnds(t)
    <3>1. /\ StaleEnds(t) \in Deadline /\ StaleEnds(t).armed = t.armed
          /\ StaleEnds(t).firing = t.firing /\ StaleEnds(t).token = t.token
      BY <1>1, TimerTypes
    <3> QED  BY <2>2, <3>1 DEF Waiting
  <2>3. CASE d = GoesOff(t)
    <3>1. GoesOff(t) \in Deadline /\ GoesOff(t).firing = TRUE
      BY <1>1, TimerTypes
    <3> QED  BY <2>3, <3>1 DEF Waiting
  <2> QED  BY <1>2, <2>1, <2>2, <2>3
<1>4. Waiting(t) => Waiting(d)
  BY <1>3
<1>5. sender' = [queue |-> sender.queue, timer |-> d, seqno |-> sender.seqno,
                 dead |-> sender.dead, failed |-> sender.failed]
  BY <1>2 DEF SenderInv
<1>6. /\ sender.queue \in Packets /\ sender.seqno \in Numbers
      /\ sender.dead \in BOOLEAN /\ sender.failed \in BOOLEAN
      /\ sender.queue # <<>> /\ ~ sender.failed => Waiting(d)
  BY <1>4 DEF SenderInv, NoneStranded
<1> QED  BY <1>3, <1>5, <1>6, SenderChanges

\* What has been taken from the queue.
LEMMA TakenFields ==
  ASSUME SenderInv
  PROVE  \E d \in Deadline :
           Taken = [queue |-> Left(sender.queue), timer |-> d, seqno |-> sender.seqno,
                    dead |-> sender.dead, failed |-> sender.failed]
<1> DEFINE d == [sender.timer EXCEPT !.token = FALSE]
           q == Left(sender.queue)
<1>1. d \in Deadline
  BY DEF SenderInv, Deadline
<1>2. Taken = [sender EXCEPT !.queue = q, !.timer = d]
  BY DEF Taken, SenderInv
<1> HIDE DEF d, q
<1>3. Taken = [queue |-> q, timer |-> d, seqno |-> sender.seqno,
               dead |-> sender.dead, failed |-> sender.failed]
  BY <1>2 DEF SenderInv
<1> QED  BY <1>1, <1>3 DEF q

\* The rest of the queue is paced.
LEMMA SendPacketStep ==
  ASSUME SenderInv, NetInv, SendPacket
  PROVE  SenderInv' /\ NetInv'
<1>1. sender.queue \in Packets /\ sender.seqno \in Numbers /\ sender.dead \in BOOLEAN
      /\ sender.failed \in BOOLEAN
  BY DEF SenderInv
<1>2. Left(sender.queue) \in Packets /\ Packed(sender.queue) \in Packets
  BY <1>1, CutPackets
<1>3. NetInv'
  <2>1. net' = Append(net, Packed(sender.queue))
    BY DEF SendPacket
  <2> HIDE DEF Packets
  <2> QED  BY <1>2, <2>1 DEF NetInv
<1>4. PICK d \in Deadline :
        Taken = [queue |-> Left(sender.queue), timer |-> d, seqno |-> sender.seqno,
                 dead |-> sender.dead, failed |-> sender.failed]
  BY TakenFields
<1>5. sender' = Rescheduled(Taken)
  BY DEF SendPacket
<1> DEFINE q == Left(sender.queue)
<1>6. CASE q = <<>>
  <2>1. sender' = Taken
    BY <1>4, <1>5, <1>6 DEF Rescheduled
  <2> QED  BY <1>1, <1>2, <1>3, <1>4, <1>6, <2>1, SenderChanges
<1>7. CASE q # <<>>
  <2> DEFINE e == Reset(d)
  <2>1. e \in Deadline /\ e.armed = TRUE
    BY TimerTypes
  <2>2. sender' = [Taken EXCEPT !.timer = Reset(@)] /\ Taken.timer = d
    BY <1>4, <1>5, <1>7 DEF Rescheduled
  <2>3. sender' = [queue |-> q, timer |-> e, seqno |-> sender.seqno,
                   dead |-> sender.dead, failed |-> sender.failed]
    BY <1>4, <2>2
  <2> HIDE DEF e, q
  <2>4. Waiting(e) /\ q \in Packets
    BY <1>2, <2>1 DEF Waiting, q
  <2>5. SenderInv'
    BY <1>1, <2>1, <2>3, <2>4, SenderChanges
  <2> QED  BY <1>3, <2>5
<1> QED  BY <1>6, <1>7

LEMMA WriteFailsStep ==
  ASSUME SenderInv, WriteFails
  PROVE  SenderInv'
<1>1. PICK d \in Deadline :
        Taken = [queue |-> Left(sender.queue), timer |-> d, seqno |-> sender.seqno,
                 dead |-> sender.dead, failed |-> sender.failed]
  BY TakenFields
<1> DEFINE q == Left(sender.queue)
<1>2. q \in Packets /\ sender.seqno \in Numbers /\ sender.dead \in BOOLEAN
  BY CutPackets DEF SenderInv
<1>3. sender' = [queue |-> q, timer |-> d, seqno |-> sender.seqno,
                 dead |-> sender.dead, failed |-> TRUE]
  BY <1>1 DEF WriteFails
<1> HIDE DEF q
<1> QED  BY <1>2, <1>3, SenderChanges

LEMMA NewTimer == NewDeadline \in Deadline
BY DEF NewDeadline, Deadline

LEMMA RestartStep ==
  ASSUME Restart
  PROVE  SenderInv'
<1>1. sender' = [queue |-> <<>>, timer |-> NewDeadline, seqno |-> 0, dead |-> FALSE, failed |-> FALSE]
  BY DEF Restart
<1>2. 0 \in Numbers
  BY DEF Numbers, SeqSpace
<1> QED  BY <1>1, <1>2, NoValues, NewTimer, SenderChanges

LEMMA DieStep ==
  ASSUME SenderInv, Die
  PROVE  SenderInv'
<1>1. sender' = [queue |-> sender.queue, timer |-> sender.timer, seqno |-> sender.seqno,
                 dead |-> TRUE, failed |-> sender.failed]
  BY DEF Die, SenderInv
<1>2. /\ sender.queue \in Packets /\ sender.timer \in Deadline /\ sender.seqno \in Numbers
      /\ sender.failed \in BOOLEAN
      /\ sender.queue # <<>> /\ ~ sender.failed => Waiting(sender.timer)
  BY DEF SenderInv, NoneStranded
<1> QED  BY <1>1, <1>2, SenderChanges

\* Packets are lost, duplicated and taken out of the middle.
LEMMA WithoutOne ==
  ASSUME NetInv, NEW i \in DOMAIN net
  PROVE  RemoveAt(net, i) \in Seq(Packets) /\ net[i] \in Packets
<1>1. net \in Seq(Packets) /\ Len(net) \in Nat /\ DOMAIN net = 1..Len(net)
  BY DEF NetInv
<1>2. i \in Int /\ i - 1 \in Int /\ i + 1 \in Int /\ 1 \in Int /\ Len(net) \in Int
  BY <1>1
<1>3. /\ \A j \in 1..i - 1 : net[j] \in Packets
      /\ \A j \in i + 1..Len(net) : net[j] \in Packets
      /\ net[i] \in Packets
  BY <1>1
<1> HIDE DEF Packets
<1>4. SubSeq(net, 1, i - 1) \in Seq(Packets) /\ SubSeq(net, i + 1, Len(net)) \in Seq(Packets)
  BY <1>2, <1>3, SubSeqProperties
<1>5. SubSeq(net, 1, i - 1) \o SubSeq(net, i + 1, Len(net)) \in Seq(Packets)
  BY <1>4, ConcatProperties
<1> QED  BY <1>3, <1>5 DEF RemoveAt

LEMMA NewSound == Sound(NewNeighbour)
<1>1. 0 \in Numbers /\ 0 \in 0..Hold
  BY BabelLinkAssumption DEF Numbers, SeqSpace
<1>2. NewNeighbour \in Neighbour
  BY <1>1, NewTimer DEF NewNeighbour, Neighbour, Numbers
<1> QED  BY <1>2 DEF Sound, Truthful, NewNeighbour, NewDeadline

\* A packet is handled: the neighbour stays sound, and what is learnt is
\* attributed rightly (Speaker.onPacket).
LEMMA ReceiveStep ==
  ASSUME NetInv, PeerInv, LearntInv, Receive
  PROVE  /\ NetInv' /\ PeerInv' /\ LearntInv'
         /\ peer # None => peer'.timer.token = peer.timer.token
<1> DEFINE known == IF peer = None THEN NewNeighbour ELSE peer
<1>1. PICK i \in DOMAIN net :
        /\ net' = RemoveAt(net, i)
        /\ peer' = HandledAll(known, net[i])
        /\ learnt' = [p \in Dests |->
             IF \E u \in {w \in Decoded(net[i]) : w.id # None} : u.prefix = p
             THEN CHOOSE u \in {w \in Decoded(net[i]) : w.id # None} : u.prefix = p
             ELSE learnt[p]]
  BY DEF Receive
<1>2. NetInv' /\ net[i] \in Packets
  BY <1>1, WithoutOne DEF NetInv
<1>3. Sound(NewNeighbour)
  BY NewSound
<1>4. Sound(known) /\ (peer # None => known = peer)
  BY <1>3 DEF PeerInv
<1> HIDE DEF known
<1>5. net[i] \in Seq(Values)
  BY <1>2 DEF Packets
<1>6. Sound(peer') /\ peer'.timer.token = known.timer.token
  BY <1>1, <1>4, <1>5, HandledAllSound
<1>7. PeerInv'
  BY <1>6 DEF PeerInv, Sound, Truthful
<1> DEFINE routed == {w \in Decoded(net[i]) : w.id # None}
<1>8. \A u \in routed : u.id = u.of
  BY <1>2, DecodedRight
<1> HIDE DEF routed
<1>9. ASSUME NEW p \in Dests, learnt'[p] # None PROVE learnt'[p].id = learnt'[p].of
  <2>1. learnt'[p] = IF \E u \in routed : u.prefix = p
                     THEN CHOOSE u \in routed : u.prefix = p ELSE learnt[p]
    BY <1>1 DEF routed
  <2>2. learnt'[p] \in routed \/ learnt'[p] = learnt[p]
    BY <2>1
  <2> QED  BY <1>8, <1>9, <2>2 DEF LearntInv, Attribution
<1>10. LearntInv'
  BY <1>1, <1>9 DEF LearntInv, Attribution
<1> QED  BY <1>2, <1>4, <1>6, <1>7, <1>10


\* A packet is lost, or comes twice.
LEMMA NetworkStep ==
  ASSUME NetInv, Lose \/ Duplicate
  PROVE  NetInv'
<1>1. CASE Lose
  <2>1. PICK i \in DOMAIN net : net' = RemoveAt(net, i)
    BY <1>1 DEF Lose
  <2> QED  BY <2>1, WithoutOne DEF NetInv
<1>2. CASE Duplicate
  <2>1. PICK i \in DOMAIN net : net' = Append(net, net[i])
    BY <1>2 DEF Duplicate
  <2>2. net[i] \in Packets /\ net \in Seq(Packets)
    BY <2>1, WithoutOne DEF NetInv
  <2> HIDE DEF Packets
  <2>3. Append(net, net[i]) \in Seq(Packets)
    BY <2>2
  <2> QED  BY <2>1, <2>3 DEF NetInv
<1> QED  BY <1>1, <1>2

\* A neighbour keeps its history, and what has been heard of it.
LEMMA PeerChanges ==
  ASSUME PeerInv, peer # None, NEW d \in Deadline, NEW t \in {Nominal, Infinite},
         NEW k \in 0..Hold, d.firing => k = Hold,
         peer' = [tx |-> t, vector |-> peer.vector, expected |-> peer.expected,
                  timer |-> d, silent |-> k, ihu |-> peer.ihu,
                  heard |-> peer.heard, jumped |-> peer.jumped]
  PROVE  PeerInv'
<1>1. peer \in Neighbour /\ (~ peer.jumped => Truthful(peer))
  BY DEF PeerInv, Sound
<1>2. peer' \in Neighbour
  BY <1>1 DEF Neighbour
<1>3. /\ peer'.timer = d /\ peer'.silent = k /\ peer'.vector = peer.vector
      /\ peer'.expected = peer.expected /\ peer'.heard = peer.heard
      /\ peer'.jumped = peer.jumped
  OBVIOUS
<1>4. ~ peer'.jumped => \A i \in peer'.vector : (peer'.expected - 1 - i) % SeqSpace \in peer'.heard
  BY <1>1, <1>3 DEF Truthful
<1> QED  BY <1>2, <1>3, <1>4 DEF PeerInv, Sound, Truthful

\* The parts of a neighbour.
LEMMA PeerFields ==
  ASSUME PeerInv, peer # None
  PROVE  /\ peer = [tx |-> peer.tx, vector |-> peer.vector, expected |-> peer.expected,
                    timer |-> peer.timer, silent |-> peer.silent, ihu |-> peer.ihu,
                    heard |-> peer.heard, jumped |-> peer.jumped]
         /\ peer.tx \in {Nominal, Infinite} /\ peer.timer \in Deadline
         /\ peer.silent \in 0..Hold
         /\ peer.timer.firing => peer.silent = Hold
BY DEF PeerInv, Sound, Neighbour

\* The deadline's timer goes off only after the hold time (Deadline.Reset).
LEMMA PeerTimerStep ==
  ASSUME PeerInv, PeerTimer
  PROVE  /\ PeerInv'
         /\ peer'.timer.token /\ ~ peer.timer.token => peer.silent = Hold
<1> DEFINE t == peer.timer
<1>1. peer # None /\ t \in Deadline /\ peer.silent \in 0..Hold /\ (t.firing => peer.silent = Hold)
  BY PeerFields DEF PeerTimer
<1>2. PICK d : peer' = [peer EXCEPT !.timer = d]
        /\ \/ d = Expires(t) /\ t.firing
           \/ d = StaleEnds(t)
           \/ d = GoesOff(t) /\ peer.silent = Hold
  BY DEF PeerTimer, Callbacks
<1>3. d \in Deadline /\ (d.firing => peer.silent = Hold)
      /\ (d.token => t.token \/ peer.silent = Hold)
  <2> HIDE DEF t
  <2>1. CASE d = Expires(t) /\ t.firing
    <3>1. Expires(t) \in Deadline /\ Expires(t).firing = FALSE
      BY <1>1, TimerTypes
    <3> QED  BY <1>1, <2>1, <3>1
  <2>2. CASE d = StaleEnds(t)
    <3>1. /\ StaleEnds(t) \in Deadline /\ StaleEnds(t).firing = t.firing
          /\ StaleEnds(t).token = t.token
      BY <1>1, TimerTypes
    <3> QED  BY <1>1, <2>2, <3>1
  <2>3. CASE d = GoesOff(t) /\ peer.silent = Hold
    <3>1. GoesOff(t) \in Deadline
      BY <1>1, TimerTypes
    <3> QED  BY <2>3, <3>1
  <2> QED  BY <1>2, <2>1, <2>2, <2>3
<1>4. peer' = [tx |-> peer.tx, vector |-> peer.vector, expected |-> peer.expected,
               timer |-> d, silent |-> peer.silent, ihu |-> peer.ihu,
               heard |-> peer.heard, jumped |-> peer.jumped]
  BY <1>1, <1>2, PeerFields
<1>5. peer'.timer = d
  BY <1>4
<1>6. peer.tx \in {Nominal, Infinite}
  BY <1>1, PeerFields
<1>7. PeerInv'
  BY <1>1, <1>3, <1>4, <1>6, PeerChanges
<1> QED  BY <1>3, <1>5, <1>7

\* The deadline is reported.
LEMMA TimeOutStep ==
  ASSUME PeerInv, TimeOut
  PROVE  PeerInv' /\ peer'.timer.token = FALSE
<1> DEFINE d == [peer.timer EXCEPT !.token = FALSE]
<1>1. /\ peer # None /\ peer.timer \in Deadline /\ peer.silent \in 0..Hold
      /\ (peer.timer.firing => peer.silent = Hold)
  BY PeerFields DEF TimeOut
<1>2. d \in Deadline /\ d.firing = peer.timer.firing /\ d.token = FALSE
  BY <1>1 DEF Deadline
<1>3. peer' = [peer EXCEPT !.timer = d, !.tx = Infinite]
  BY <1>1, PeerFields DEF TimeOut
<1> HIDE DEF d
<1>4. peer' = [tx |-> Infinite, vector |-> peer.vector, expected |-> peer.expected,
               timer |-> d, silent |-> peer.silent, ihu |-> peer.ihu,
               heard |-> peer.heard, jumped |-> peer.jumped]
  BY <1>1, <1>3, PeerFields
<1>5. peer'.timer = d
  BY <1>4
<1>6. PeerInv'
  BY <1>1, <1>2, <1>4, PeerChanges
<1> QED  BY <1>2, <1>5, <1>6

\* Time passes: no timer that has gone off is before the hold time.
LEMMA TickStep ==
  ASSUME PeerInv, Tick
  PROVE  PeerInv' /\ peer'.timer.token = peer.timer.token
<1> DEFINE k == peer.silent + 1
<1>1. /\ peer # None /\ peer.timer \in Deadline /\ peer.tx \in {Nominal, Infinite}
      /\ (peer.timer.firing => peer.silent = Hold)
      /\ peer.silent \in 0..Hold /\ peer.silent < Hold
  BY PeerFields DEF Tick
<1>2. k \in 0..Hold /\ ~ peer.timer.firing
  BY <1>1, BabelLinkAssumption
<1>3. peer' = [peer EXCEPT !.silent = k]
  BY DEF Tick
<1> HIDE DEF k
<1>4. peer' = [tx |-> peer.tx, vector |-> peer.vector, expected |-> peer.expected,
               timer |-> peer.timer, silent |-> k, ihu |-> peer.ihu,
               heard |-> peer.heard, jumped |-> peer.jumped]
  BY <1>1, <1>3, PeerFields
<1>5. peer'.timer = peer.timer
  BY <1>4
<1>6. PeerInv'
  BY <1>1, <1>2, <1>4, PeerChanges
<1> QED  BY <1>5, <1>6

\* The neighbour's deadline is stopped.
LEMMA ClosePeersStep ==
  ASSUME PeerInv, ClosePeers
  PROVE  /\ PeerInv'
         /\ peer # None => peer'.timer.token = peer.timer.token
<1>1. CASE peer = None
  BY <1>1 DEF ClosePeers, PeerInv
<1>2. CASE peer # None
  <2> DEFINE d == Stop(peer.timer)
  <2>1. /\ peer.timer \in Deadline /\ peer.tx \in {Nominal, Infinite}
        /\ peer.silent \in 0..Hold
    BY <1>2, PeerFields
  <2>2. d \in Deadline /\ d.firing = FALSE /\ d.token = peer.timer.token
    BY <2>1, TimerTypes
  <2>3. peer' = [peer EXCEPT !.timer = d]
    BY <1>2 DEF ClosePeers
  <2> HIDE DEF d
  <2>4. peer' = [tx |-> peer.tx, vector |-> peer.vector, expected |-> peer.expected,
                 timer |-> d, silent |-> peer.silent, ihu |-> peer.ihu,
                 heard |-> peer.heard, jumped |-> peer.jumped]
    BY <1>2, <2>3, PeerFields
  <2>5. peer'.timer = d
    BY <2>4
  <2>6. PeerInv'
    BY <1>2, <2>1, <2>2, <2>4, PeerChanges
  <2> QED  BY <2>2, <2>5, <2>6
<1> QED  BY <1>1, <1>2

-----------------------------------------------------------------------------
(* The whole.                                                              *)

LEMMA InitHolds == Init => IInv
<1> SUFFICES ASSUME Init PROVE IInv
  OBVIOUS
<1>1. SenderInv
  <2>1. PICK s \in Starts :
          sender = [queue |-> <<>>, timer |-> NewDeadline, seqno |-> s,
                    dead |-> FALSE, failed |-> FALSE]
    BY DEF Init
  <2>2. s \in Numbers
    BY <2>1, BabelLinkAssumption DEF Numbers
  <2> QED  BY <2>1, <2>2, NoValues, NewTimer DEF SenderInv, NoneStranded
<1>2. NetInv
  BY DEF Init, NetInv
<1>3. PeerInv
  BY NewSound DEF Init, PeerInv
<1>4. LearntInv
  BY DEF Init, LearntInv, Attribution
<1> QED  BY <1>1, <1>2, <1>3, <1>4 DEF IInv

\* What each part of a step does; no step but a timer's makes a deadline expire.
Quiet == peer # None /\ peer'.timer.token /\ ~ peer.timer.token => peer.silent = Hold

LEMMA RemoteStep ==
  ASSUME IInv, Remote
  PROVE  IInv' /\ Quiet
<1>1. UNCHANGED <<peer, learnt>>
  BY DEF Remote, SendHello, SendIHU, SendUpdate, QueueTimer, SendPacket, WriteFails, Restart, Die, local
<1>2. PeerInv' /\ LearntInv' /\ Quiet
  BY <1>1, PartsKept DEF IInv, Quiet
<1>3. CASE SendPacket
  <2>1. SenderInv' /\ NetInv'
    BY <1>3, SendPacketStep DEF IInv
  <2> QED  BY <1>2, <2>1 DEF IInv
<1>4. CASE Remote /\ ~ SendPacket
  <2>1. UNCHANGED net
    BY <1>4 DEF Remote, SendHello, SendIHU, SendUpdate, QueueTimer, WriteFails, Restart, Die
  <2>2. NetInv'
    BY <2>1, PartsKept DEF IInv
  <2>3. SenderInv'
    BY <1>4, SendHelloStep, SendIHUStep, SendUpdateStep, QueueTimerStep, WriteFailsStep,
       RestartStep, DieStep DEF IInv, Remote
  <2> QED  BY <1>2, <2>2, <2>3 DEF IInv
<1> QED  BY <1>3, <1>4

LEMMA NetStep ==
  ASSUME IInv, Lose \/ Duplicate
  PROVE  IInv' /\ Quiet
<1>1. UNCHANGED <<sender, peer, learnt>>
  BY DEF Lose, Duplicate, local
<1>2. SenderInv' /\ PeerInv' /\ LearntInv' /\ Quiet
  BY <1>1, PartsKept DEF IInv, Quiet
<1>3. NetInv'
  BY NetworkStep DEF IInv
<1> QED  BY <1>2, <1>3 DEF IInv

LEMMA SpeakerStep ==
  ASSUME IInv, Speaker
  PROVE  IInv' /\ Quiet
<1>1. UNCHANGED sender
  BY DEF Speaker, Receive, ReaderUpdates, LoopUpdates, CostMoves, PeerTimer, TimeOut, Tick,
         CloseTables, ClosePeers, LoopStops, CloseDone
<1>2. SenderInv'
  BY <1>1, PartsKept DEF IInv
<1>3. CASE Receive
  <2>1. NetInv' /\ PeerInv' /\ LearntInv' /\ Quiet
    BY <1>3, ReceiveStep DEF IInv, Quiet
  <2> QED  BY <1>2, <2>1 DEF IInv
<1>4. ASSUME UNCHANGED <<net, learnt>>, PeerInv', Quiet PROVE IInv' /\ Quiet
  <2>1. NetInv' /\ LearntInv'
    BY <1>4, PartsKept DEF IInv
  <2> QED  BY <1>2, <1>4, <2>1 DEF IInv
<1>5. CASE PeerTimer
  <2>1. PeerInv' /\ Quiet
    BY <1>5, PeerTimerStep DEF IInv, Quiet
  <2> QED  BY <1>4, <1>5, <2>1 DEF PeerTimer
<1>6. CASE TimeOut
  <2>1. PeerInv' /\ Quiet
    BY <1>6, TimeOutStep DEF IInv, Quiet
  <2> QED  BY <1>4, <1>6, <2>1 DEF TimeOut
<1>7. CASE Tick
  <2>1. PeerInv' /\ Quiet
    BY <1>7, TickStep DEF IInv, Quiet
  <2> QED  BY <1>4, <1>7, <2>1 DEF Tick
<1>8. CASE ClosePeers
  <2>1. PeerInv' /\ Quiet
    BY <1>8, ClosePeersStep DEF IInv, Quiet
  <2> QED  BY <1>4, <1>8, <2>1 DEF ClosePeers
<1>9. CASE ReaderUpdates \/ LoopUpdates \/ CostMoves \/ CloseTables \/ LoopStops \/ CloseDone
  <2>1. UNCHANGED <<net, peer, learnt>>
    BY <1>9 DEF ReaderUpdates, LoopUpdates, CostMoves, CloseTables, LoopStops, CloseDone
  <2>2. PeerInv' /\ Quiet
    BY <2>1, PartsKept DEF IInv, Quiet
  <2> QED  BY <1>4, <2>1, <2>2
<1> QED  BY <1>3, <1>5, <1>6, <1>7, <1>8, <1>9 DEF Speaker

LEMMA StepHolds ==
  ASSUME IInv, [Next]_vars
  PROVE  IInv' /\ Quiet
<1>1. CASE Next
  BY <1>1, RemoteStep, NetStep, SpeakerStep DEF Next
<1>2. CASE UNCHANGED vars
  <2>1. UNCHANGED <<sender, net, peer, learnt>>
    BY <1>2 DEF vars, local
  <2> QED  BY <2>1, PartsKept DEF IInv, Quiet
<1> QED  BY <1>1, <1>2

\* The four invariants hold in every state, whatever the network and the remote
\* speaker do (queue.go, proto/parser.go, neighbour.go, history.go, deadline.go).
THEOREM IInvCorrect == Spec => []IInv
<1>1. IInv /\ [Next]_vars => IInv'
  BY StepHolds
<1> QED  BY <1>1, InitHolds, PTL DEF Spec

\* However the updates of several routers are cut into packets, and the packets
\* lost, duplicated and reordered, an update is taken for the router it was sent
\* for, or is ignored (Queue.push, Queue.send, Parser.update).
THEOREM AttributionCorrect == Spec => []Attribution
<1>1. IInv => Attribution
  BY DEF IInv, LearntInv
<1> QED  BY <1>1, IInvCorrect, PTL

\* Unless the write before it failed, what is queued has a timer that is armed,
\* that is going off or that has, whatever its size (Queue.SendIn, Queue.send,
\* Deadline.Reset).
THEOREM NoneStrandedCorrect == Spec => []NoneStranded
<1>1. IInv => NoneStranded
  BY DEF IInv, SenderInv
<1> QED  BY <1>1, IInvCorrect, PTL

\* Every bit of a neighbour's history is a Hello it was sent, over the wrap of
\* the sequence number and whatever was lost, duplicated, late or restarted, but
\* for a Hello half the number space away (HelloHistory.Update).
THEOREM HistoryTruthfulCorrect == Spec => []HistoryTruthful
<1>1. IInv => HistoryTruthful
  BY DEF IInv, PeerInv, Sound, Truthful, HistoryTruthful
<1> QED  BY <1>1, IInvCorrect, PTL

\* A deadline is reported only when it has been missed, however its resets and
\* its callbacks cross (Deadline.Reset, Deadline.Stop).
THEOREM NoEarlyTimeoutCorrect == Spec => NoEarlyTimeout
<1>1. IInv /\ [Next]_vars
        => [peer # None /\ peer'.timer.token /\ ~ peer.timer.token => peer.silent = Hold]_vars
  BY StepHolds DEF Quiet
<1> QED  BY <1>1, IInvCorrect, PTL DEF Spec, NoEarlyTimeout

=============================================================================
