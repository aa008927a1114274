------------------------------ MODULE BabelLink ------------------------------
(***************************************************************************)
(* One direction of a Babel adjacency: a remote speaker queues TLV values, *)
(* its send queue packs them into packets (babel/internal/queue), the      *)
(* local speaker decodes them (babel/proto), keeps the neighbour's Hello   *)
(* history (internal/history) and its IHU deadline (internal/deadline),    *)
(* derives the cost of the link from both (neighbour.go, cost.go), and is  *)
(* closed some time (speaker.go, interface.go).                            *)
(*                                                                         *)
(* Abstracted: a value is what its TLV says and takes one unit of a        *)
(* packet; costs are Nominal and Infinite; time is counted in intervals of *)
(* the remote's IHUs.  Routes are BabelRouting.tla's: here an update says  *)
(* only which router's prefix it is.                                       *)
(***************************************************************************)
EXTENDS Integers, FiniteSets, SequencesExt

CONSTANTS
  Dests, Routers,
  Starts,       \* sequence numbers that the remote may start at
  Capacity,     \* values that fit in a packet (its MTU)
  Hold,         \* intervals for which an IHU holds
  MaxQueue,     \* bound: values queued
  MaxNet,       \* bound: packets in flight
  Budgets,      \* bounds: how often what may happen in a behaviour
  None          \* absent neighbour, or router-id

SeqSpace == 65536   \* sequence numbers are uint16
Window == 16      \* and so is the history vector
Nominal == 1
Infinite == 2

\* Hellos, IHUs and updates queued; packets lost or duplicated and writes that
\* fail; restarts of the remote; moves of the estimated delay; Speaker.Close.
Counted == {"hello", "ihu", "update", "loss", "restart", "move", "close"}

ASSUME BabelLinkAssumption ==
  /\ Starts \subseteq 0..SeqSpace - 1
  /\ Capacity \in Nat \ {0} /\ Hold \in Nat \ {0}
  /\ MaxQueue \in Nat /\ MaxNet \in Nat
  /\ Budgets \subseteq [Counted -> Nat]
  /\ None \notin Routers

VARIABLES
  sender,    \* the remote: its queue, the queue's timer, its Hello seqno
  net,       \* packets in flight
  peer,      \* the Neighbour the local speaker keeps for it, or None
  learnt,    \* learnt[p]: the router-id of the last update for p, or None
  loop,      \* Neighbour.runTimers of that neighbour
  reader,    \* Speaker.runReadLoop
  closer,    \* Speaker.Close
  left       \* what is left of the budget

local == <<peer, learnt, loop, reader, closer>>
vars == <<sender, net, local, left>>

Spend(what) == left[what] > 0 /\ left' = [left EXCEPT ![what] = @ - 1]

-----------------------------------------------------------------------------
(* A Deadline.  "firing" is the callback of a timer that has gone off and  *)
(* waits for the mutex; "stale" is one whose timer was reset meanwhile.    *)

Deadline == [armed : BOOLEAN, firing : BOOLEAN, stale : BOOLEAN, token : BOOLEAN]
NewDeadline == [armed |-> FALSE, firing |-> FALSE, stale |-> FALSE, token |-> FALSE]

\* The next generation begins; a token that waits in the channel stays.
Reset(d) == [d EXCEPT !.armed = TRUE, !.firing = FALSE, !.stale = @ \/ d.firing]
Stop(d) == [d EXCEPT !.armed = FALSE, !.firing = FALSE, !.stale = @ \/ d.firing]

GoesOff(d) == [d EXCEPT !.armed = FALSE, !.firing = TRUE]
Expires(d) == [d EXCEPT !.firing = FALSE, !.token = TRUE]

\* Fault: the callback does not compare its generation.
StaleFires(d) == [d EXCEPT !.stale = FALSE, !.token = TRUE]
StaleEnds(d) == [d EXCEPT !.stale = FALSE]

Callbacks(d) ==
  {e \in {Expires(d)} : d.firing} \cup {e \in {StaleEnds(d)} : d.stale}
Waiting(d) == d.armed \/ d.firing \/ d.token

-----------------------------------------------------------------------------
(* Values, and the packets they travel in.                                 *)

Hello(s) == [type |-> "hello", seqno |-> s]
IHU(c) == [type |-> "ihu", cost |-> c]
RouterID(r) == [type |-> "router", id |-> r]
NextHop == [type |-> "hop"]
Update(p, r) == [type |-> "update", prefix |-> p, of |-> r]   \* "of" is not on the wire

\* encodeRoutes, of an interface with and without an address, and
\* encodeRetraction, which sends no next hop.
Encodings(p, r) ==
  {<<RouterID(r), NextHop, Update(p, r)>>, <<RouterID(r), Update(p, r)>>}

\* Fault: values are queued one by one, and those of two senders mix.
QueuedOneByOne(q, vs) ==
  IF q = <<>> THEN vs ELSE Front(q) \o vs \o <<Last(q)>>

\* Queue.push: all of them under one lock.
Queued(q, vs) == q \o vs

Least(a, b) == IF a < b THEN a ELSE b

\* Queue.send takes values while the next one fits.
Packed(q) == SubSeq(q, 1, Least(Capacity, Len(q)))
Left(q) == SubSeq(q, Least(Capacity, Len(q)) + 1, Len(q))

\* Parser.update: the router-id is the last one of the packet, whose decoder
\* starts without any.
CurrentRouterID(pkt, i) ==
  LET before == {j \in 1..i : pkt[j].type = "router"} IN
  IF before = {} THEN None ELSE pkt[Max(before)].id

Decoded(pkt) ==
  {[prefix |-> pkt[i].prefix, id |-> CurrentRouterID(pkt, i), of |-> pkt[i].of] :
     i \in {j \in DOMAIN pkt : pkt[j].type = "update"}}

-----------------------------------------------------------------------------
(* The Hello history: bit i of the vector stands for the Hello i+1 before  *)
(* the expected one.                                                       *)

Signed(x) == LET y == x % SeqSpace IN IF y >= SeqSpace \div 2 THEN y - SeqSpace ELSE y
SeqnoLess(a, b) == Signed(b - a) > 0
SeqnoAbsDistance(a, b) == LET d == Signed(b - a) IN IF d > 0 THEN d ELSE Signed(-d)

ShiftLeft(v, n) == {i + n : i \in v} \cap 0..Window - 1
ShiftRight(v, n) == {i - n : i \in v} \cap 0..Window - 1

\* Fault: a Hello that arrives late moves the history as one that was missed.
AlignedOneWay(v, expected, s) ==
  IF SeqnoAbsDistance(s, expected) > 16 THEN {}
  ELSE ShiftLeft(v, SeqnoAbsDistance(s, expected))

\* HelloHistory.Update.
Aligned(v, expected, s) ==
  IF SeqnoAbsDistance(s, expected) > 16 THEN {}
  ELSE IF SeqnoLess(s, expected) THEN ShiftRight(v, (expected - s) % SeqSpace)
  ELSE IF SeqnoLess(expected, s) THEN ShiftLeft(v, (s - expected) % SeqSpace)
  ELSE v
History(n, s) ==
  [n EXCEPT !.vector = ShiftLeft(Aligned(n.vector, n.expected, s), 1) \cup {0},
            !.expected = (s + 1) % SeqSpace,
            !.heard = @ \cup {s},
            !.jumped = @ \/ (s - n.expected) % SeqSpace = SeqSpace \div 2]

OutOf(k, j, v) == Cardinality(v \cap 0..j - 1) >= k

\* defaultRxCost and defaultCombine.
RxCost(n) == IF OutOf(2, 3, n.vector) THEN Nominal ELSE Infinite
Cost(n) == IF RxCost(n) = Infinite THEN Infinite ELSE n.tx

-----------------------------------------------------------------------------
(* The neighbour.  "heard", "jumped" and "ihu" are history, for the        *)
(* properties: Hellos received, a Hello half the number space away, an IHU *)
(* received; "silent" counts intervals since the last IHU.                 *)

Neighbour ==
  [tx : {Nominal, Infinite}, vector : SUBSET (0..Window - 1), expected : 0..SeqSpace - 1,
   timer : Deadline, silent : 0..Hold, ihu : BOOLEAN,
   heard : SUBSET (0..SeqSpace - 1), jumped : BOOLEAN]

NewNeighbour ==
  [tx |-> Nominal, vector |-> {}, expected |-> 0, timer |-> NewDeadline, silent |-> 0,
   ihu |-> FALSE, heard |-> {}, jumped |-> FALSE]

\* Fault: only an IHU with another cost renews the deadline.
HeardChanged(n, c) ==
  [n EXCEPT !.timer = IF n.tx = c THEN @ ELSE Reset(@), !.tx = c, !.silent = 0, !.ihu = TRUE]

\* onIHU.
Heard(n, c) ==
  [n EXCEPT !.timer = Reset(@), !.tx = c, !.silent = 0, !.ihu = TRUE]

\* onPacket: one value after the other.
Handled(n, v) ==
  CASE v.type = "hello" -> History(n, v.seqno)
    [] v.type = "ihu" -> Heard(n, v.cost)
    [] v.type \in {"router", "hop", "update"} -> n
HandledAll(n, pkt) ==
  LET after[i \in 0..Len(pkt)] == IF i = 0 THEN n ELSE Handled(after[i-1], pkt[i])
  IN after[Len(pkt)]

-----------------------------------------------------------------------------
(* The remote.                                                             *)

Push(vs) ==
  /\ ~ sender.dead
  /\ Len(sender.queue) + Len(vs) <= MaxQueue
  /\ sender' = [sender EXCEPT !.queue = Queued(@, vs), !.timer = Reset(@), !.failed = FALSE]

\* sendMulticastHello, sendUnicastHello.
SendHello ==
  LET s == (sender.seqno + 1) % SeqSpace IN
  /\ Spend("hello")
  /\ ~ sender.dead /\ Len(sender.queue) < MaxQueue
  /\ sender' = [sender EXCEPT !.queue = Queued(@, <<Hello(s)>>), !.timer = Reset(@),
                              !.failed = FALSE, !.seqno = s]
  /\ UNCHANGED <<net, local>>

\* sendIHU: what the remote hears of us is its own affair.
SendIHU ==
  /\ Spend("ihu")
  /\ \E c \in {Nominal, Infinite} : Push(<<IHU(c)>>)
  /\ UNCHANGED <<net, local>>

SendUpdate ==
  /\ Spend("update")
  /\ \E p \in Dests, r \in Routers : \E vs \in Encodings(p, r) : Push(vs)
  /\ UNCHANGED <<net, local>>

QueueTimer ==
  /\ \E d \in Callbacks(sender.timer) \cup
              {e \in {GoesOff(sender.timer)} : sender.timer.armed} :
       sender' = [sender EXCEPT !.timer = d]
  /\ UNCHANGED <<net, local, left>>

\* Faults: what did not fit waits for the next value; a packet's values are
\* taken although it cannot be written, and the next packet is scheduled.
RescheduledNever(s) == s

\* The rest is paced.
Rescheduled(s) == IF s.queue = <<>> THEN s ELSE [s EXCEPT !.timer = Reset(@)]

Taken == [sender EXCEPT !.queue = Left(@), !.timer.token = FALSE]

SendPacket ==
  /\ sender.timer.token /\ ~ sender.dead
  /\ Len(net) < MaxNet
  /\ net' = Append(net, Packed(sender.queue))
  /\ sender' = Rescheduled(Taken)
  /\ UNCHANGED <<local, left>>

\* Both attempts of PacketConnWriter fail: the values are gone, and send
\* returns before it schedules the rest.
WriteFails ==
  /\ sender.timer.token /\ ~ sender.dead
  /\ Spend("loss")
  /\ sender' = [Taken EXCEPT !.failed = TRUE]
  /\ UNCHANGED <<net, local>>

\* Its engine rebuilds its speaker: the sequence numbers start again.
Restart ==
  /\ Spend("restart")
  /\ ~ sender.dead
  /\ sender' = [queue |-> <<>>, timer |-> NewDeadline, seqno |-> 0, dead |-> FALSE, failed |-> FALSE]
  /\ UNCHANGED <<net, local>>

Die ==
  /\ sender' = [sender EXCEPT !.dead = TRUE]
  /\ UNCHANGED <<net, local, left>>

-----------------------------------------------------------------------------
(* The network delivers in any order, loses and duplicates.                *)

Lose ==
  /\ Spend("loss")
  /\ \E i \in DOMAIN net : net' = RemoveAt(net, i)
  /\ UNCHANGED <<sender, local>>

Duplicate ==
  /\ Spend("loss")
  /\ Len(net) < MaxNet
  /\ \E i \in DOMAIN net : net' = Append(net, net[i])
  /\ UNCHANGED <<sender, local>>

-----------------------------------------------------------------------------
(* The local speaker.                                                      *)

\* onIHU sets the cost, and computeRTT a sample of the delay that it depends on.
MayMoveCost(pkt) == \E i \in DOMAIN pkt : pkt[i].type = "ihu"

\* onPacket of the speaker, the interface and the neighbour.  A change of the
\* link's cost, or of a route, may change the selection, whose updates the
\* read loop sends before it reads on.
Receive ==
  /\ reader = "reading" /\ closer # "closed"
  /\ \E i \in DOMAIN net :
       LET pkt == net[i]
           known == IF peer = None THEN NewNeighbour ELSE peer
           routed == {u \in Decoded(pkt) : u.id # None} IN
       /\ net' = RemoveAt(net, i)
       /\ peer' = HandledAll(known, pkt)
       /\ learnt' = [p \in Dests |->
            IF \E u \in routed : u.prefix = p THEN CHOOSE u \in routed : u.prefix = p
            ELSE learnt[p]]
       /\ \/ reader' = "reading"
          \/ MayMoveCost(pkt) /\ reader' = "updating"
          \/ routed # {} /\ reader' = "updating"
  /\ loop' = IF peer = None THEN "idle" ELSE loop
  /\ UNCHANGED <<sender, closer, left>>

\* sendTriggeredUpdates walks the interfaces and their neighbours, each table
\* under its mutex, which Close holds all the while it walks them.
ReaderUpdates ==
  /\ reader = "updating" /\ closer \in {"open", "closed"}
  /\ reader' = "reading"
  /\ UNCHANGED <<sender, net, peer, learnt, loop, closer, left>>

LoopUpdates ==
  /\ loop = "updating" /\ closer \in {"open", "closed"}
  /\ loop' = "idle"
  /\ UNCHANGED <<sender, net, peer, learnt, reader, closer, left>>

\* The delay probe's tick: the estimated delay has moved, and the selection.
CostMoves ==
  /\ loop = "idle" /\ Spend("move")
  /\ loop' = "updating"
  /\ UNCHANGED <<sender, net, peer, learnt, reader, closer>>

PeerTimer ==
  /\ peer # None
  /\ \E d \in Callbacks(peer.timer) \cup
              {e \in {GoesOff(peer.timer)} : peer.timer.armed /\ peer.silent = Hold} :
       peer' = [peer EXCEPT !.timer = d]
  /\ UNCHANGED <<sender, net, learnt, loop, reader, closer, left>>

\* "IHU deadline missed"; the selection may change.
TimeOut ==
  /\ loop = "idle" /\ peer # None /\ peer.timer.token
  /\ peer' = [peer EXCEPT !.timer.token = FALSE, !.tx = Infinite]
  /\ loop' \in {"idle", "updating"}
  /\ UNCHANGED <<sender, net, learnt, reader, closer, left>>

Tick ==
  /\ peer # None /\ peer.silent < Hold
  /\ peer' = [peer EXCEPT !.silent = @ + 1]
  /\ UNCHANGED <<sender, net, learnt, loop, reader, closer, left>>

-----------------------------------------------------------------------------
(* Speaker.Close, Interface.Close and Neighbour.Close.                     *)

CloseTables ==
  /\ closer = "open" /\ Spend("close")
  /\ closer' = "tables"
  /\ UNCHANGED <<sender, net, peer, learnt, loop, reader>>

\* The neighbour is told to stop, and waited for.
ClosePeers ==
  /\ closer = "tables"
  /\ closer' = "peers"
  /\ peer' = IF peer = None THEN None ELSE [peer EXCEPT !.timer = Stop(@)]
  /\ UNCHANGED <<sender, net, learnt, loop, reader, left>>

LoopStops ==
  /\ loop = "idle" /\ closer = "peers"
  /\ loop' = "stopped"
  /\ UNCHANGED <<sender, net, peer, learnt, reader, closer, left>>

\* Everything is stopped, and the sockets are closed.
CloseDone ==
  /\ closer = "peers" /\ loop \in {"none", "stopped"}
  /\ closer' = "closed"
  /\ UNCHANGED <<sender, net, peer, learnt, loop, reader, left>>

-----------------------------------------------------------------------------
\* A neighbour is configured, or found by its first packet.
Init ==
  /\ \E s \in Starts :
       sender = [queue |-> <<>>, timer |-> NewDeadline, seqno |-> s, dead |-> FALSE, failed |-> FALSE]
  /\ net = <<>>
  /\ \/ peer = None /\ loop = "none"
     \/ peer = NewNeighbour /\ loop = "idle"
  /\ learnt = [p \in Dests |-> None]
  /\ reader = "reading" /\ closer = "open"
  /\ left \in Budgets

Remote ==
  \/ SendHello \/ SendIHU \/ SendUpdate
  \/ QueueTimer \/ SendPacket \/ WriteFails \/ Restart \/ Die

Speaker ==
  \/ Receive \/ ReaderUpdates \/ LoopUpdates \/ CostMoves
  \/ PeerTimer \/ TimeOut \/ Tick
  \/ CloseTables \/ ClosePeers \/ LoopStops \/ CloseDone

Next == Remote \/ Lose \/ Duplicate \/ Speaker

Spec == Init /\ [][Next]_vars

\* What was delivered is read, timers run, goroutines go on, time passes; a
\* select takes each of its ready cases some time; nobody has to close.
Fairness ==
  /\ WF_vars(QueueTimer) /\ WF_vars(SendPacket)
  /\ WF_vars(Receive) /\ WF_vars(ReaderUpdates) /\ WF_vars(LoopUpdates)
  /\ WF_vars(PeerTimer) /\ SF_vars(TimeOut) /\ WF_vars(Tick)
  /\ WF_vars(ClosePeers) /\ SF_vars(LoopStops) /\ WF_vars(CloseDone)

FairSpec == Spec /\ Fairness

-----------------------------------------------------------------------------
(* Safety.                                                                 *)

\* A bit of the history stands for a Hello that was received: losses,
\* duplicates, reordering, restarts and the wrap of the sequence number never
\* make a link look better than it was.  A Hello at exactly half the number
\* space is excepted, whose distance overflows (HelloHistory.Update).
HistoryTruthful ==
  peer # None /\ ~ peer.jumped =>
    \A i \in peer.vector : (peer.expected - 1 - i) % SeqSpace \in peer.heard

\* However updates are cut into packets, and packets lost, duplicated or
\* reordered, an update is taken for the router it was sent for, or ignored
\* (Queue.push, Queue.send, Parser.update).
Attribution ==
  \A p \in Dests : learnt[p] # None => learnt[p].id = learnt[p].of

\* What is queued has a timer that will send it, unless the write before it
\* failed (Queue.SendIn, Queue.send, Deadline.Reset).
NoneStranded ==
  sender.queue # <<>> /\ ~ sender.failed => Waiting(sender.timer)

\* A deadline reports its expiry only after a whole hold time without IHU,
\* also when it is reset while its callback is under way (Deadline.Reset).
NoEarlyTimeout ==
  [][peer # None /\ peer'.timer.token /\ ~ peer.timer.token => peer.silent = Hold]_vars

-----------------------------------------------------------------------------
(* Liveness.                                                               *)

\* A link that goes silent after an IHU is given up, and stays so: no packet,
\* and no reset that raced the deadline, leaves it at a finite cost for ever.
DeadLinkNoticed ==
  <>[](sender.dead /\ closer = "open" /\ peer # None /\ peer.ihu => Cost(peer) = Infinite)

\* Close stops the neighbours and returns (Neighbour.Close).
CloseFinishes == (closer = "tables") ~> (closer = "closed")
=============================================================================
