------------------------------- MODULE EventHub -------------------------------
(***************************************************************************)
(* The event stream: core.EventHub (internal/core/events.go), the streaming *)
(* handler of internal/control/server.go and the client that reconnects    *)
(* with the last sequence it saw (control/client.go, app/watch.go).        *)
(*                                                                         *)
(* The hub keeps the last Capacity events and a bounded channel for each   *)
(* subscriber.  It never waits for a subscriber: one whose channel is full *)
(* is closed and has to come back and replay.  The history is in memory,   *)
(* so that a restarted daemon counts its events from one again.            *)
(*                                                                         *)
(* Abstracted: an item of the stream is its sequence number.  Heartbeats,  *)
(* which carry the sequence 0 and change nothing at the client, are left   *)
(* out.                                                                    *)
(***************************************************************************)
EXTENDS Integers, Sequences, SequencesExt

CONSTANTS
  Watchers,     \* clients of the event stream
  Capacity,     \* capacity of the hub's history
  Buffer,       \* capacity of a subscriber's channel
  Wire,         \* bound: items between the handler and the client's loop
  MaxSeq,       \* bound: events published in one life of the daemon
  MaxBreak,     \* bound: connections that break
  MaxRestart    \* bound: restarts of the daemon

ASSUME EventHubAssumption ==
  /\ Capacity \in Nat \ {0} /\ Buffer \in Nat \ {0} /\ Wire \in Nat \ {0}
  /\ MaxSeq \in Nat /\ MaxBreak \in Nat /\ MaxRestart \in Nat

VARIABLES
  next,      \* EventHub.next
  history,   \* EventHub.history
  subs,      \* EventHub.subscribers
  chan,      \* chan[w]: the subscriber's channel
  closed,    \* closed[w]: the hub closed that channel
  conn,      \* conn[w]: the handler is serving w
  pend,      \* pend[w]: what the handler writes before it turns to the channel
  wire,      \* wire[w]: written, not yet read by the client's loop
  after,     \* after[w]: the sequence the client reconnects with
  known,     \* known[w]: events of this daemon the client received, or whose
             \* effect it saw in a snapshot it loaded (history variable)
  begun,     \* clients that have subscribed before (history)
  lost,      \* lost[w]: events that went by between two subscriptions of w
             \* from 0 and of which the hub reports no gap (history)
  got,       \* got[w]: the events of this daemon received, in order (history)
  owed,      \* owed[w]: the client read a gap and has not reloaded yet
  stale,     \* clients whose sequence an earlier daemon handed out (history)
  breaks, restarts   \* what is left of the bounds

hub == <<next, history, subs, chan, closed>>
stream == <<conn, pend, wire>>
ghosts == <<known, begun, lost, got>>
client == <<after, ghosts, owed, stale>>
hubVars == <<hub, stream, client, breaks, restarts>>

-----------------------------------------------------------------------------
(* The hub.                                                                *)

\* The item every stream begins with, as it is and when it reports a gap.
Connected == 0
ConnectedGap == -1

Trim(s) == IF Len(s) > Capacity THEN SubSeq(s, Len(s) - Capacity + 1, Len(s)) ELSE s

Oldest == IF history = <<>> THEN next + 1 ELSE history[1]

Replay(a) ==
  LET later[i \in 0..Len(history)] ==
        IF i = 0 THEN <<>>
        ELSE IF history[i] > a THEN Append(later[i - 1], history[i]) ELSE later[i - 1]
  IN later[Len(history)]

Gap(a) == a # 0 /\ Oldest > 1 /\ a < Oldest - 1

Full(w) == Len(chan[w]) >= Buffer

\* Faults: an event is dropped for a slow subscriber; a slow subscriber is
\* forgotten, its channel never closed.
PublishDropping ==
  /\ next < MaxSeq
  /\ next' = next + 1
  /\ history' = Trim(Append(history, next'))
  /\ chan' = [w \in Watchers |-> IF w \in subs /\ ~ Full(w) THEN Append(chan[w], next') ELSE chan[w]]
  /\ UNCHANGED <<subs, closed, stream, client, breaks, restarts>>

PublishForgetting ==
  /\ next < MaxSeq
  /\ next' = next + 1
  /\ history' = Trim(Append(history, next'))
  /\ chan' = [w \in Watchers |-> IF w \in subs /\ ~ Full(w) THEN Append(chan[w], next') ELSE chan[w]]
  /\ subs' = {w \in subs : ~ Full(w)}
  /\ UNCHANGED <<closed, stream, client, breaks, restarts>>

Publish ==
  /\ next < MaxSeq
  /\ next' = next + 1
  /\ history' = Trim(Append(history, next'))
  /\ chan' = [w \in Watchers |-> IF w \in subs /\ ~ Full(w) THEN Append(chan[w], next') ELSE chan[w]]
  /\ closed' = [w \in Watchers |-> closed[w] \/ (w \in subs /\ Full(w))]
  /\ subs' = {w \in subs : ~ Full(w)}
  /\ UNCHANGED <<stream, client, breaks, restarts>>

-----------------------------------------------------------------------------
(* The stream of one client.                                               *)

\* The client's request and the handler up to its first write: SubscribeEvents,
\* the connected item, then the replay.  A client that asks for the first time
\* starts with what is retained; what is older than that it does not miss.  One
\* whose first connection was lost before an event arrived asks from 0 again (the
\* connected item has no sequence), and Gap is never reported to it: what the
\* history dropped meanwhile is lost, and it does not learn of that.
Subscribe(w) ==
  /\ ~ conn[w]
  /\ conn' = [conn EXCEPT ![w] = TRUE]
  /\ subs' = subs \cup {w}
  /\ chan' = [chan EXCEPT ![w] = <<>>]
  /\ closed' = [closed EXCEPT ![w] = FALSE]
  /\ pend' = [pend EXCEPT ![w] =
                <<IF Gap(after[w]) THEN ConnectedGap ELSE Connected>> \o Replay(after[w])]
  /\ wire' = [wire EXCEPT ![w] = <<>>]
  /\ begun' = begun \cup {w}
  /\ known' = [known EXCEPT ![w] =
                 IF after[w] = 0 /\ w \notin begun THEN @ \cup 1..(Oldest - 1) ELSE @]
  /\ lost' = [lost EXCEPT ![w] =
                IF after[w] = 0 /\ w \in begun THEN @ \cup (1..(Oldest - 1) \ known[w]) ELSE @]
  /\ UNCHANGED <<next, history, after, got, owed, stale, breaks, restarts>>

WritePending(w) ==
  /\ conn[w] /\ pend[w] # <<>> /\ Len(wire[w]) < Wire
  /\ wire' = [wire EXCEPT ![w] = Append(@, Head(pend[w]))]
  /\ pend' = [pend EXCEPT ![w] = Tail(@)]
  /\ UNCHANGED <<hub, conn, client, breaks, restarts>>

WriteLive(w) ==
  /\ conn[w] /\ pend[w] = <<>> /\ chan[w] # <<>> /\ Len(wire[w]) < Wire
  /\ wire' = [wire EXCEPT ![w] = Append(@, Head(chan[w]))]
  /\ chan' = [chan EXCEPT ![w] = Tail(@)]
  /\ UNCHANGED <<next, history, subs, closed, conn, pend, client, breaks, restarts>>

\* The handler has drained a closed channel and returns.  The client's loop
\* selects between items and the error of the ended stream, so it may take the
\* error while items are left.
StreamEnds(w) ==
  /\ conn[w] /\ closed[w]
  /\ pend[w] = <<>> /\ chan[w] = <<>>
  /\ conn' = [conn EXCEPT ![w] = FALSE]
  /\ wire' = [wire EXCEPT ![w] = <<>>]
  /\ UNCHANGED <<hub, pend, client, breaks, restarts>>

\* The connection breaks with items in flight; the handler cancels its
\* subscription, which does not close the channel.
StreamBreaks(w) ==
  /\ conn[w] /\ breaks > 0
  /\ breaks' = breaks - 1
  /\ conn' = [conn EXCEPT ![w] = FALSE]
  /\ subs' = subs \ {w}
  /\ chan' = [chan EXCEPT ![w] = <<>>]
  /\ pend' = [pend EXCEPT ![w] = <<>>]
  /\ wire' = [wire EXCEPT ![w] = <<>>]
  /\ UNCHANGED <<next, history, closed, client, restarts>>

\* The client's loop takes an item.
Receive(w) ==
  LET item == Head(wire[w]) IN
  /\ conn[w] /\ wire[w] # <<>>
  /\ wire' = [wire EXCEPT ![w] = Tail(@)]
  /\ IF item <= Connected
       THEN /\ owed' = [owed EXCEPT ![w] = @ \/ item = ConnectedGap]
            /\ UNCHANGED <<after, known, got>>
       ELSE /\ after' = [after EXCEPT ![w] = IF item > @ THEN item ELSE @]
            /\ known' = [known EXCEPT ![w] = @ \cup {item}]
            /\ got' = [got EXCEPT ![w] = Append(@, item)]
            /\ UNCHANGED owed
  /\ UNCHANGED <<hub, conn, pend, begun, lost, stale, breaks, restarts>>

\* A client that read a gap loads a full snapshot (dashboard.go, listViews), which
\* has the effect of every event so far.
Reload(w) ==
  /\ owed[w]
  /\ known' = [known EXCEPT ![w] = 1..next]
  /\ lost' = [lost EXCEPT ![w] = {}]
  /\ owed' = [owed EXCEPT ![w] = FALSE]
  /\ UNCHANGED <<hub, stream, after, begun, got, stale, breaks, restarts>>

\* The daemon restarts: hub and connections are gone, the client is not.
Restart ==
  /\ restarts > 0
  /\ restarts' = restarts - 1
  /\ next' = 0 /\ history' = <<>> /\ subs' = {}
  /\ chan' = [w \in Watchers |-> <<>>]
  /\ closed' = [w \in Watchers |-> FALSE]
  /\ conn' = [w \in Watchers |-> FALSE]
  /\ pend' = [w \in Watchers |-> <<>>]
  /\ wire' = [w \in Watchers |-> <<>>]
  /\ known' = [w \in Watchers |-> {}]
  /\ lost' = [w \in Watchers |-> {}]
  /\ got' = [w \in Watchers |-> <<>>]
  /\ stale' = {w \in Watchers : after[w] # 0}
  /\ UNCHANGED <<after, begun, owed, breaks>>

-----------------------------------------------------------------------------
HubInit ==
  /\ next = 0 /\ history = <<>> /\ subs = {}
  /\ chan = [w \in Watchers |-> <<>>]
  /\ closed = [w \in Watchers |-> FALSE]
  /\ conn = [w \in Watchers |-> FALSE]
  /\ pend = [w \in Watchers |-> <<>>]
  /\ wire = [w \in Watchers |-> <<>>]
  /\ after = [w \in Watchers |-> 0]
  /\ known = [w \in Watchers |-> {}]
  /\ begun = {}
  /\ lost = [w \in Watchers |-> {}]
  /\ got = [w \in Watchers |-> <<>>]
  /\ owed = [w \in Watchers |-> FALSE]
  /\ stale = {}
  /\ breaks = MaxBreak /\ restarts = MaxRestart

Handler(w) == WritePending(w) \/ WriteLive(w) \/ StreamEnds(w)
Loop(w) == Subscribe(w) \/ Receive(w) \/ Reload(w)

HubNext ==
  \/ Publish \/ Restart
  \/ \E w \in Watchers : Handler(w) \/ Loop(w) \/ StreamBreaks(w)

HubSpec == HubInit /\ [][HubNext]_hubVars

\* The handler and the client's loop do not stop: the write deadline of the
\* stream is lifted, heartbeats keep it alive, and the client reconnects after
\* a second for as long as it runs.
Fairness ==
  \A w \in Watchers : WF_hubVars(Handler(w)) /\ WF_hubVars(Subscribe(w) \/ Receive(w)) /\ WF_hubVars(Reload(w))

FairSpec == HubSpec /\ Fairness

-----------------------------------------------------------------------------
(* Properties.                                                             *)

\* What is still on its way to the client.
InFlight(w) == wire[w] \o pend[w] \o chan[w]

\* Nothing the client missed so far is unaccounted for on this connection.
Accounted(w) ==
  \/ owed[w] \/ ConnectedGap \in ToSet(InFlight(w))
  \/ 1..next \subseteq known[w] \cup lost[w] \cup ToSet(InFlight(w))

\* A client that lost its connection, or was too slow and was thrown out, gets
\* every event it missed when it comes back to the same daemon with the sequence
\* it had reached, or is told of the gap.  Two exceptions are the code's: a client
\* that lost its connection before its first event (lost), and one whose sequence
\* is of an earlier daemon (stale).
NoSilentLoss ==
  \A w \in subs \ stale : conn[w] => Accounted(w)

\* Replay and live events join without overlap or reordering, also across
\* connections: what a client received from a daemon and what is still coming
\* is strictly increasing (the Sequence > after of Subscribe, under the mutex).
InOrder ==
  \A w \in Watchers : conn[w] =>
    LET s == got[w] \o InFlight(w) IN
    \A i, j \in 1..Len(s) : i < j /\ s[i] > Connected /\ s[j] > Connected => s[i] < s[j]

\* Every subscriber is served all of it, and in order.
Delivered == NoSilentLoss /\ InOrder

\* Once publishing and failures stop, every client reaches the last event.
CatchUp == <>[](\A w \in Watchers \ stale : after[w] = next /\ ~ owed[w])
=============================================================================
