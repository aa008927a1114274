--------------------------- MODULE MCTunnelObjects ---------------------------
EXTENDS TunnelObjects, TLC

A == "a"  B == "b"
Base == [imm |-> "1", addr |-> "a1", peers |-> <<>>, route |-> TRUE, ends |-> "1", secret |-> "k1",
         auth |-> "psk", sid |-> "9", url |-> "u"]
Peer(k, ips) == [key |-> k, ips |-> ips]

MCOffers ==
  [link |-> {Base, [Base EXCEPT !.imm = "2", !.addr = "a2"]},
   wg   |-> {[Base EXCEPT !.peers = <<Peer("p", {<<"v4", "0">>, <<"v6", "1">>}), Peer("q", {<<"v4", "2">>})>>],
             [Base EXCEPT !.peers = <<Peer("q", {<<"v4", "0">>}), Peer("p", {<<"v4", "2">>})>>],
             [Base EXCEPT !.peers = <<Peer("p", {<<"v4", "0">>}), Peer("q", {<<"v4", "0">>})>>, !.route = FALSE]},
   xfrm |-> {Base, [Base EXCEPT !.secret = "k2"], [Base EXCEPT !.ends = "2"]},
   ike  |-> {Base, [Base EXCEPT !.auth = "rpk"], [Base EXCEPT !.auth = "rpk", !.secret = "k2"]},
   srv6 |-> {Base, [Base EXCEPT !.sid = "8"]}]
MCFeeds == {{<<"v4", "1">>}, {<<"v6", "1">>, <<"v6", "2">>}, {}}
MCUrls == {"u"}

One(k, write, fail, vanish, user, feed, crash) ==
  [kind |-> (A :> k @@ B :> None), on |-> {A},
   left |-> [write |-> write, fail |-> fail, vanish |-> vanish, user |-> user, feed |-> feed, crash |-> crash]]
Two(write) ==
  [One("ike", write, 0, 0, 0, 0, 0) EXCEPT !.kind = (A :> "ike" @@ B :> "ike"), !.on = {A, B}]

MCProfiles ==
  {One(k, 1, 1, 0, 0, 0, 0) : k \in Kinds} \cup {One(k, 0, 1, 1, 0, 0, 0) : k \in Kinds \ {"wg"}}
  \cup {One(k, 1, 0, 0, 0, 0, 1) : k \in Kinds} \cup {One(k, 1, 0, 0, 1, 0, 0) : k \in {"link", "wg", "srv6"}}
  \cup {One(k, 1, 0, 1, 0, 0, 0) : k \in Kinds} \cup {One("srv6", 1, 0, 0, 0, 1, 0), One("srv6", 0, 0, 0, 1, 1, 0), Two(1)}
=============================================================================
