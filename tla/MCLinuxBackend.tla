--------------------------- MODULE MCLinuxBackend ---------------------------
(* What may happen in the behaviours of the runs of LinuxBackend.tla. *)
EXTENDS LinuxBackend

Profile(present, of, w, s, f, v, l, u, c) ==
  [first |-> present,
   uses |-> [babel |-> of = "babel", mptcp |-> of = "mptcp"],
   left |-> [write |-> w, settings |-> s, fail |-> f, vanish |-> v,
             learn |-> l, user |-> u, crash |-> c]]

One == {CHOOSE t \in Tunnels : TRUE}
MCProfiles ==
  {Profile(Tunnels, "babel", 1, 0, 1, 0, 0, 0, 0),
   Profile(Tunnels, "babel", 0, 0, 0, 1, 1, 0, 0),
   Profile(Tunnels, "babel", 0, 0, 0, 0, 2, 0, 0),
   Profile(Tunnels, "babel", 0, 1, 0, 0, 1, 0, 0),
   Profile(One, "babel", 0, 1, 2, 0, 1, 0, 0),
   Profile(One, "babel", 0, 0, 0, 0, 1, 1, 1),
   Profile(One, "babel", 0, 1, 0, 0, 1, 1, 0),
   Profile(One, "mptcp", 1, 0, 1, 0, 0, 1, 0),
   Profile(One, "mptcp", 1, 1, 0, 0, 0, 0, 0),
   Profile(One, "mptcp", 1, 0, 0, 0, 0, 0, 1)}
MCStart == [table |-> 254, policy |-> 0, mptcp |-> TRUE]
MCChoices == {MCStart, [MCStart EXCEPT !.table = 100], [MCStart EXCEPT !.policy = 1],
              [MCStart EXCEPT !.mptcp = FALSE]}
=============================================================================
