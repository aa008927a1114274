------------------------------ MODULE MCDaemon ------------------------------
(* Records found, and what may happen, in the runs of Daemon.tla. *)
EXTENDS Daemon

Plain(schema, name, prefixed) ==
  [schema |-> schema, srv6 |-> FALSE, name |-> [base |-> name, prefixed |-> prefixed],
   priority |-> 0, src |-> <<>>]
SRv6(schema, name, priority, src) ==
  [schema |-> schema, srv6 |-> TRUE, name |-> [base |-> name, prefixed |-> FALSE],
   priority |-> priority, src |-> src]
Profile(rs, start, stop, kill, fail, update, edit) ==
  [found |-> rs, left |-> [start |-> start, stop |-> stop, kill |-> kill, fail |-> fail,
                           update |-> update, edit |-> edit]]

MCProfiles ==
  {Profile(<<SRv6(3, "x", 0, <<1, 2, 2>>), SRv6(4, "y", 1, <<1>>), SRv6(2, "z", 0, <<1, 1>>),
             SRv6(4, "u", 7, <<1>>)>>, 2, 0, 1, 1, 0, 0),
   Profile(<<Plain(3, "x", FALSE), Plain(4, "x", TRUE)>>, 1, 0, 0, 1, 0, 0),
   Profile(<<Plain(3, "x", FALSE), Plain(5, "y", TRUE)>>, 1, 0, 0, 1, 0, 0),
   Profile(<<Plain(2, "x", FALSE), SRv6(4, "y", 1, <<1>>), SRv6(4, "z", 1, <<1>>)>>, 1, 0, 0, 1, 0, 0),
   Profile(<<Plain(3, "w", FALSE), SRv6(2, "x", 0, <<1>>), SRv6(3, "y", 0, <<1>>), SRv6(2, "z", 0, <<1>>),
             SRv6(4, "v", 2, <<1>>)>>, 1, 0, 0, 1, 0, 0),
   Profile(<<SRv6(3, "x", 0, <<1>>), SRv6(4, "y", 0, <<1>>)>>, 1, 0, 0, 1, 0, 0),
   Profile(<<SRv6(3, "x", 0, <<1>>), SRv6(4, "y", 9, <<1>>)>>, 1, 0, 0, 1, 0, 0),
   Profile(<<Plain(4, "x", TRUE)>>, 1, 1, 1, 1, 0, 0),
   Profile(<<Plain(4, "x", TRUE)>>, 1, 0, 0, 2, 1, 0),
   Profile(<<Plain(4, "x", TRUE)>>, 1, 0, 1, 1, 1, 0),
   Profile(<<Plain(4, "x", TRUE)>>, 1, 1, 0, 0, 1, 1)}
MCOptions == {[router |-> None, value |-> 1], [router |-> "configured", value |-> 2]}
=============================================================================
