--------------------------- MODULE MCBabelRouting ---------------------------
(* Instances of BabelRouting for TLC. *)
EXTENDS BabelRouting, TLC

CONSTANTS o, a, b

\* A triangle with a short way from o to b over a, and two ends of a tunnel.
TriangleCost == ({o, a} :> 1) @@ ({a, b} :> 1) @@ ({o, b} :> 3)

\* One node advertises, and a packet is lost.
Triangle == [links |-> DOMAIN TriangleCost, origins |-> {o}, loss |-> 1, flap |-> 0, busy |-> 1]

\* Both nodes advertise, over a tunnel that fails and is repaired.
Pair == [links |-> {{o, a}}, origins |-> {o, a}, loss |-> 0, flap |-> 2, busy |-> 2]

\* Nothing goes wrong.
Calm == [Pair EXCEPT !.origins = {o}, !.flap = 0, !.busy = 1]

Both == {Triangle, Pair}
Undisturbed == {Calm}
=============================================================================
