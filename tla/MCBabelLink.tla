---------------------------- MODULE MCBabelLink ----------------------------
(* What may happen in the behaviours of the runs of BabelLink.tla. *)
EXTENDS BabelLink

Budget(h, i, u, l, r, m, c) ==
  [hello |-> h, ihu |-> i, update |-> u, loss |-> l, restart |-> r, move |-> m, close |-> c]

\* Hellos that are lost, duplicated, reordered and restarted; the silence of a
\* link, and its end; updates; a close that meets a probe.
MCBudgets ==
  {Budget(3, 0, 0, 1, 1, 0, 0), Budget(2, 2, 0, 0, 0, 0, 0), Budget(0, 1, 0, 0, 0, 1, 1),
   Budget(0, 0, 2, 1, 0, 0, 0)}

\* Nothing but a close that meets a probe.
MCClosing == {Budget(0, 1, 0, 0, 0, 1, 1)}
=============================================================================
