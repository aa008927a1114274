--------------------------- MODULE MCControlPlane ---------------------------
(* Instances of ControlPlane for TLC. *)
EXTENDS ControlPlane, TLC

CONSTANTS a, k1, k2

MCRouted == (a :> "routed")
MCIke == (a :> "ike")
=============================================================================
