------------------------- MODULE MCGatewayConnection -------------------------
(***************************************************************************)
(* A small instance of GatewayConnection for TLC: two usable records of    *)
(* the same second and one at (0,0), of a tracker first fitted to v1.      *)
(***************************************************************************)
EXTENDS GatewayConnection

CONSTANTS r1, r2, r3, v1, v2

MCTsOf == [r \in Records |-> IF r = r3 THEN 2 ELSE 1]

MCInit == Init /\ device.vehicle = v1

MCSpec == MCInit /\ [][Next]_vars /\ Fairness
=============================================================================
