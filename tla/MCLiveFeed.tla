------------------------------ MODULE MCLiveFeed ------------------------------
(***************************************************************************)
(* A small instance of LiveFeed for TLC: one subscription for a vehicle    *)
(* and one for the fleet.                                                  *)
(***************************************************************************)
EXTENDS LiveFeed

CONSTANTS s1, s2, v1, v2, p1, p2

MCMaxPings  == [p \in Publishers |-> IF p = p1 THEN 2 ELSE 1]
MCVehicleOf == [p \in Publishers |-> IF p = p1 THEN v1 ELSE v2]
MCWants     == [s \in Subs |-> IF s = s1 THEN v1 ELSE Fleet]
=============================================================================
