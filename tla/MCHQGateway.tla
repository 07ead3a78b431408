---------------------------- MODULE MCHQGateway ----------------------------
(***************************************************************************)
(* HQGateway on a small instance: the gateway starts with one device that  *)
(* is registered and fitted to a vehicle, active or not, and one that is   *)
(* not registered; operators may create, disable, enable and refit them.   *)
(***************************************************************************)
EXTENDS HQGateway

CONSTANTS S1, V1

MCInit ==
  /\ Init
  /\ \E on \in BOOLEAN : devices = [s \in {S1} |-> [vehicle |-> V1, active |-> on]]

MCSpec == MCInit /\ [][Next]_vars /\ Fairness
=============================================================================
