-------------------------- MODULE MCCommandDelivery --------------------------
(***************************************************************************)
(* Small instances of CommandDelivery for TLC.                             *)
(***************************************************************************)
EXTENDS CommandDelivery

CONSTANTS d1, d2,  \* two devices, of which the first has an encoder
          h1, h2,  \* two connections
          v1, v2,  \* vehicles
          c1, c2,  \* command rows
          st901,   \* a model with encoders
          unknown  \* a model without

MCModelOf == [d \in Devices |-> IF d = d1 THEN st901 ELSE unknown]

\* The encoders know how to make every kind of command.
MCEncoders == {st901} \X Kinds

\* h1 serves d1; h2 serves it, too, as two connections of one tracker do, or the other.
MCInit == Init /\ serves[h1] = d1

\* Bound: two connections of one device have one command between them; a device with a
\* connection of its own has two, or the other one has one, and the vehicle keeps its
\* unit and is slow enough whenever it reports.
Shared ==
  /\ commands[c2] = NoRow /\ commands[c1].device # d2
  /\ vehicleOf[d2] = v1
Apart ==
  /\ commands[c2].device # d2
  /\ commands[c1].device = d2 => commands[c2] = NoRow
  /\ \A d \in Devices : vehicleOf[d] = v1
  /\ newest[v1] = NoFix \/ newest[v1].speed = 5

MCNext == Next /\ (IF serves[h1] = serves[h2] THEN Shared ELSE Apart)'

MCSpec == MCInit /\ [][MCNext]_vars /\ Fairness
=============================================================================
