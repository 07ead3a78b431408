--------------------------- MODULE StoreAndForward ---------------------------
(***************************************************************************)
(* What an ingest path promises to whoever reports positions, with         *)
(* connections, requests, packets, processes and retries left out: a       *)
(* position leaves the sender's buffer, its vehicle being known, only when *)
(* it can be found in the time-series table and has been shown live; what  *)
(* is shown live is in the table; what is in the table stays there.        *)
(*                                                                         *)
(* It is the contract that GatewayConnection (a tracker and its ACKs) and  *)
(* HTTPIngest (a relay and its answers) implement.                         *)
(***************************************************************************)

CONSTANTS
  Usable,     \* the sender's records that have a position
  Vehicles,   \* the vehicles a position can be stored under
  NoVehicle,  \* the record is given up without a vehicle to store it under
  TimesOf     \* for each record, the times it may be stored at: its own, or any
              \* when the server has to choose

VARIABLES
  held,      \* the records in the sender's buffer
  stored,    \* the [vehicle, ts] keys of the time-series table
  shown,     \* the [vehicle, rec] shown to live viewers
  forgotten  \* the [rec, vehicle] the sender deleted, each with the vehicle it
             \* was acknowledged for

vars == <<held, stored, shown, forgotten>>

Known == held \cup {f.rec : f \in forgotten}

\* The table has a row for record r under vehicle v.
InTable(v, r) == \E ts \in TimesOf[r] : [vehicle |-> v, ts |-> ts] \in stored

Init == held = {} /\ stored = {} /\ shown = {} /\ forgotten = {}

\* The sender records what it has not recorded before.
Log ==
  /\ held \subseteq held'
  /\ (held' \ held) \cap Known = {}
  /\ UNCHANGED <<stored, shown, forgotten>>

\* Only positions the sender has recorded get into the table.
Store ==
  /\ stored \subseteq stored'
  /\ \A key \in stored' \ stored :
       /\ key.vehicle \in Vehicles
       /\ \E r \in Known \cap Usable : key.ts \in TimesOf[r]
  /\ UNCHANGED <<held, shown, forgotten>>

\* Only what is in the table is shown.
Show ==
  /\ shown \subseteq shown'
  /\ \A p \in shown' \ shown : p.rec \in Known /\ InTable(p.vehicle, p.rec)
  /\ UNCHANGED <<held, stored, forgotten>>

\* The sender deletes records: of those with a position, under a vehicle, only
\* what is in the table and has been shown.
Forget ==
  /\ held' \subseteq held /\ forgotten \subseteq forgotten'
  /\ {f.rec : f \in forgotten' \ forgotten} = held \ held'
  /\ \A f \in forgotten' \ forgotten :
       f.vehicle # NoVehicle /\ f.rec \in Usable =>
         /\ InTable(f.vehicle, f.rec)
         /\ [vehicle |-> f.vehicle, rec |-> f.rec] \in shown
  /\ UNCHANGED <<stored, shown>>

Next == Log \/ Store \/ Show \/ Forget

Spec == Init /\ [][Next]_vars
=============================================================================
