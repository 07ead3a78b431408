-------------------------- MODULE MCGeofenceMonitor --------------------------
(***************************************************************************)
(* A small instance of GeofenceMonitor for TLC: one vehicle that pings and *)
(* one that fences may be assigned to; a built-in fence for everyone, and  *)
(* one in the table that is closed to the other vehicle; two ingests.      *)
(***************************************************************************)
EXTENDS GeofenceMonitor

CONSTANTS v1, v2, n1, n2, here, gateway, h1, h2

MCKey        == [n \in Names |-> n]
MCScopes     == {{}, {v2}}
MCDefault    == {[name |-> n1, place |-> here, rule |-> "watch", scope |-> {}]}
MCConfigured == {[name |-> n2, place |-> here, rule |-> "no_entry", scope |-> {v2}]}

MCProcessOf  == [h \in Handlers |-> gateway]

\* Bound: an edit and an error meet one ingest at a time, overlapping ingests one of
\* the two.
MCNext == Next /\ (overlap' => edits' + faults' <= 1)
MCSpec == Init /\ [][MCNext]_vars /\ Fairness
=============================================================================
