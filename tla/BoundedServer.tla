---------------------------- MODULE BoundedServer ----------------------------
(***************************************************************************)
(* What the TCP gateways promise about the clients they serve, with the    *)
(* accept loop, the semaphore, the goroutines and the wait group left out: *)
(* at most Limit clients at a time, each served once; a client is turned   *)
(* away only when the server is full or shuts down.  The shutdown is no    *)
(* more graceful than this: the server waits until nobody is served, or    *)
(* for a time, but one client that came before may be let in even then,    *)
(* and the end does not wait for it.                                       *)
(*                                                                         *)
(* HQGateway implements it.                                                *)
(***************************************************************************)
EXTENDS Naturals, FiniteSets

CONSTANTS
  Clients,
  Limit     \* how many clients may be served at a time

VARIABLES
  served,   \* the clients being served
  gone,     \* those that were served, or turned away
  phase     \* "open"; "closing" once told to stop; "idle" once nobody was served,
            \* or "overdue" when it will not wait any longer; "stopped"

vars == <<served, gone, phase>>

Init == served = {} /\ gone = {} /\ phase = "open"

\* A client that is not gone may be admitted for as long as the server runs.
Admit(c) ==
  /\ phase # "stopped"
  /\ c \notin served \cup gone
  /\ Cardinality(served \cup {c}) <= Limit
  /\ served' = served \cup {c}
  /\ UNCHANGED <<gone, phase>>

\* The server is full.
TurnAway(c) ==
  /\ phase # "stopped"
  /\ c \notin served \cup gone
  /\ Cardinality(served) = Limit
  /\ gone' = gone \cup {c}
  /\ UNCHANGED <<served, phase>>

\* The client hangs up, is refused or is silent for too long.
Leave(c) ==
  /\ c \in served
  /\ served' = served \ {c} /\ gone' = gone \cup {c}
  /\ UNCHANGED phase

\* Of the clients that wait to be let in, all but one at most are turned away.
Shutdown ==
  /\ phase = "open" /\ phase' = "closing"
  /\ gone \subseteq gone' /\ gone' \subseteq Clients \ served
  /\ \A c, d \in Clients \ (served \cup gone') : c = d
  /\ UNCHANGED served

\* The server has seen an instant with nobody to serve ...
Done ==
  /\ phase = "closing" /\ phase' = "idle"
  /\ served = {}
  /\ UNCHANGED <<served, gone>>

\* ... or has waited long enough.
Overdue ==
  /\ phase = "closing" /\ phase' = "overdue"
  /\ UNCHANGED <<served, gone>>

\* It stops, and whoever is served then is cut off.
Stop ==
  /\ phase \in {"idle", "overdue"} /\ phase' = "stopped"
  /\ served' = {} /\ gone' = Clients

Next ==
  \/ \E c \in Clients : Admit(c) \/ TurnAway(c) \/ Leave(c)
  \/ Shutdown \/ Done \/ Overdue \/ Stop

Spec == Init /\ [][Next]_vars
=============================================================================
