---------------------------- MODULE MCHTTPIngest ----------------------------
(***************************************************************************)
(* A small instance of HTTPIngest for TLC: a bound device whose key the    *)
(* relay has and a second one still to be registered, two vehicles, a      *)
(* batch that fits the bound device for a while (one of its pings has no   *)
(* time, the other one ages) and one that only an unbound device may post. *)
(***************************************************************************)
EXTENDS HTTPIngest, TLC

CONSTANTS d1, d2, k1, k2, v1, v2, p1, p2, p3, p4, h1, h2, ip1, ip2

MCBody ==
  p1 :> [vehicle |-> v1, ts |-> 0, valid |-> TRUE] @@
  p2 :> [vehicle |-> NoVehicle, ts |-> NoTime, valid |-> TRUE] @@
  p3 :> [vehicle |-> v1, ts |-> 2, valid |-> TRUE] @@
  p4 :> [vehicle |-> v2, ts |-> 2, valid |-> TRUE]

MCBatches == {<<p1, p2>>, <<p3, p4>>}

MCIPOf == h1 :> ip1 @@ h2 :> ip2

\* An operator has registered d1 and given its key to the relay; somebody else
\* has posted with it from ip1 a moment ago.
Registered ==
  [key |-> k1, vehicle |-> v1, state |-> "active", lastSeen |-> 0, lastIP |-> ip1]

MCInit ==
  /\ registry = (d1 :> Registered @@ d2 :> Unused)
  /\ issued = {k1} /\ relayKey = k1
  /\ rows = {} /\ live = {} /\ synced = {}
  /\ heard = (d1 :> 0 @@ d2 :> Never)
  /\ held = {} /\ forgotten = {}
  /\ stage = [h \in Requests |-> "idle"]
  /\ batch = [h \in Requests |-> <<>>]
  /\ key = [h \in Requests |-> NoKey]
  /\ device = [h \in Requests |-> d1]
  /\ pings = [h \in Requests |-> <<>>]
  /\ gone = [h \in Requests |-> FALSE]
  /\ good = [h \in Requests |-> {}]
  /\ now = 1 /\ edits = 0 /\ faults = 0

MCSpec == MCInit /\ [][Next]_vars

MCFairSpec == MCSpec /\ Fairness
=============================================================================
