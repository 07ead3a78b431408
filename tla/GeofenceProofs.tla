---------------------------- MODULE GeofenceProofs ----------------------------
(***************************************************************************)
(* For any number of processes, ingests, vehicles and fences, with edits,  *)
(* refreshes, errors and restarts at any point: the variables of           *)
(* GeofenceMonitor keep their types, every event is a crossing, and one    *)
(* that a fence of the operator's called for.                              *)
(***************************************************************************)
EXTENDS GeofenceMonitor, TLAPS

\* What is loaded, read or built in has been in force.
VersionsInv ==
  /\ Default \cup LoadGeofencePOIs \subseteq versions
  /\ \A p \in Processes : active[p] \cup fetched[p] \subseteq versions

\* A recorded side has been recorded.
RecordedInv ==
  \A v \in Vehicles, n \in Names :
    inside[v][n] # "unknown" => <<v, n, inside[v][n]>> \in recorded

\* A transition belongs to a fence that was in force for the vehicle; a known one
\* comes from the other side.
Founded(v, tr) ==
  /\ \E f \in versions :
       f.name = tr.name /\ f.rule = tr.rule /\ (f.scope = {} \/ v \in f.scope)
  /\ tr.known => <<v, tr.name, Side(~tr.entered)>> \in recorded

\* Handlers work on such transitions, and report those that have been saved.
WorkInv ==
  \A h \in Handlers :
    /\ pc[h] # "idle" => ping[h].vehicle \in Vehicles
    /\ \A tr \in todo[h] \cup current[h] : Founded(ping[h].vehicle, tr)
    /\ \A tr \in current[h] :
         /\ IsReported(tr)
         /\ <<ping[h].vehicle, tr.name, Side(tr.entered)>> \in recorded

IInv == TypeOK /\ VersionsInv /\ RecordedInv /\ WorkInv /\ EventsAreDue /\ EventsAreCrossings

\* While ingests of a vehicle come one at a time, what a handler is about to report is
\* what is recorded, and a side that is not known from the reports, nor was kept from
\* being known by a taken id, is about to be.
Reports(h, v, n) ==
  /\ pc[h] = "insert" /\ ping[h].vehicle = v
  /\ \E tr \in current[h] :
       current[h] = {tr} /\ tr.name = n /\ inside[v][n] = Side(tr.entered)

OneEach ==
  \A g, h \in Handlers :
    pc[g] # "idle" /\ pc[h] # "idle" /\ ping[g].vehicle = ping[h].vehicle => g = h

ReportInv ==
  /\ \A h \in Handlers :
       pc[h] = "insert" => \E n \in Names : Reports(h, ping[h].vehicle, n)
  /\ \A v \in Vehicles, n \in Names :
       \/ told[v][n] = inside[v][n] \/ <<v, n>> \in dropped
       \/ \E h \in Handlers : Reports(h, v, n)

OrderlyInv == Orderly => OneEach /\ ReportInv

LEMMA SideType == ASSUME NEW b \in BOOLEAN PROVE Side(b) \in {"inside", "outside"}
  BY DEF Side

\* The code's rule is the property's.
LEMMA BreachesAreDue ==
  ASSUME NEW rule \in Rules, NEW entered \in BOOLEAN
  PROVE  Breaches(rule, entered) <=> Due(rule, entered)
  BY DEF Rules, Breaches, Due

-----------------------------------------------------------------------------
(* Types *)

LEMMA NothingType == Nothing \in [Vehicles -> [Names -> Sides]]
  BY DEF Nothing, Sides

LEMMA SetSide ==
  ASSUME NEW f \in [Vehicles -> [Names -> Sides]], NEW v \in Vehicles, NEW n \in Names,
         NEW side \in Sides
  PROVE  [f EXCEPT ![v][n] = side] \in [Vehicles -> [Names -> Sides]]
  OBVIOUS

LEMMA FaultType ==
  ASSUME TypeOK, Fault
  PROVE  /\ faults' \in 0 .. MaxFaults
         /\ told' \in [Vehicles -> [Names -> Sides]]
         /\ dropped' \subseteq Vehicles \X Names
  BY NothingType, DataAssumption DEF TypeOK, Fault

\* The fence of a row, with its name, is a POI.
LEMMA POIType == ASSUME NEW n \in Names, NEW f \in Fence PROVE POIOf(n, f) \in POI
  BY DEF POIOf, Fence, POI

LEMMA LoadType == TypeOK => LoadGeofencePOIs \subseteq POI
  BY POIType DEF TypeOK, LoadGeofencePOIs

LEMMA TypeInit == Init => TypeOK
<1> SUFFICES ASSUME Init PROVE TypeOK
  OBVIOUS
<1>1. DOMAIN pois \subseteq Names /\ \A n \in DOMAIN pois : pois[n] \in Fence
  <2>1. pois = [n \in {f.name : f \in Configured} |->
                  LET f == CHOOSE g \in Configured : g.name = n
                  IN [place |-> f.place, rule |-> f.rule, active |-> TRUE, scope |-> f.scope]]
    BY DEF Init
  <2>2. ASSUME NEW n \in {f.name : f \in Configured}
        PROVE  n \in Names /\ (CHOOSE g \in Configured : g.name = n) \in POI
    BY DataAssumption DEF POI
  <2>3. QED
    BY <2>1, <2>2 DEF POI, Fence
<1>2. /\ active \in [Processes -> SUBSET POI] /\ fetched \in [Processes -> SUBSET POI]
      /\ loaded \in [Processes -> BOOLEAN] /\ fetching \subseteq Refreshing
  BY DEF Init
<1>3. inside \in [Vehicles -> [Names -> Sides]] /\ told \in [Vehicles -> [Names -> Sides]]
  BY NothingType DEF Init, Sides
<1>4. /\ pc \in [Handlers -> {"idle", "query", "save", "insert"}]
      /\ ping \in [Handlers -> Ping \cup {NoPing}]
      /\ todo \in [Handlers -> SUBSET Transition] /\ current \in [Handlers -> SUBSET Transition]
      /\ \A h \in Handlers : pc[h] = "idle" => ping[h] = NoPing /\ todo[h] = {} /\ current[h] = {}
  BY DEF Init
<1>5. versions \subseteq POI
  <2>1. \A n \in DOMAIN pois : POIOf(n, pois[n]) \in POI
    BY <1>1, POIType
  <2>2. LoadGeofencePOIs \subseteq POI
    BY <2>1 DEF LoadGeofencePOIs
  <2>3. QED
    BY <2>2, DataAssumption DEF Init
<1>6. /\ events \subseteq Event /\ recorded \subseteq Vehicles \X Names \X Sides
      /\ dropped \subseteq Vehicles \X Names /\ overlap \in BOOLEAN
  BY DEF Init
<1>7. edits \in 0 .. MaxEdits /\ faults \in 0 .. MaxFaults
  <2>1. edits = 0 /\ faults = 0
    BY DEF Init
  <2>2. QED
    BY <2>1, DataAssumption
<1>8. QED
  BY <1>1, <1>2, <1>3, <1>4, <1>5, <1>6, <1>7 DEF TypeOK

LEMMA TypeWrite ==
  ASSUME TypeOK, NEW t, DOMAIN t \subseteq Names, \A n \in DOMAIN t : t[n] \in Fence, Write(t)
  PROVE  TypeOK'
<1>1. DOMAIN pois' \subseteq Names /\ \A n \in DOMAIN pois' : pois'[n] \in Fence
  BY DEF Write
<1>2. versions' \subseteq POI
  <2>1. {POIOf(n, t[n]) : n \in {m \in DOMAIN t : t[m].active}} \subseteq POI
    BY POIType
  <2>2. QED
    BY <2>1 DEF Write, TypeOK
<1>3. edits' \in 0 .. MaxEdits
  BY DataAssumption DEF Write, Edit, TypeOK
<1>4. QED
  BY <1>1, <1>2, <1>3 DEF Write, TypeOK, handler

\* Whatever an operator does writes a table of fences.
LEMMA EditWrites ==
  ASSUME TypeOK,
         \/ \E n \in Names, place \in Places, rule \in Rules, on \in BOOLEAN :
              UpsertGeofencePOI(n, place, rule, on)
         \/ \E n \in Names : DeleteGeofencePOI(n)
         \/ \E n \in Names, scope \in Scopes : SetGeofenceVehicles(n, scope)
         \/ \E from, to \in Names : RenameGeofencePOI(from, to)
  PROVE  \E t : DOMAIN t \subseteq Names /\ (\A n \in DOMAIN t : t[n] \in Fence) /\ Write(t)
<1>1. ASSUME NEW n \in Names, NEW place \in Places, NEW rule \in Rules, NEW on \in BOOLEAN,
             UpsertGeofencePOI(n, place, rule, on)
      PROVE  \E t : DOMAIN t \subseteq Names /\ (\A m \in DOMAIN t : t[m] \in Fence) /\ Write(t)
  <2> DEFINE scope == IF n \in DOMAIN pois THEN pois[n].scope ELSE {}
             fence == [place |-> place, rule |-> rule, active |-> on, scope |-> scope]
             t     == [m \in DOMAIN pois \cup {n} |-> IF m = n THEN fence ELSE pois[m]]
  <2>1. scope \in Scopes
    BY DataAssumption DEF TypeOK, Fence
  <2>2. fence \in Fence
    BY <2>1 DEF Fence
  <2>3. Write(t)
    BY <1>1 DEF UpsertGeofencePOI
  <2> HIDE DEF fence
  <2>4. DOMAIN t \subseteq Names /\ \A m \in DOMAIN t : t[m] \in Fence
    BY <2>2 DEF TypeOK
  <2>5. QED
    BY <2>3, <2>4
<1>2. ASSUME NEW n \in Names, DeleteGeofencePOI(n)
      PROVE  \E t : DOMAIN t \subseteq Names /\ (\A m \in DOMAIN t : t[m] \in Fence) /\ Write(t)
  <2> DEFINE t == [m \in DOMAIN pois \ {n} |-> pois[m]]
  <2>1. Write(t) /\ DOMAIN t \subseteq Names /\ \A m \in DOMAIN t : t[m] \in Fence
    BY <1>2 DEF DeleteGeofencePOI, TypeOK
  <2>2. QED
    BY <2>1
<1>3. ASSUME NEW n \in Names, NEW scope \in Scopes, SetGeofenceVehicles(n, scope)
      PROVE  \E t : DOMAIN t \subseteq Names /\ (\A m \in DOMAIN t : t[m] \in Fence) /\ Write(t)
  <2> DEFINE t == [pois EXCEPT ![n].scope = scope]
  <2>1. Write(t) /\ DOMAIN t \subseteq Names /\ \A m \in DOMAIN t : t[m] \in Fence
    BY <1>3 DEF SetGeofenceVehicles, TypeOK, Fence
  <2>2. QED
    BY <2>1
<1>4. ASSUME NEW from \in Names, NEW to \in Names, RenameGeofencePOI(from, to)
      PROVE  \E t : DOMAIN t \subseteq Names /\ (\A m \in DOMAIN t : t[m] \in Fence) /\ Write(t)
  <2> DEFINE t == [m \in (DOMAIN pois \ {from}) \cup {to} |->
                     IF m = to THEN pois[from] ELSE pois[m]]
  <2>1. Write(t) /\ DOMAIN t \subseteq Names /\ \A m \in DOMAIN t : t[m] \in Fence
    BY <1>4 DEF RenameGeofencePOI, TypeOK
  <2>2. QED
    BY <2>1
<1>5. QED
  BY <1>1, <1>2, <1>3, <1>4

LEMMA TypeRefresh ==
  ASSUME TypeOK, NEW p \in Processes,
         FetchGeofencePOIs(p) \/ SetGeofencePOIsLoaded(p) \/ RefreshFails(p)
  PROVE  TypeOK'
<1>1. CASE FetchGeofencePOIs(p)
  <2>1. fetched' \in [Processes -> SUBSET POI]
    BY <1>1, LoadType DEF FetchGeofencePOIs, TypeOK
  <2>2. fetching' \subseteq Refreshing
    BY <1>1 DEF FetchGeofencePOIs, TypeOK
  <2>3. QED
    BY <1>1, <2>1, <2>2 DEF FetchGeofencePOIs, TypeOK, handler
<1>2. CASE SetGeofencePOIsLoaded(p)
  <2>1. /\ active' \in [Processes -> SUBSET POI] /\ fetched' \in [Processes -> SUBSET POI]
        /\ loaded' \in [Processes -> BOOLEAN] /\ fetching' \subseteq Refreshing
    BY <1>2 DEF SetGeofencePOIsLoaded, TypeOK
  <2>2. QED
    BY <1>2, <2>1 DEF SetGeofencePOIsLoaded, TypeOK, handler
<1>3. CASE RefreshFails(p)
  <2>1. fetched' \in [Processes -> SUBSET POI] /\ fetching' \subseteq Refreshing
    BY <1>3 DEF RefreshFails, TypeOK
  <2>2. QED
    BY <1>3, <2>1, FaultType DEF RefreshFails, TypeOK, handler
<1>4. QED
  BY <1>1, <1>2, <1>3

LEMMA TypeRestart == ASSUME TypeOK, NEW p \in Processes, Restart(p) PROVE TypeOK'
<1>1. /\ active' \in [Processes -> SUBSET POI] /\ fetched' \in [Processes -> SUBSET POI]
      /\ loaded' \in [Processes -> BOOLEAN] /\ fetching' \subseteq Refreshing
  BY DEF Restart, TypeOK
<1>2. /\ pc' \in [Handlers -> {"idle", "query", "save", "insert"}]
      /\ ping' \in [Handlers -> Ping \cup {NoPing}]
      /\ todo' \in [Handlers -> SUBSET Transition] /\ current' \in [Handlers -> SUBSET Transition]
  BY DEF Restart, TypeOK
<1>3. \A h \in Handlers : pc'[h] = "idle" => ping'[h] = NoPing /\ todo'[h] = {} /\ current'[h] = {}
  BY DEF Restart, TypeOK
<1>4. QED
  BY <1>1, <1>2, <1>3, FaultType DEF Restart, TypeOK

\* The transitions of a ping have the type of one.
LEMMA TransitionsType ==
  ASSUME TypeOK, VersionsInv, NEW p \in Processes, NEW ping_ \in Ping
  PROVE  Transitions(p, ping_) \subseteq Transition
<1>1. ActiveGeofencePOIs(p) \subseteq POI
  BY DataAssumption DEF ActiveGeofencePOIs, TypeOK
<1>2. ASSUME NEW tr \in Transitions(p, ping_) PROVE tr \in Transition
  <2>1. PICK f \in ActiveGeofencePOIs(p) :
          tr = [name |-> f.name, entered |-> f.place \in ping_.at, rule |-> f.rule,
                known |-> FALSE]
    BY DEF Transitions
  <2>2. f.name \in Names /\ f.rule \in Rules /\ (f.place \in ping_.at) \in BOOLEAN
    BY <1>1 DEF POI
  <2>3. QED
    BY <2>1, <2>2 DEF Transition
<1>3. QED
  BY <1>2

LEMMA TypeProcess ==
  ASSUME TypeOK, VersionsInv, NEW h \in Handlers, NEW ping_ \in Ping, ProcessGeofences(h, ping_)
  PROVE  TypeOK'
<1> DEFINE work == Transitions(ProcessOf[h], ping_)
<1>1. work \subseteq Transition
  BY TransitionsType, DataAssumption
<1>2. /\ overlap' \in BOOLEAN /\ told' \in [Vehicles -> [Names -> Sides]]
      /\ dropped' \subseteq Vehicles \X Names
  BY NothingType DEF ProcessGeofences, TypeOK
<1>3. UNCHANGED <<config, inside, events, versions, recorded, faults>>
  BY DEF ProcessGeofences
<1>4. /\ pc' \in [Handlers -> {"idle", "query", "save", "insert"}]
      /\ ping' \in [Handlers -> Ping \cup {NoPing}]
      /\ todo' \in [Handlers -> SUBSET Transition] /\ current' \in [Handlers -> SUBSET Transition]
      /\ \A g \in Handlers : pc'[g] = "idle" => ping'[g] = NoPing /\ todo'[g] = {} /\ current'[g] = {}
  <2>1. /\ pc' = [pc EXCEPT ![h] = "query"] /\ ping' = [ping EXCEPT ![h] = ping_]
        /\ todo' = [todo EXCEPT ![h] = work] /\ current' = current
    BY DEF ProcessGeofences
  <2> HIDE DEF work
  <2>2. QED
    BY <1>1, <2>1 DEF TypeOK
<1>5. QED
  BY <1>2, <1>3, <1>4 DEF TypeOK, config

LEMMA ContinueType ==
  ASSUME TypeOK, NEW h \in Handlers, NEW rest \in SUBSET Transition, Continue(h, rest)
  PROVE  /\ pc' \in [Handlers -> {"idle", "query", "save", "insert"}]
         /\ ping' \in [Handlers -> Ping \cup {NoPing}]
         /\ todo' \in [Handlers -> SUBSET Transition] /\ current' \in [Handlers -> SUBSET Transition]
         /\ \A g \in Handlers :
              pc'[g] = "idle" => ping'[g] = NoPing /\ todo'[g] = {} /\ current'[g] = {}
  BY DEF Continue, TypeOK

\* What is looked up are transitions, each one that was found.
LEMMA ChangedType ==
  ASSUME NEW v, NEW found \in SUBSET Transition PROVE Changed(v, found) \subseteq Transition
<1>1. ASSUME NEW c \in Transition, NEW b \in BOOLEAN
      PROVE  [c EXCEPT !.known = b] \in Transition
  BY DEF Transition
<1>2. ASSUME NEW tr \in Changed(v, found)
      PROVE  \E c \in found : tr = [c EXCEPT !.known = inside[v][c.name] # "unknown"]
  BY DEF Changed
<1>3. \A c : (inside[v][c.name] # "unknown") \in BOOLEAN
  OBVIOUS
<1>4. QED
  BY <1>1, <1>2, <1>3

LEMMA TypeQuery == ASSUME TypeOK, NEW h \in Handlers, GeofenceStateFor(h) PROVE TypeOK'
<1>1. Changed(ping[h].vehicle, todo[h]) \in SUBSET Transition
  BY ChangedType DEF TypeOK
<1>2. /\ Continue(h, Changed(ping[h].vehicle, todo[h]))
      /\ UNCHANGED <<config, inside, events, versions, recorded, told, dropped, overlap, faults>>
  BY DEF GeofenceStateFor
<1>3. QED
  BY <1>1, <1>2, ContinueType DEF TypeOK, config

LEMMA RecordType ==
  ASSUME TypeOK, NEW v \in Vehicles, NEW n \in Names, NEW entered \in BOOLEAN, Record(v, n, entered)
  PROVE  inside' \in [Vehicles -> [Names -> Sides]] /\ recorded' \subseteq Vehicles \X Names \X Sides
<1>1. Side(entered) \in Sides
  BY SideType DEF Sides
<1>2. QED
  BY <1>1 DEF Record, TypeOK

LEMMA TellType ==
  ASSUME TypeOK, NEW v \in Vehicles, NEW n \in Names, NEW entered \in BOOLEAN,
         \/ UNCHANGED <<told, dropped>> \/ Tell(v, n, entered)
         \/ dropped' = dropped \cup {<<v, n>>} /\ UNCHANGED told
  PROVE  told' \in [Vehicles -> [Names -> Sides]] /\ dropped' \subseteq Vehicles \X Names
<1>1. Side(entered) \in Sides
  BY SideType DEF Sides
<1>2. told \in [Vehicles -> [Names -> Sides]] /\ dropped \subseteq Vehicles \X Names
  BY DEF TypeOK
<1>3. [told EXCEPT ![v][n] = Side(entered)] \in [Vehicles -> [Names -> Sides]]
  BY <1>1, <1>2, SetSide
<1>4. QED
  BY <1>2, <1>3 DEF Tell

LEMMA TypeSave ==
  ASSUME TypeOK, WorkInv, NEW h \in Handlers, NEW tr \in todo[h], SaveTransition(h, tr)
  PROVE  TypeOK'
<1> DEFINE v == ping[h].vehicle
<1>1. v \in Vehicles /\ tr \in Transition /\ tr.name \in Names /\ tr.entered \in BOOLEAN
  BY DEF TypeOK, WorkInv, SaveTransition, Transition
<1>2. inside' \in [Vehicles -> [Names -> Sides]] /\ recorded' \subseteq Vehicles \X Names \X Sides
  BY <1>1, RecordType DEF SaveTransition
<1>3. /\ pc' \in [Handlers -> {"idle", "query", "save", "insert"}]
      /\ ping' \in [Handlers -> Ping \cup {NoPing}]
      /\ todo' \in [Handlers -> SUBSET Transition] /\ current' \in [Handlers -> SUBSET Transition]
      /\ \A g \in Handlers : pc'[g] = "idle" => ping'[g] = NoPing /\ todo'[g] = {} /\ current'[g] = {}
  <2>1. CASE IsReported(tr)
    <3>1. /\ pc' = [pc EXCEPT ![h] = "insert"] /\ current' = [current EXCEPT ![h] = {tr}]
          /\ todo' = [todo EXCEPT ![h] = todo[h] \ {tr}] /\ ping' = ping
      BY <2>1 DEF SaveTransition
    <3>2. {tr} \subseteq Transition /\ todo[h] \ {tr} \subseteq Transition
      BY <1>1 DEF TypeOK
    <3>3. QED
      BY <3>1, <3>2 DEF TypeOK
  <2>2. CASE ~IsReported(tr)
    <3>1. Continue(h, todo[h] \ {tr}) /\ todo[h] \ {tr} \in SUBSET Transition
      BY <2>2 DEF SaveTransition, TypeOK
    <3>2. QED
      BY <3>1, ContinueType
  <2>3. QED
    BY <2>1, <2>2
<1>4. told' \in [Vehicles -> [Names -> Sides]] /\ dropped' \subseteq Vehicles \X Names
  <2>1. UNCHANGED <<told, dropped>> \/ Tell(v, tr.name, tr.entered)
    BY DEF SaveTransition
  <2>2. QED
    BY <1>1, <2>1, TellType
<1>5. QED
  BY <1>2, <1>3, <1>4 DEF SaveTransition, TypeOK, config

LEMMA TypeInsert ==
  ASSUME TypeOK, WorkInv, NEW h \in Handlers, InsertEvent(h) PROVE TypeOK'
<1> DEFINE v     == ping[h].vehicle
           e(tr) == [vehicle |-> v, key |-> Key[tr.name], ts |-> ping[h].ts, entered |-> tr.entered]
<1>1. PICK tr \in current[h] :
        /\ events' = events \/ events' = events \cup {e(tr)}
        /\ \/ UNCHANGED <<told, dropped>> \/ Tell(v, tr.name, tr.entered)
           \/ dropped' = dropped \cup {<<v, tr.name>>} /\ UNCHANGED told
  BY DEF InsertEvent
<1>2. v \in Vehicles /\ tr \in Transition /\ tr.name \in Names /\ tr.entered \in BOOLEAN
  BY DEF TypeOK, WorkInv, InsertEvent, Transition
<1>3. ping[h] \in Ping
  BY <1>2, DataAssumption DEF TypeOK, NoPing
<1>4. events' \subseteq Event
  <2>1. e(tr) \in Event
    BY <1>2, <1>3 DEF Event, Ping
  <2>2. QED
    BY <1>1, <2>1 DEF TypeOK
<1>5. told' \in [Vehicles -> [Names -> Sides]] /\ dropped' \subseteq Vehicles \X Names
  BY <1>1, <1>2, TellType
<1>6. Continue(h, todo[h]) /\ todo[h] \in SUBSET Transition
  BY DEF InsertEvent, TypeOK
<1>7. UNCHANGED <<config, inside, versions, recorded, overlap, faults>>
  BY DEF InsertEvent
<1>8. QED
  BY <1>4, <1>5, <1>6, <1>7, ContinueType DEF TypeOK, config

LEMMA TypeFail == ASSUME TypeOK, WorkInv, NEW h \in Handlers, Fail(h) PROVE TypeOK'
<1>1. inside' \in [Vehicles -> [Names -> Sides]] /\ recorded' \subseteq Vehicles \X Names \X Sides
  <2>1. ASSUME NEW tr \in todo[h], pc[h] = "save", Record(ping[h].vehicle, tr.name, tr.entered)
        PROVE  /\ inside' \in [Vehicles -> [Names -> Sides]]
               /\ recorded' \subseteq Vehicles \X Names \X Sides
    <3>1. ping[h].vehicle \in Vehicles /\ tr.name \in Names /\ tr.entered \in BOOLEAN
      BY <2>1 DEF TypeOK, WorkInv, Transition
    <3>2. QED
      BY <2>1, <3>1, RecordType
  <2>2. CASE UNCHANGED <<inside, recorded>>
    BY <2>2 DEF TypeOK
  <2>3. QED
    BY <2>1, <2>2 DEF Fail
<1>2. Continue(h, {}) /\ {} \in SUBSET Transition /\ Fault
  BY DEF Fail
<1>3. UNCHANGED <<config, events, versions, overlap>>
  BY DEF Fail
<1>4. QED
  BY <1>1, <1>2, <1>3, ContinueType, FaultType DEF TypeOK, config

-----------------------------------------------------------------------------
(* What has been in force, and what has been recorded *)

Operate ==
  \/ \E n \in Names, place \in Places, rule \in Rules, on \in BOOLEAN :
       UpsertGeofencePOI(n, place, rule, on)
  \/ \E n \in Names : DeleteGeofencePOI(n)
  \/ \E n \in Names, scope \in Scopes : SetGeofenceVehicles(n, scope)
  \/ \E from, to \in Names : RenameGeofencePOI(from, to)

Refresh(p) == FetchGeofencePOIs(p) \/ SetGeofencePOIsLoaded(p) \/ RefreshFails(p)

LEMMA InvInit ==
  ASSUME Init
  PROVE  VersionsInv /\ RecordedInv /\ WorkInv /\ EventsAreDue /\ EventsAreCrossings
<1>1. VersionsInv
  BY DEF Init, VersionsInv
<1>2. RecordedInv
  BY DEF Init, RecordedInv
<1>3. WorkInv
  BY DEF Init, WorkInv
<1>4. QED
  BY <1>1, <1>2, <1>3 DEF Init, EventsAreDue, EventsAreCrossings

\* Both histories only grow.
LEMMA Grows ==
  ASSUME TypeOK,
         \/ \E t : Write(t)
         \/ \E p \in Processes : Refresh(p) \/ Restart(p)
         \/ \E h \in Handlers :
              \/ \E ping_ \in Ping : ProcessGeofences(h, ping_)
              \/ \E tr \in todo[h] : SaveTransition(h, tr)
              \/ GeofenceStateFor(h) \/ InsertEvent(h) \/ Fail(h)
  PROVE  versions \subseteq versions' /\ recorded \subseteq recorded'
<1>1. ASSUME NEW t, Write(t) PROVE versions \subseteq versions' /\ recorded \subseteq recorded'
  BY <1>1 DEF Write
<1>2. ASSUME NEW p \in Processes, Refresh(p) \/ Restart(p)
      PROVE  versions \subseteq versions' /\ recorded \subseteq recorded'
  BY <1>2 DEF Refresh, FetchGeofencePOIs, SetGeofencePOIsLoaded, RefreshFails, Restart
<1>3. ASSUME NEW h \in Handlers,
             \/ \E ping_ \in Ping : ProcessGeofences(h, ping_)
             \/ \E tr \in todo[h] : SaveTransition(h, tr)
             \/ GeofenceStateFor(h) \/ InsertEvent(h) \/ Fail(h)
      PROVE  versions \subseteq versions' /\ recorded \subseteq recorded'
  BY <1>3 DEF ProcessGeofences, GeofenceStateFor, SaveTransition, InsertEvent, Fail, Record
<1>4. QED
  BY <1>1, <1>2, <1>3

LEMMA WriteVersions == ASSUME IInv, NEW t, Write(t) PROVE VersionsInv'
<1>1. LoadGeofencePOIs' \subseteq versions'
  BY DEF Write, LoadGeofencePOIs
<1>2. versions \subseteq versions' /\ active' = active /\ fetched' = fetched
  BY DEF Write
<1>3. QED
  BY <1>1, <1>2 DEF IInv, VersionsInv

LEMMA RefreshVersions ==
  ASSUME IInv, NEW p \in Processes, Refresh(p) \/ Restart(p) PROVE VersionsInv'
<1>1. versions' = versions /\ pois' = pois
  BY DEF Refresh, FetchGeofencePOIs, SetGeofencePOIsLoaded, RefreshFails, Restart
<1>2. LoadGeofencePOIs' = LoadGeofencePOIs
  BY <1>1 DEF LoadGeofencePOIs
<1>3. \A q \in Processes :
        /\ active'[q] \in {active[q], fetched[q], {}}
        /\ fetched'[q] \in {fetched[q], LoadGeofencePOIs, {}}
  BY DEF IInv, TypeOK, Refresh, FetchGeofencePOIs, SetGeofencePOIsLoaded, RefreshFails, Restart
<1>4. QED
  BY <1>1, <1>2, <1>3 DEF IInv, VersionsInv

LEMMA SameVersions ==
  ASSUME VersionsInv, UNCHANGED <<config, versions>> PROVE VersionsInv'
  BY DEF VersionsInv, LoadGeofencePOIs, config

LEMMA RecordRecorded ==
  ASSUME TypeOK, RecordedInv, NEW v \in Vehicles, NEW n \in Names, NEW entered \in BOOLEAN,
         Record(v, n, entered)
  PROVE  RecordedInv' /\ <<v, n, Side(entered)>> \in recorded'
<1>1. inside' = [inside EXCEPT ![v][n] = Side(entered)]
      /\ recorded' = recorded \cup {<<v, n, Side(entered)>>}
  BY DEF Record
<1>2. inside'[v][n] = Side(entered)
  BY <1>1 DEF TypeOK
<1>3. \A w \in Vehicles, m \in Names : w # v \/ m # n => inside'[w][m] = inside[w][m]
  BY <1>1 DEF TypeOK
<1>4. QED
  BY <1>1, <1>2, <1>3 DEF RecordedInv

LEMMA SameRecorded == ASSUME RecordedInv, UNCHANGED <<inside, recorded>> PROVE RecordedInv'
  BY DEF RecordedInv

-----------------------------------------------------------------------------
(* What handlers work on *)

LEMMA StillFounded ==
  ASSUME NEW v, NEW tr, Founded(v, tr), versions \subseteq versions', recorded \subseteq recorded'
  PROVE  Founded(v, tr)'
  BY DEF Founded

LEMMA SameWork ==
  ASSUME WorkInv, UNCHANGED handler, versions \subseteq versions', recorded \subseteq recorded'
  PROVE  WorkInv'
  BY DEF WorkInv, Founded, handler

\* The transitions of a ping are founded when they are found.
LEMMA TransitionsFounded ==
  ASSUME IInv, NEW p \in Processes, NEW ping_ \in Ping, NEW tr \in Transitions(p, ping_)
  PROVE  Founded(ping_.vehicle, tr)
<1>1. PICK f \in ActiveGeofencePOIs(p) :
        /\ AppliesTo(f, ping_.vehicle)
        /\ tr = [name |-> f.name, entered |-> f.place \in ping_.at, rule |-> f.rule,
                 known |-> FALSE]
  BY DEF Transitions
<1>2. f \in versions
  BY DEF IInv, VersionsInv, ActiveGeofencePOIs, TypeOK
<1>3. tr.name = f.name /\ tr.rule = f.rule /\ tr.known = FALSE
  BY <1>1
<1>4. QED
  BY <1>1, <1>2, <1>3 DEF Founded, AppliesTo

\* And stay so when their sides are looked up: a side that is known and has changed
\* is the other one.
LEMMA ChangedFounded ==
  ASSUME IInv, NEW v \in Vehicles, NEW found \in SUBSET Transition,
         \A c \in found : Founded(v, c), NEW tr \in Changed(v, found)
  PROVE  Founded(v, tr)
<1>1. PICK c \in found :
        /\ inside[v][c.name] # Side(c.entered)
        /\ tr = [c EXCEPT !.known = inside[v][c.name] # "unknown"]
  BY DEF Changed
<1>2. c \in Transition /\ c.name \in Names /\ c.entered \in BOOLEAN
  BY DEF Transition
<1>3. /\ tr.name = c.name /\ tr.rule = c.rule /\ tr.entered = c.entered
      /\ tr.known = (inside[v][c.name] # "unknown")
  BY <1>1, <1>2 DEF Transition
<1>4. tr.known => <<v, tr.name, Side(~tr.entered)>> \in recorded
  <2> SUFFICES ASSUME tr.known PROVE <<v, tr.name, Side(~tr.entered)>> \in recorded
    OBVIOUS
  <2>1. inside[v][c.name] # "unknown"
    BY <1>3
  <2>2. inside[v][c.name] \in Sides
    BY <1>2 DEF IInv, TypeOK
  <2>3. inside[v][c.name] = Side(~c.entered)
    BY <1>1, <2>1, <2>2 DEF Side, Sides
  <2>4. QED
    BY <1>2, <1>3, <2>1, <2>3 DEF IInv, RecordedInv
<1>5. PICK f \in versions : f.name = c.name /\ f.rule = c.rule /\ (f.scope = {} \/ v \in f.scope)
  BY <1>1 DEF Founded
<1>6. QED
  BY <1>3, <1>4, <1>5 DEF Founded

LEMMA ContinueWork ==
  ASSUME TypeOK, WorkInv, NEW h \in Handlers, NEW rest,
         \A tr \in rest : Founded(ping[h].vehicle, tr), Continue(h, rest),
         pc[h] # "idle", versions \subseteq versions', recorded \subseteq recorded'
  PROVE  WorkInv'
<1>1. ASSUME NEW g \in Handlers, g # h
      PROVE  /\ pc'[g] = pc[g] /\ ping'[g] = ping[g]
             /\ todo'[g] = todo[g] /\ current'[g] = current[g]
  BY <1>1 DEF Continue, TypeOK
<1>2. todo'[h] = rest /\ current'[h] = {}
  BY DEF Continue, TypeOK
<1>3. CASE rest = {}
  <2>1. pc'[h] = "idle"
    BY <1>3 DEF Continue, TypeOK
  <2>2. QED
    BY <1>1, <1>2, <1>3, <2>1 DEF WorkInv, Founded
<1>4. CASE rest # {}
  <2>1. ping'[h] = ping[h]
    BY <1>4 DEF Continue
  <2>2. \A g \in Handlers : \A tr \in todo'[g] \cup current'[g] : Founded(ping'[g].vehicle, tr)
    BY <1>1, <1>2, <2>1 DEF WorkInv
  <2>3. \A g \in Handlers : \A tr \in todo'[g] \cup current'[g] : Founded(ping[g].vehicle, tr)'
    BY <2>2 DEF Founded
  <2>4. \A g \in Handlers :
          /\ pc'[g] # "idle" => ping'[g].vehicle \in Vehicles
          /\ \A tr \in current'[g] :
               IsReported(tr) /\ <<ping'[g].vehicle, tr.name, Side(tr.entered)>> \in recorded'
    BY <1>1, <1>2, <2>1 DEF WorkInv
  <2>5. QED
    BY <2>3, <2>4 DEF WorkInv
<1>5. QED
  BY <1>3, <1>4

LEMMA ProcessWork ==
  ASSUME IInv, NEW h \in Handlers, NEW ping_ \in Ping, ProcessGeofences(h, ping_)
  PROVE  WorkInv'
<1> DEFINE work == Transitions(ProcessOf[h], ping_)
<1>1. versions' = versions /\ recorded' = recorded
  BY DEF ProcessGeofences
<1>2. /\ pc[h] = "idle"
      /\ pc' = [pc EXCEPT ![h] = "query"] /\ ping' = [ping EXCEPT ![h] = ping_]
      /\ todo' = [todo EXCEPT ![h] = work] /\ current' = current
  BY DEF ProcessGeofences
<1>3. \A tr \in work : Founded(ping_.vehicle, tr)
  BY TransitionsFounded, DataAssumption
<1>4. current[h] = {} /\ ping_.vehicle \in Vehicles
  BY <1>2 DEF IInv, TypeOK, Ping
<1> HIDE DEF work
<1>5. /\ ping'[h] = ping_ /\ todo'[h] = work /\ current'[h] = {}
      /\ \A g \in Handlers \ {h} : pc'[g] = pc[g] /\ ping'[g] = ping[g]
                                  /\ todo'[g] = todo[g] /\ current'[g] = current[g]
  BY <1>2, <1>4 DEF IInv, TypeOK
<1>6. \A g \in Handlers : \A tr \in todo'[g] \cup current'[g] : Founded(ping'[g].vehicle, tr)
  <2>1. ASSUME NEW g \in Handlers \ {h}, NEW tr \in todo[g] \cup current[g]
        PROVE  Founded(ping[g].vehicle, tr)
    BY DEF IInv, WorkInv
  <2>2. ASSUME NEW g \in Handlers, NEW tr \in todo'[g] \cup current'[g]
        PROVE  Founded(ping'[g].vehicle, tr)
    <3>1. CASE g = h
      BY <1>3, <1>5, <2>2, <3>1
    <3>2. CASE g # h
      BY <1>5, <2>1, <2>2, <3>2
    <3>3. QED
      BY <3>1, <3>2
  <2>3. QED
    BY <2>2
<1>7. (\A g \in Handlers : \A tr \in todo[g] \cup current[g] : Founded(ping[g].vehicle, tr))'
  BY <1>1, <1>6 DEF Founded
<1>8. \A g \in Handlers : pc'[g] # "idle" => ping'[g].vehicle \in Vehicles
  BY <1>4, <1>5 DEF IInv, WorkInv
<1>9. (\A g \in Handlers : \A tr \in current[g] :
         IsReported(tr) /\ <<ping[g].vehicle, tr.name, Side(tr.entered)>> \in recorded)'
  <2>1. \A g \in Handlers : \A tr \in current[g] :
          IsReported(tr) /\ <<ping[g].vehicle, tr.name, Side(tr.entered)>> \in recorded
    BY DEF IInv, WorkInv
  <2>2. ASSUME NEW g \in Handlers, NEW tr \in current'[g]
        PROVE  g # h /\ tr \in current[g] /\ ping'[g] = ping[g]
    BY <1>5, <2>2
  <2>3. QED
    BY <1>1, <2>1, <2>2
<1>10. QED
  BY <1>7, <1>8, <1>9 DEF WorkInv

LEMMA QueryWork == ASSUME IInv, NEW h \in Handlers, GeofenceStateFor(h) PROVE WorkInv'
<1> DEFINE v    == ping[h].vehicle
           rest == Changed(v, todo[h])
<1>1. /\ pc[h] # "idle" /\ Continue(h, rest)
      /\ versions \subseteq versions' /\ recorded \subseteq recorded'
  BY DEF GeofenceStateFor
<1>2. v \in Vehicles /\ todo[h] \in SUBSET Transition /\ \A c \in todo[h] : Founded(v, c)
  BY <1>1 DEF IInv, TypeOK, WorkInv
<1>3. \A tr \in rest : Founded(v, tr)
  BY <1>2, ChangedFounded
<1> HIDE DEF rest
<1>4. QED
  BY <1>1, <1>3, ContinueWork DEF IInv

LEMMA SaveWork ==
  ASSUME IInv, NEW h \in Handlers, NEW tr \in todo[h], SaveTransition(h, tr)
  PROVE  WorkInv' /\ RecordedInv'
<1> DEFINE v == ping[h].vehicle
<1>1. v \in Vehicles /\ tr \in Transition /\ tr.name \in Names /\ tr.entered \in BOOLEAN
  BY DEF IInv, TypeOK, WorkInv, SaveTransition, Transition
<1>2. /\ pc[h] = "save" /\ Record(v, tr.name, tr.entered)
      /\ versions' = versions /\ recorded \subseteq recorded'
  BY DEF SaveTransition, Record
<1>3. RecordedInv' /\ <<v, tr.name, Side(tr.entered)>> \in recorded'
  BY <1>1, <1>2, RecordRecorded DEF IInv
<1>4. CASE IsReported(tr)
  <2>1. /\ pc' = [pc EXCEPT ![h] = "insert"] /\ current' = [current EXCEPT ![h] = {tr}]
        /\ todo' = [todo EXCEPT ![h] = todo[h] \ {tr}] /\ ping' = ping
    BY <1>4 DEF SaveTransition
  <2>2. /\ todo'[h] = todo[h] \ {tr} /\ current'[h] = {tr}
        /\ \A g \in Handlers \ {h} : pc'[g] = pc[g] /\ todo'[g] = todo[g] /\ current'[g] = current[g]
    BY <2>1 DEF IInv, TypeOK
  <2>3. \A g \in Handlers : \A x \in todo'[g] \cup current'[g] : Founded(ping[g].vehicle, x)
    BY <2>2 DEF IInv, WorkInv
  <2>4. \A g \in Handlers : \A x \in todo'[g] \cup current'[g] : Founded(ping[g].vehicle, x)'
    BY <1>2, <2>1, <2>3 DEF Founded
  <2>5. \A g \in Handlers : pc'[g] # "idle" => ping'[g].vehicle \in Vehicles
    BY <1>1, <2>1, <2>2 DEF IInv, WorkInv
  <2>6. \A g \in Handlers : \A x \in current'[g] :
          IsReported(x) /\ <<ping'[g].vehicle, x.name, Side(x.entered)>> \in recorded'
    BY <1>2, <1>3, <1>4, <2>1, <2>2 DEF IInv, WorkInv
  <2>7. QED
    BY <1>3, <2>1, <2>4, <2>5, <2>6 DEF WorkInv
<1>5. CASE ~IsReported(tr)
  <2>1. Continue(h, todo[h] \ {tr})
    BY <1>5 DEF SaveTransition
  <2>2. \A x \in todo[h] \ {tr} : Founded(v, x)
    BY DEF IInv, WorkInv
  <2>3. QED
    BY <1>2, <1>3, <2>1, <2>2, ContinueWork DEF IInv
<1>6. QED
  BY <1>4, <1>5

LEMMA FailWork ==
  ASSUME IInv, NEW h \in Handlers, Fail(h) PROVE WorkInv' /\ RecordedInv'
<1>1. RecordedInv'
  <2>1. ASSUME NEW tr \in todo[h], pc[h] = "save", Record(ping[h].vehicle, tr.name, tr.entered)
        PROVE  RecordedInv'
    <3>1. ping[h].vehicle \in Vehicles /\ tr.name \in Names /\ tr.entered \in BOOLEAN
      BY <2>1 DEF IInv, TypeOK, WorkInv, Transition
    <3>2. QED
      BY <2>1, <3>1, RecordRecorded DEF IInv
  <2>2. CASE UNCHANGED <<inside, recorded>>
    BY <2>2, SameRecorded DEF IInv
  <2>3. QED
    BY <2>1, <2>2 DEF Fail
<1>2. /\ Continue(h, {}) /\ pc[h] # "idle"
      /\ versions \subseteq versions' /\ recorded \subseteq recorded'
  BY DEF Fail, Record
<1>3. WorkInv'
  BY <1>2, ContinueWork DEF IInv
<1>4. QED
  BY <1>1, <1>3

\* The event that is inserted is a crossing, and due.
LEMMA InsertDue ==
  ASSUME IInv, NEW h \in Handlers, InsertEvent(h)
  PROVE  WorkInv' /\ EventsAreDue' /\ EventsAreCrossings'
<1> DEFINE v     == ping[h].vehicle
           e(tr) == [vehicle |-> v, key |-> Key[tr.name], ts |-> ping[h].ts, entered |-> tr.entered]
<1>1. PICK tr \in current[h] : events' = events \/ events' = events \cup {e(tr)}
  BY DEF InsertEvent
<1>2. versions' = versions /\ recorded' = recorded /\ pc[h] = "insert" /\ Continue(h, todo[h])
  BY DEF InsertEvent
<1>3. WorkInv'
  <2>1. \A x \in todo[h] : Founded(v, x)
    BY DEF IInv, WorkInv
  <2>2. QED
    BY <1>2, <2>1, ContinueWork DEF IInv
<1>4. /\ tr \in Transition /\ tr.entered \in BOOLEAN /\ tr.rule \in Rules /\ tr.name \in Names
  BY DEF IInv, TypeOK, Transition
<1>5. Founded(v, tr) /\ IsReported(tr) /\ <<v, tr.name, Side(tr.entered)>> \in recorded
  BY DEF IInv, WorkInv
<1>6. EventsAreDue'
  <2>1. Due(tr.rule, tr.entered)
    BY <1>4, <1>5, BreachesAreDue DEF IsReported
  <2>2. PICK f \in versions : f.name = tr.name /\ f.rule = tr.rule /\ (f.scope = {} \/ v \in f.scope)
    BY <1>5 DEF Founded
  <2>3. /\ Key[f.name] = e(tr).key /\ (f.scope = {} \/ e(tr).vehicle \in f.scope)
        /\ Due(f.rule, e(tr).entered)
    BY <2>1, <2>2
  <2>4. \A x \in events : \E g \in versions :
          Key[g.name] = x.key /\ (g.scope = {} \/ x.vehicle \in g.scope) /\ Due(g.rule, x.entered)
    BY DEF IInv, EventsAreDue
  <2> HIDE DEF e
  <2>5. QED
    BY <1>1, <1>2, <2>3, <2>4 DEF EventsAreDue
<1>7. EventsAreCrossings'
  <2>1. <<v, tr.name, Side(~tr.entered)>> \in recorded
    BY <1>5 DEF Founded, IsReported
  <2>2. {Side(tr.entered), Side(~tr.entered)} = {"inside", "outside"}
    BY <1>4 DEF Side
  <2>3. \A side \in {"inside", "outside"} : <<v, tr.name, side>> \in recorded
    BY <1>5, <2>1, <2>2
  <2>4. e(tr).key = Key[tr.name] /\ e(tr).vehicle = v
    OBVIOUS
  <2>5. \A x \in events : \E n \in Names :
          Key[n] = x.key /\ \A side \in {"inside", "outside"} : <<x.vehicle, n, side>> \in recorded
    BY DEF IInv, EventsAreCrossings
  <2> HIDE DEF e
  <2>6. QED
    BY <1>1, <1>2, <1>4, <2>3, <2>4, <2>5 DEF EventsAreCrossings
<1>8. QED
  BY <1>3, <1>6, <1>7

-----------------------------------------------------------------------------
(* The invariant is kept *)

LEMMA SameEvents ==
  ASSUME IInv, events' = events, versions \subseteq versions', recorded \subseteq recorded'
  PROVE  EventsAreDue' /\ EventsAreCrossings'
  BY DEF IInv, EventsAreDue, EventsAreCrossings

LEMMA OperateStep == ASSUME IInv, Operate PROVE IInv'
<1>1. PICK t : DOMAIN t \subseteq Names /\ (\A n \in DOMAIN t : t[n] \in Fence) /\ Write(t)
  BY EditWrites DEF Operate, IInv
<1>2. versions \subseteq versions' /\ recorded \subseteq recorded'
  BY <1>1, Grows DEF IInv
<1>3. UNCHANGED <<inside, recorded, events, handler>>
  BY <1>1 DEF Write
<1>4. TypeOK'
  BY <1>1, TypeWrite DEF IInv
<1>5. VersionsInv' /\ RecordedInv' /\ WorkInv' /\ EventsAreDue' /\ EventsAreCrossings'
  BY <1>1, <1>2, <1>3, WriteVersions, SameRecorded, SameWork, SameEvents DEF IInv
<1>6. QED
  BY <1>4, <1>5 DEF IInv

LEMMA RefreshStep == ASSUME IInv, NEW p \in Processes, Refresh(p) \/ Restart(p) PROVE IInv'
<1>1. versions \subseteq versions' /\ recorded \subseteq recorded'
  BY Grows DEF IInv
<1>2. UNCHANGED <<inside, recorded, events>>
  BY DEF Refresh, FetchGeofencePOIs, SetGeofencePOIsLoaded, RefreshFails, Restart
<1>3. TypeOK'
  BY TypeRefresh, TypeRestart DEF IInv, Refresh
<1>4. WorkInv'
  <2>1. CASE Refresh(p)
    <3>1. UNCHANGED handler
      BY <2>1 DEF Refresh, FetchGeofencePOIs, SetGeofencePOIsLoaded, RefreshFails
    <3>2. QED
      BY <1>1, <3>1, SameWork DEF IInv
  <2>2. CASE Restart(p)
    <3>1. \A h \in Handlers :
            \/ pc'[h] = "idle" /\ todo'[h] = {} /\ current'[h] = {}
            \/ /\ pc'[h] = pc[h] /\ ping'[h] = ping[h]
               /\ todo'[h] = todo[h] /\ current'[h] = current[h]
      BY <2>2 DEF Restart
    <3>2. QED
      BY <1>1, <3>1 DEF IInv, WorkInv, Founded
  <2>3. QED
    BY <2>1, <2>2
<1>5. QED
  BY <1>1, <1>2, <1>3, <1>4, RefreshVersions, SameRecorded, SameEvents DEF IInv

LEMMA HandlerStep ==
  ASSUME IInv, NEW h \in Handlers,
         \/ \E ping_ \in Ping : ProcessGeofences(h, ping_)
         \/ \E tr \in todo[h] : SaveTransition(h, tr)
         \/ GeofenceStateFor(h) \/ InsertEvent(h) \/ Fail(h)
  PROVE  IInv'
<1>1. versions \subseteq versions' /\ recorded \subseteq recorded'
  BY Grows DEF IInv
<1>2. VersionsInv'
  <2>1. UNCHANGED <<config, versions>>
    BY DEF ProcessGeofences, GeofenceStateFor, SaveTransition, InsertEvent, Fail
  <2>2. QED
    BY <2>1, SameVersions DEF IInv
<1>3. ASSUME NEW ping_ \in Ping, ProcessGeofences(h, ping_) PROVE IInv'
  <2>1. UNCHANGED <<inside, recorded, events>>
    BY <1>3 DEF ProcessGeofences
  <2>2. TypeOK' /\ WorkInv'
    BY <1>3, TypeProcess, ProcessWork DEF IInv
  <2>3. QED
    BY <1>1, <1>2, <2>1, <2>2, SameRecorded, SameEvents DEF IInv
<1>4. ASSUME NEW tr \in todo[h], SaveTransition(h, tr) PROVE IInv'
  <2>1. events' = events
    BY <1>4 DEF SaveTransition
  <2>2. TypeOK' /\ WorkInv' /\ RecordedInv'
    BY <1>4, TypeSave, SaveWork DEF IInv
  <2>3. QED
    BY <1>1, <1>2, <2>1, <2>2, SameEvents DEF IInv
<1>5. CASE InsertEvent(h)
  <2>1. UNCHANGED <<inside, recorded>>
    BY <1>5 DEF InsertEvent
  <2>2. TypeOK' /\ WorkInv' /\ EventsAreDue' /\ EventsAreCrossings'
    BY <1>5, TypeInsert, InsertDue DEF IInv
  <2>3. QED
    BY <1>2, <2>1, <2>2, SameRecorded DEF IInv
<1>6. CASE Fail(h)
  <2>1. events' = events
    BY <1>6 DEF Fail
  <2>2. TypeOK' /\ WorkInv' /\ RecordedInv'
    BY <1>6, TypeFail, FailWork DEF IInv
  <2>3. QED
    BY <1>1, <1>2, <2>1, <2>2, SameEvents DEF IInv
<1>7. CASE GeofenceStateFor(h)
  <2>1. UNCHANGED <<inside, recorded, events>>
    BY <1>7 DEF GeofenceStateFor
  <2>2. TypeOK' /\ WorkInv'
    BY <1>7, TypeQuery, QueryWork DEF IInv
  <2>3. QED
    BY <1>1, <1>2, <2>1, <2>2, SameRecorded, SameEvents DEF IInv
<1>8. QED
  BY <1>3, <1>4, <1>5, <1>6, <1>7

LEMMA InvStep == IInv /\ [Next]_vars => IInv'
<1> SUFFICES ASSUME IInv, [Next]_vars PROVE IInv'
  OBVIOUS
<1>1. CASE Operate
  BY <1>1, OperateStep
<1>2. ASSUME NEW p \in Processes, Refresh(p) \/ Restart(p) PROVE IInv'
  BY <1>2, RefreshStep
<1>3. ASSUME NEW h \in Handlers,
             \/ \E ping_ \in Ping : ProcessGeofences(h, ping_)
             \/ \E tr \in todo[h] : SaveTransition(h, tr)
             \/ GeofenceStateFor(h) \/ InsertEvent(h) \/ Fail(h)
      PROVE  IInv'
  BY <1>3, HandlerStep
<1>4. CASE UNCHANGED vars
  <2>1. TypeOK'
    BY <1>4 DEF vars, config, handler, IInv, TypeOK
  <2>2. VersionsInv' /\ RecordedInv' /\ WorkInv' /\ EventsAreDue' /\ EventsAreCrossings'
    <3>1. /\ UNCHANGED <<config, versions>> /\ UNCHANGED <<inside, recorded>> /\ UNCHANGED handler
          /\ events' = events /\ versions \subseteq versions' /\ recorded \subseteq recorded'
      BY <1>4 DEF vars
    <3>2. QED
      BY <3>1, SameVersions, SameRecorded, SameWork, SameEvents DEF IInv
  <2>3. QED
    BY <2>1, <2>2 DEF IInv
<1>5. QED
  BY <1>1, <1>2, <1>3, <1>4 DEF Next, Operate, Refresh

-----------------------------------------------------------------------------
(* One ingest of a vehicle at a time *)

\* Once two ingests have met, or a statement has failed, it stays so.
LEMMA OrderlyBefore == ASSUME TypeOK, [Next]_vars, Orderly' PROVE Orderly /\ ~Fault
<1>1. ~Fault
  BY DEF Fault, Orderly, TypeOK
<1>2. faults' = faults
  BY <1>1 DEF Next, UpsertGeofencePOI, DeleteGeofencePOI, SetGeofenceVehicles,
              RenameGeofencePOI, Write, FetchGeofencePOIs, SetGeofencePOIsLoaded, RefreshFails,
              Restart, ProcessGeofences, GeofenceStateFor, SaveTransition, InsertEvent, Fail, vars
<1>3. overlap => overlap'
  BY <1>1 DEF Next, UpsertGeofencePOI, DeleteGeofencePOI, SetGeofenceVehicles,
              RenameGeofencePOI, Write, FetchGeofencePOIs, SetGeofencePOIsLoaded, RefreshFails,
              Restart, ProcessGeofences, GeofenceStateFor, SaveTransition, InsertEvent, Fail, vars
<1>4. QED
  BY <1>1, <1>2, <1>3 DEF Orderly

\* The recorded side of a name changes for one vehicle and one name.
LEMMA RecordOne ==
  ASSUME TypeOK, NEW v \in Vehicles, NEW n \in Names, NEW entered \in BOOLEAN,
         Record(v, n, entered)
  PROVE  /\ inside'[v][n] = Side(entered)
         /\ \A w \in Vehicles, m \in Names : <<w, m>> # <<v, n>> => inside'[w][m] = inside[w][m]
  BY DEF Record, TypeOK

\* And so does what is told of it.
LEMMA TellOne ==
  ASSUME TypeOK, NEW v \in Vehicles, NEW n \in Names, NEW entered \in BOOLEAN,
         Tell(v, n, entered)
  PROVE  /\ told'[v][n] = Side(entered)
         /\ \A w \in Vehicles, m \in Names : <<w, m>> # <<v, n>> => told'[w][m] = told[w][m]
         /\ \A x : x # <<v, n>> => (x \in dropped' <=> x \in dropped)
  BY DEF Tell, TypeOK

\* A handler's work is its own.
LEMMA ContinueOne ==
  ASSUME TypeOK, NEW h \in Handlers, NEW rest, Continue(h, rest), pc[h] # "idle"
  PROVE  /\ pc'[h] # "insert" /\ (pc'[h] # "idle" => ping'[h] = ping[h])
         /\ \A g \in Handlers \ {h} : pc'[g] = pc[g] /\ ping'[g] = ping[g] /\ current'[g] = current[g]
<1>1. /\ pc'[h] = (IF rest = {} THEN "idle" ELSE "save")
      /\ \A g \in Handlers \ {h} : pc'[g] = pc[g] /\ current'[g] = current[g]
  BY DEF Continue, TypeOK
<1>2. CASE rest = {}
  BY <1>1, <1>2 DEF Continue, TypeOK
<1>3. CASE rest # {}
  BY <1>1, <1>3 DEF Continue
<1>4. QED
  BY <1>2, <1>3

LEMMA SameReports ==
  ASSUME OneEach, ReportInv, UNCHANGED <<handler, inside, told, dropped>>
  PROVE  OneEach' /\ ReportInv'
  BY DEF OneEach, ReportInv, Reports, handler

LEMMA OrderlyProcess ==
  ASSUME IInv, OneEach, ReportInv, Orderly', NEW h \in Handlers, NEW ping_ \in Ping,
         ProcessGeofences(h, ping_)
  PROVE  OneEach' /\ ReportInv'
<1>1. UNCHANGED <<inside, told, dropped>> /\ Busy(ping_.vehicle) = {}
  BY DEF ProcessGeofences, Orderly
<1>2. /\ pc[h] = "idle" /\ pc' = [pc EXCEPT ![h] = "query"]
      /\ ping' = [ping EXCEPT ![h] = ping_] /\ current' = current
  BY DEF ProcessGeofences
<1>3. /\ pc'[h] = "query" /\ ping'[h] = ping_
      /\ \A g \in Handlers \ {h} : pc'[g] = pc[g] /\ ping'[g] = ping[g]
  BY <1>2 DEF IInv, TypeOK
<1>4. \A g \in Handlers \ {h} : ping[g].vehicle # ping_.vehicle
  BY <1>1 DEF Busy
<1>5. OneEach'
  BY <1>3, <1>4 DEF OneEach
<1>6. \A g \in Handlers, v \in Vehicles \cup {NoVehicle}, n \in Names :
        Reports(g, v, n) => g # h /\ Reports(g, v, n)'
  BY <1>1, <1>2, <1>3 DEF Reports
<1>7. \A g \in Handlers : pc'[g] = "insert" => \E n \in Names : Reports(g, ping[g].vehicle, n)'
  <2>1. ASSUME NEW g \in Handlers, pc'[g] = "insert"
        PROVE  \E n \in Names : Reports(g, ping[g].vehicle, n)'
    <3>1. g # h /\ pc[g] = "insert" /\ ping'[g] = ping[g] /\ current'[g] = current[g]
      BY <1>2, <1>3, <2>1
    <3>2. PICK n \in Names : Reports(g, ping[g].vehicle, n)
      BY <3>1 DEF ReportInv
    <3>3. Reports(g, ping[g].vehicle, n)'
      BY <1>1, <2>1, <3>1, <3>2 DEF Reports
    <3>4. QED
      BY <3>3
  <2>2. QED
    BY <2>1
<1>8. QED
  BY <1>1, <1>5, <1>6, <1>7 DEF ReportInv

\* Looking up leaves a handler with nothing to report.
LEMMA OrderlyQuery ==
  ASSUME IInv, OneEach, ReportInv, NEW h \in Handlers, GeofenceStateFor(h)
  PROVE  OneEach' /\ ReportInv'
<1> DEFINE rest == Changed(ping[h].vehicle, todo[h])
<1>1. pc[h] = "query" /\ Continue(h, rest) /\ UNCHANGED <<inside, told, dropped>>
  BY DEF GeofenceStateFor
<1> HIDE DEF rest
<1>2. /\ pc'[h] # "insert" /\ (pc'[h] # "idle" => ping'[h] = ping[h])
      /\ \A g \in Handlers \ {h} : pc'[g] = pc[g] /\ ping'[g] = ping[g] /\ current'[g] = current[g]
  BY <1>1, ContinueOne DEF IInv
<1>3. OneEach'
  <2>1. \A g \in Handlers : pc'[g] # "idle" => pc[g] # "idle" /\ ping'[g] = ping[g]
    BY <1>1, <1>2
  <2>2. QED
    BY <2>1 DEF OneEach
<1>4. \A g \in Handlers, w \in Vehicles, n \in Names :
        Reports(g, w, n) => g # h /\ Reports(g, w, n)'
  BY <1>1, <1>2 DEF Reports
<1>5. ASSUME NEW g \in Handlers, pc'[g] = "insert"
      PROVE  \E n \in Names : Reports(g, ping[g].vehicle, n)' /\ ping'[g] = ping[g]
  <2>1. g # h /\ pc[g] = "insert" /\ ping[g].vehicle \in Vehicles
    BY <1>2, <1>5 DEF IInv, WorkInv
  <2>2. PICK n \in Names : Reports(g, ping[g].vehicle, n)
    BY <2>1 DEF ReportInv
  <2>3. QED
    BY <1>2, <1>4, <2>1, <2>2
<1>6. \A v \in Vehicles, n \in Names :
        \/ told'[v][n] = inside'[v][n] \/ <<v, n>> \in dropped'
        \/ \E g \in Handlers : Reports(g, v, n)'
  BY <1>1, <1>4 DEF ReportInv
<1>7. QED
  BY <1>3, <1>5, <1>6 DEF ReportInv

\* What a handler reports stays so while others work on other vehicles.
LEMMA ReportsStay ==
  ASSUME NEW g, NEW v, NEW n, Reports(g, v, n), pc'[g] = pc[g], ping'[g] = ping[g],
         current'[g] = current[g], inside'[v][n] = inside[v][n]
  PROVE  Reports(g, v, n)'
  BY DEF Reports

LEMMA OrderlySave ==
  ASSUME IInv, OneEach, ReportInv, Orderly, NEW h \in Handlers, NEW tr \in todo[h],
         SaveTransition(h, tr)
  PROVE  OneEach' /\ ReportInv'
<1> DEFINE v == ping[h].vehicle
<1>1. /\ v \in Vehicles /\ tr.name \in Names /\ tr.entered \in BOOLEAN /\ tr.rule \in Rules
      /\ pc[h] = "save" /\ Record(v, tr.name, tr.entered)
  BY DEF IInv, TypeOK, WorkInv, SaveTransition, Transition
<1>2. /\ inside'[v][tr.name] = Side(tr.entered)
      /\ \A w \in Vehicles, m \in Names :
           <<w, m>> # <<v, tr.name>> => inside'[w][m] = inside[w][m]
  BY <1>1, RecordOne DEF IInv
<1>3. /\ pc'[h] # "idle" => ping'[h] = ping[h]
      /\ \A g \in Handlers \ {h} : pc'[g] = pc[g] /\ ping'[g] = ping[g] /\ current'[g] = current[g]
      /\ IF IsReported(tr)
         THEN pc'[h] = "insert" /\ current'[h] = {tr} /\ UNCHANGED <<told, dropped>>
         ELSE pc'[h] # "insert" /\ Tell(v, tr.name, tr.entered)
  <2>1. CASE IsReported(tr)
    <3>1. /\ pc' = [pc EXCEPT ![h] = "insert"] /\ current' = [current EXCEPT ![h] = {tr}]
          /\ ping' = ping
      BY <2>1 DEF SaveTransition
    <3>2. tr.known /\ Due(tr.rule, tr.entered)
      BY <1>1, <2>1, BreachesAreDue DEF IsReported
    <3>3. UNCHANGED <<told, dropped>>
      BY <3>2 DEF SaveTransition
    <3>4. QED
      BY <2>1, <3>1, <3>3 DEF IInv, TypeOK
  <2>2. CASE ~IsReported(tr)
    <3>1. Continue(h, todo[h] \ {tr})
      BY <2>2 DEF SaveTransition
    <3>2. ~(tr.known /\ Due(tr.rule, tr.entered))
      BY <1>1, <2>2, BreachesAreDue DEF IsReported
    <3>3. Tell(v, tr.name, tr.entered)
      BY <3>2 DEF SaveTransition
    <3>4. QED
      BY <1>1, <2>2, <3>1, <3>3, ContinueOne DEF IInv
  <2>3. QED
    BY <2>1, <2>2
<1>4. OneEach'
  <2>1. \A g \in Handlers : pc'[g] # "idle" => pc[g] # "idle" /\ ping'[g] = ping[g]
    BY <1>1, <1>3
  <2>2. QED
    BY <2>1 DEF OneEach
<1>5. ASSUME NEW g \in Handlers \ {h}, NEW m \in Names, Reports(g, ping[g].vehicle, m)
      PROVE  Reports(g, ping[g].vehicle, m)' /\ ping[g].vehicle # v
  <2>1. pc[g] # "idle"
    BY <1>5 DEF Reports
  <2>2. ping[g].vehicle # v
    BY <1>1, <2>1 DEF OneEach
  <2>3. ping[g].vehicle \in Vehicles
    BY <2>1 DEF IInv, WorkInv
  <2>4. inside'[ping[g].vehicle][m] = inside[ping[g].vehicle][m]
    BY <1>2, <2>2, <2>3
  <2>5. QED
    BY <1>3, <1>5, <2>2, <2>4, ReportsStay
<1>6. IsReported(tr) => Reports(h, v, tr.name)'
  BY <1>2, <1>3 DEF Reports
<1>7. ASSUME NEW g \in Handlers, pc'[g] = "insert"
      PROVE  \E m \in Names : Reports(g, ping[g].vehicle, m)' /\ ping'[g] = ping[g]
  <2>1. CASE g = h
    BY <1>1, <1>3, <1>6, <1>7, <2>1
  <2>2. CASE g # h
    <3>1. PICK m \in Names : Reports(g, ping[g].vehicle, m)
      BY <1>3, <1>7, <2>2 DEF ReportInv
    <3>2. QED
      BY <1>3, <1>5, <2>2, <3>1
  <2>3. QED
    BY <2>1, <2>2
<1>8. ASSUME NEW w \in Vehicles, NEW m \in Names
      PROVE  \/ told'[w][m] = inside'[w][m] \/ <<w, m>> \in dropped'
             \/ \E g \in Handlers : Reports(g, w, m)'
  <2>1. CASE <<w, m>> = <<v, tr.name>>
    BY <1>1, <1>2, <1>3, <1>6, <2>1, TellOne DEF IInv
  <2>2. CASE <<w, m>> # <<v, tr.name>>
    <3>1. told'[w][m] = told[w][m] /\ (<<w, m>> \in dropped' <=> <<w, m>> \in dropped)
      BY <1>1, <1>3, <2>2, TellOne DEF IInv
    <3>2. inside'[w][m] = inside[w][m]
      BY <1>2, <2>2
    <3>3. CASE \E g \in Handlers : Reports(g, w, m)
      <4>1. PICK g \in Handlers : Reports(g, w, m)
        BY <3>3
      <4>2. g # h /\ w = ping[g].vehicle
        BY <1>1, <4>1 DEF Reports
      <4>3. Reports(g, ping[g].vehicle, m)' /\ w = ping'[g].vehicle
        BY <1>3, <1>5, <4>1, <4>2
      <4>4. QED
        BY <4>3
    <3>4. CASE told[w][m] = inside[w][m] \/ <<w, m>> \in dropped
      BY <3>1, <3>2, <3>4
    <3>5. QED
      BY <3>3, <3>4 DEF ReportInv
  <2>3. QED
    BY <2>1, <2>2
<1>9. QED
  BY <1>4, <1>7, <1>8 DEF ReportInv

\* The event tells what is recorded, or its id is taken.
LEMMA OrderlyInsert ==
  ASSUME IInv, OneEach, ReportInv, Orderly, NEW h \in Handlers, InsertEvent(h)
  PROVE  OneEach' /\ ReportInv'
<1> DEFINE v == ping[h].vehicle
<1>1. PICK tr \in current[h] :
        \/ Tell(v, tr.name, tr.entered)
        \/ dropped' = dropped \cup {<<v, tr.name>>} /\ UNCHANGED told
  BY DEF InsertEvent
<1>2. /\ v \in Vehicles /\ tr.name \in Names /\ tr.entered \in BOOLEAN
      /\ pc[h] = "insert" /\ inside' = inside /\ Continue(h, todo[h])
  BY DEF IInv, TypeOK, WorkInv, InsertEvent, Transition
<1>3. /\ pc'[h] # "insert" /\ (pc'[h] # "idle" => ping'[h] = ping[h])
      /\ \A g \in Handlers \ {h} : pc'[g] = pc[g] /\ ping'[g] = ping[g] /\ current'[g] = current[g]
  BY <1>2, ContinueOne DEF IInv
<1>4. \A n \in Names : Reports(h, v, n) => n = tr.name /\ inside[v][n] = Side(tr.entered)
  BY DEF Reports
<1>5. inside[v][tr.name] = Side(tr.entered)
  BY <1>2, <1>4 DEF ReportInv
<1>6. OneEach'
  <2>1. \A g \in Handlers : pc'[g] # "idle" => pc[g] # "idle" /\ ping'[g] = ping[g]
    BY <1>2, <1>3
  <2>2. QED
    BY <2>1 DEF OneEach
<1>7. \A g \in Handlers \ {h}, w \in Vehicles, n \in Names : Reports(g, w, n) => Reports(g, w, n)'
  BY <1>2, <1>3 DEF Reports
<1>8. ASSUME NEW g \in Handlers, pc'[g] = "insert"
      PROVE  \E n \in Names : Reports(g, ping[g].vehicle, n)' /\ ping'[g] = ping[g]
  <2>1. g # h /\ pc[g] = "insert" /\ ping[g].vehicle \in Vehicles
    BY <1>3, <1>8 DEF IInv, WorkInv
  <2>2. PICK n \in Names : Reports(g, ping[g].vehicle, n)
    BY <2>1 DEF ReportInv
  <2>3. QED
    BY <1>3, <1>7, <2>1, <2>2
<1>9. ASSUME NEW w \in Vehicles, NEW m \in Names
      PROVE  \/ told'[w][m] = inside'[w][m] \/ <<w, m>> \in dropped'
             \/ \E g \in Handlers : Reports(g, w, m)'
  <2>1. CASE <<w, m>> = <<v, tr.name>>
    BY <1>1, <1>2, <1>5, <2>1, TellOne DEF IInv
  <2>2. CASE <<w, m>> # <<v, tr.name>>
    <3>1. told'[w][m] = told[w][m] /\ (<<w, m>> \in dropped' <=> <<w, m>> \in dropped)
      BY <1>1, <1>2, <2>2, TellOne DEF IInv
    <3>2. \A g \in Handlers : Reports(g, w, m) => g # h
      BY <1>4, <2>2 DEF Reports
    <3>3. QED
      BY <1>2, <1>7, <3>1, <3>2 DEF ReportInv
  <2>3. QED
    BY <2>1, <2>2
<1>10. QED
  BY <1>6, <1>8, <1>9 DEF ReportInv

LEMMA OrderlyStep == IInv /\ OrderlyInv /\ [Next]_vars => OrderlyInv'
<1> SUFFICES ASSUME IInv, OrderlyInv, [Next]_vars, Orderly' PROVE OneEach' /\ ReportInv'
  BY DEF OrderlyInv
<1>1. Orderly /\ ~Fault
  BY OrderlyBefore DEF IInv
<1>2. OneEach /\ ReportInv
  BY <1>1 DEF OrderlyInv
<1>3. CASE Operate
  <2>1. PICK t : Write(t)
    BY <1>3, EditWrites DEF Operate, IInv
  <2>2. QED
    BY <1>2, <2>1, SameReports DEF Write
<1>4. ASSUME NEW p \in Processes, Refresh(p) \/ Restart(p) PROVE OneEach' /\ ReportInv'
  <2>1. FetchGeofencePOIs(p) \/ SetGeofencePOIsLoaded(p)
    BY <1>1, <1>4 DEF Refresh, RefreshFails, Restart
  <2>2. UNCHANGED <<handler, inside, told, dropped>>
    BY <2>1 DEF FetchGeofencePOIs, SetGeofencePOIsLoaded
  <2>3. QED
    BY <1>2, <2>2, SameReports
<1>5. ASSUME NEW h \in Handlers,
             \/ \E ping_ \in Ping : ProcessGeofences(h, ping_)
             \/ \E tr \in todo[h] : SaveTransition(h, tr)
             \/ GeofenceStateFor(h) \/ InsertEvent(h) \/ Fail(h)
      PROVE  OneEach' /\ ReportInv'
  <2>1. ~Fail(h)
    BY <1>1 DEF Fail
  <2>2. QED
    BY <1>1, <1>2, <1>5, <2>1, OrderlyProcess, OrderlyQuery, OrderlySave, OrderlyInsert
<1>6. CASE UNCHANGED vars
  BY <1>2, <1>6, SameReports DEF vars
<1>7. QED
  BY <1>3, <1>4, <1>5, <1>6 DEF Next, Operate, Refresh

LEMMA OrderlyInit == Init => OrderlyInv
  BY DEF Init, OrderlyInv, OneEach, ReportInv, Nothing

-----------------------------------------------------------------------------
(* The theorems *)

LEMMA Inductive == Spec => []IInv
<1>1. Init => IInv
  BY TypeInit, InvInit DEF IInv
<1>2. QED
  BY <1>1, InvStep, PTL DEF Spec

\* Every variable of GeofenceMonitor keeps its type, and an idle handler has
\* nothing left to do.
THEOREM TypeCorrect == Spec => []TypeOK
<1>1. IInv => TypeOK
  BY DEF IInv
<1>2. QED
  BY <1>1, Inductive, PTL

\* Whatever edits, refreshes, restarts and ingests interleave, each safety event
\* belongs to a fence that was in force for its vehicle, with a rule that calls
\* for it, and is a crossing: both sides have been recorded of its vehicle, so a
\* first observation never raises one.
THEOREM NoUndueEvent == Spec => []EventsAreTrue
<1>1. IInv => EventsAreTrue
  BY DEF IInv, EventsAreTrue
<1>2. QED
  BY <1>1, Inductive, PTL

\* No crossing is forgotten, by edits, refreshes or pings of other vehicles: while ingests
\* of a vehicle come one at a time and nothing fails, whenever nobody is at work the side
\* that follows from the events is the recorded one, but where the id of the last
\* crossing's event was taken.
THEOREM NoCrossingForgotten == Spec => []CrossingsAreReported
<1>1. Init => IInv /\ OrderlyInv
  BY TypeInit, InvInit, OrderlyInit DEF IInv
<1>2. IInv /\ OrderlyInv /\ [Next]_vars => (IInv /\ OrderlyInv)'
  BY InvStep, OrderlyStep
<1>3. OrderlyInv => CrossingsAreReported
  BY DEF OrderlyInv, ReportInv, Reports, CrossingsAreReported, Quiet
<1>4. QED
  BY <1>1, <1>2, <1>3, PTL DEF Spec
=============================================================================
