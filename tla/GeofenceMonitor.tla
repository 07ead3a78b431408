---------------------------- MODULE GeofenceMonitor ----------------------------
(***************************************************************************)
(* Geofences: the fences an operator keeps in geofence_pois, the set each  *)
(* gateway process evaluates (iot/geofence_pois.go), and the crossings it  *)
(* records and reports for every ingest (iot/geofence.go).                 *)
(*                                                                         *)
(* A process reloads its set now and then; until a load has succeeded it   *)
(* uses a built-in one.  An ingest compares its newest ping with the set   *)
(* in force, then reads what is recorded of the vehicle in one query, then *)
(* for every fence that has changed sides saves the side and, if the rule  *)
(* calls for it, inserts a safety event: statements without a transaction. *)
(***************************************************************************)
EXTENDS Integers

CONSTANTS
  Vehicles,     \* vehicles that send pings
  NoVehicle,    \* a handler that has no ping
  Names,        \* names of fences: the key of geofence_pois
  Key,          \* geofencePOIKey of each name, part of an event's id
  Places,       \* circles: a fence's centre and radius
  Scopes,       \* sets of vehicles a fence may be assigned to
  Times,        \* device timestamps, in seconds
  Default,      \* DefaultGeofencePOIs
  Configured,   \* the fences in the table at the beginning
  Processes,    \* gateway and ingest processes
  Refreshing,   \* those that load the table
  Handlers,     \* goroutines that ingest
  ProcessOf,    \* the process of each
  MaxEdits,     \* bound: how many edits an operator makes
  MaxFaults     \* bound: how many statements may fail

Rules == {"watch", "stay_inside", "no_entry"}
Fence == [place : Places, rule : Rules, active : BOOLEAN, scope : Scopes]
POI   == [name : Names, place : Places, rule : Rules, scope : Scopes]

ASSUME DataAssumption ==
  /\ {} \in Scopes /\ NoVehicle \notin Vehicles
  /\ Default \subseteq POI /\ Configured \subseteq POI
  /\ DOMAIN Key = Names /\ Times \subseteq Nat
  /\ Refreshing \subseteq Processes /\ ProcessOf \in [Handlers -> Processes]
  /\ MaxEdits \in Nat /\ MaxFaults \in Nat

VARIABLES
  pois,      \* geofence_pois with geofence_vehicles: the fence of each name in use
  active,    \* activePOIs of each process
  loaded,    \* poisLoaded of each process
  fetched,   \* the rows a refresh has read and not yet installed
  fetching,  \* the processes with such a refresh
  inside,    \* vehicle_geofence_state: the side recorded of each vehicle and name
  events,    \* safety_events
  pc,        \* where each handler is in ApplyGeofenceTransitions
  ping,      \* its ping
  todo,      \* the transitions it has still to look up, or to save
  current,   \* the transition it has saved and not reported
  versions,  \* history: every fence that was in force
  recorded,  \* history: every side that was recorded
  told,      \* history: the side that follows from the events
  dropped,   \* history: names whose last crossing had an id that was taken
  overlap,   \* history: two handlers have worked on one vehicle at once
  edits,
  faults

config  == <<pois, active, loaded, fetched, fetching, edits>>
handler == <<pc, ping, todo, current>>
vars    == <<config, inside, events, handler, versions, recorded, told, dropped,
             overlap, faults>>

Sides      == {"inside", "outside", "unknown"}
\* fix: the position is not (0,0), which stands for none.
Ping       == [vehicle : Vehicles, ts : Times, at : SUBSET Places, fix : BOOLEAN]
NoPing     == [vehicle |-> NoVehicle, ts |-> 0, at |-> {}, fix |-> FALSE]
Transition == [name : Names, entered : BOOLEAN, rule : Rules, known : BOOLEAN]
Event      == [vehicle : Vehicles, key : {Key[n] : n \in Names}, ts : Times, entered : BOOLEAN]

\* Ingests have come one at a time and without errors; told and dropped are
\* about such runs, and end with them.
Orderly == ~overlap /\ faults = 0

Nothing == [v \in Vehicles |-> [n \in Names |-> "unknown"]]

Fault ==
  /\ faults < MaxFaults
  /\ faults' = faults + 1
  /\ told' = Nothing /\ dropped' = {}

Edit  == edits < MaxEdits /\ edits' = edits + 1

Side(entered) == IF entered THEN "inside" ELSE "outside"

POIOf(n, f) == [name |-> n, place |-> f.place, rule |-> f.rule, scope |-> f.scope]

-----------------------------------------------------------------------------
(* The operator's table *)

\* The active rows, with their assignments, as LoadGeofencePOIs reads them.
LoadGeofencePOIs == {POIOf(n, pois[n]) : n \in {m \in DOMAIN pois : pois[m].active}}

\* The table becomes t.
Write(t) ==
  /\ Edit
  /\ pois' = t
  /\ versions' = versions \cup {POIOf(n, t[n]) : n \in {m \in DOMAIN t : t[m].active}}
  /\ UNCHANGED <<active, loaded, fetched, fetching, inside, events, handler, recorded,
                 told, dropped, overlap, faults>>

\* Assignments are rows of another table: an upsert leaves them.
UpsertGeofencePOI(n, place, rule, on) ==
  LET scope == IF n \in DOMAIN pois THEN pois[n].scope ELSE {}
      fence == [place |-> place, rule |-> rule, active |-> on, scope |-> scope]
  IN Write([m \in DOMAIN pois \cup {n} |-> IF m = n THEN fence ELSE pois[m]])

DeleteGeofencePOI(n) ==
  /\ n \in DOMAIN pois
  /\ Write([m \in DOMAIN pois \ {n} |-> pois[m]])

\* One transaction: nobody sees the fence without assignments in between.
SetGeofenceVehicles(n, scope) ==
  /\ n \in DOMAIN pois
  /\ Write([pois EXCEPT ![n].scope = scope])

\* The assignments follow the name; what is recorded of vehicles does not.
RenameGeofencePOI(from, to) ==
  /\ from \in DOMAIN pois /\ to \notin DOMAIN pois
  /\ Write([m \in (DOMAIN pois \ {from}) \cup {to} |->
              IF m = to THEN pois[from] ELSE pois[m]])

-----------------------------------------------------------------------------
(* The set in force *)

\* Built in, until a load has succeeded.
ActiveGeofencePOIs(p) == IF active[p] # {} \/ loaded[p] THEN active[p] ELSE Default

\* The periodic refresh, or the one at start, reads the table.
FetchGeofencePOIs(p) ==
  /\ p \in Refreshing \ fetching
  /\ fetching' = fetching \cup {p}
  /\ fetched' = [fetched EXCEPT ![p] = LoadGeofencePOIs]
  /\ UNCHANGED <<pois, active, loaded, inside, events, handler, versions, recorded,
                 told, dropped, overlap, edits, faults>>

\* Mutant of SetGeofencePOIsLoaded: an empty result is taken for no answer.
SetGeofencePOIsNonEmpty(p) ==
  /\ p \in fetching
  /\ active' = IF fetched[p] = {} THEN active ELSE [active EXCEPT ![p] = fetched[p]]
  /\ loaded' = [loaded EXCEPT ![p] = TRUE]
  /\ fetching' = fetching \ {p}
  /\ fetched' = [fetched EXCEPT ![p] = {}]
  /\ UNCHANGED <<pois, inside, events, handler, versions, recorded, told, dropped,
                 overlap, edits, faults>>

\* It has succeeded: its result is in force, empty or not.
SetGeofencePOIsLoaded(p) ==
  /\ p \in fetching
  /\ active' = [active EXCEPT ![p] = fetched[p]]
  /\ loaded' = [loaded EXCEPT ![p] = TRUE]
  /\ fetching' = fetching \ {p}
  /\ fetched' = [fetched EXCEPT ![p] = {}]
  /\ UNCHANGED <<pois, inside, events, handler, versions, recorded, told, dropped,
                 overlap, edits, faults>>

\* It has failed: the previous set stays.
RefreshFails(p) ==
  /\ Fault
  /\ p \in fetching
  /\ fetching' = fetching \ {p}
  /\ fetched' = [fetched EXCEPT ![p] = {}]
  /\ UNCHANGED <<pois, active, loaded, inside, events, handler, versions, recorded,
                 overlap, edits>>

\* The process restarts with nothing loaded; its ingests are gone.
Restart(p) ==
  /\ Fault
  /\ active' = [active EXCEPT ![p] = {}]
  /\ loaded' = [loaded EXCEPT ![p] = FALSE]
  /\ fetching' = fetching \ {p}
  /\ fetched' = [fetched EXCEPT ![p] = {}]
  /\ LET H == {h \in Handlers : ProcessOf[h] = p} IN
     /\ pc' = [h \in Handlers |-> IF h \in H THEN "idle" ELSE pc[h]]
     /\ ping' = [h \in Handlers |-> IF h \in H THEN NoPing ELSE ping[h]]
     /\ todo' = [h \in Handlers |-> IF h \in H THEN {} ELSE todo[h]]
     /\ current' = [h \in Handlers |-> IF h \in H THEN {} ELSE current[h]]
  /\ UNCHANGED <<pois, inside, events, versions, recorded, overlap, edits>>

-----------------------------------------------------------------------------
(* An ingest's newest ping *)

\* Mutant of AppliesTo: assignments are not looked at.
AppliesToAll(f, v) == TRUE

AppliesTo(f, v) == f.scope = {} \/ v \in f.scope

\* Mutant of Breaches: a crossing of a scoped area counts in both directions.
BreachesBothWays(rule, entered) == TRUE

Breaches(rule, entered) ==
  CASE rule = "stay_inside" -> ~entered
    [] rule = "no_entry"    -> entered
    [] OTHER                -> TRUE

\* Where the vehicle is of each fence in force that is for it; whether that side is
\* known is not looked up yet.
Transitions(p, ping_) ==
  {[name |-> f.name, entered |-> f.place \in ping_.at, rule |-> f.rule, known |-> FALSE] :
     f \in {g \in ActiveGeofencePOIs(p) : AppliesTo(g, ping_.vehicle)}}

Busy(v) == {h \in Handlers : ping[h].vehicle = v}

\* Without a fix, or a fence, the ingest leaves the geofences alone.
ProcessGeofences(h, ping_) ==
  LET found == Transitions(ProcessOf[h], ping_) IN
  /\ pc[h] = "idle" /\ ping_.fix /\ found # {}
  /\ pc' = [pc EXCEPT ![h] = "query"]
  /\ ping' = [ping EXCEPT ![h] = ping_]
  /\ todo' = [todo EXCEPT ![h] = found]
  /\ overlap' = (overlap \/ Busy(ping_.vehicle) # {})
  /\ IF overlap' THEN told' = Nothing /\ dropped' = {} ELSE UNCHANGED <<told, dropped>>
  /\ UNCHANGED <<config, inside, events, current, versions, recorded, faults>>

\* The handler goes on with the transitions in rest, or returns.
Continue(h, rest) ==
  /\ pc' = [pc EXCEPT ![h] = IF rest = {} THEN "idle" ELSE "save"]
  /\ ping' = IF rest = {} THEN [ping EXCEPT ![h] = NoPing] ELSE ping
  /\ todo' = [todo EXCEPT ![h] = rest]
  /\ current' = [current EXCEPT ![h] = {}]

\* The one query for what is recorded; a fence whose side has not changed needs
\* nothing.
Changed(v, found) ==
  {[tr EXCEPT !.known = inside[v][tr.name] # "unknown"] :
     tr \in {c \in found : inside[v][c.name] # Side(c.entered)}}

GeofenceStateFor(h) ==
  /\ pc[h] = "query"
  /\ Continue(h, Changed(ping[h].vehicle, todo[h]))
  /\ UNCHANGED <<config, inside, events, versions, recorded, told, dropped, overlap, faults>>

Record(v, n, entered) ==
  /\ inside' = [inside EXCEPT ![v][n] = Side(entered)]
  /\ recorded' = recorded \cup {<<v, n, Side(entered)>>}

\* What a rule says of a crossing, in the properties' words.
Due(rule, entered) ==
  /\ rule = "stay_inside" => ~entered
  /\ rule = "no_entry" => entered

\* Mutant of IsReported: the first observation counts as a crossing.
IsReportedUnknown(tr) == Breaches(tr.rule, tr.entered)

\* The first observation of a fence is recorded silently.
IsReported(tr) == tr.known /\ Breaches(tr.rule, tr.entered)

\* A side becomes known from what is reported, or needs no report.
Tell(v, n, entered) ==
  /\ told' = [told EXCEPT ![v][n] = Side(entered)]
  /\ dropped' = dropped \ {<<v, n>>}

\* upsertGeofenceState for one of the transitions.
SaveTransition(h, tr) ==
  LET v == ping[h].vehicle IN
  /\ pc[h] = "save" /\ tr \in todo[h]
  /\ Record(v, tr.name, tr.entered)
  /\ IF IsReported(tr)
     THEN /\ pc' = [pc EXCEPT ![h] = "insert"]
          /\ current' = [current EXCEPT ![h] = {tr}]
          /\ todo' = [todo EXCEPT ![h] = todo[h] \ {tr}]
          /\ UNCHANGED ping
     ELSE Continue(h, todo[h] \ {tr})
  /\ IF ~Orderly \/ (tr.known /\ Due(tr.rule, tr.entered)) THEN UNCHANGED <<told, dropped>>
     ELSE Tell(v, tr.name, tr.entered)
  /\ UNCHANGED <<config, events, versions, overlap, faults>>

\* Mutant of InsertEvent: the event of a crossing that is not new is refused.
InsertFirstEvent(h) ==
  LET v == ping[h].vehicle IN
  /\ pc[h] = "insert"
  /\ \E tr \in current[h] :
       LET e     == [vehicle |-> v, key |-> Key[tr.name], ts |-> ping[h].ts, entered |-> tr.entered]
           taken == \E x \in events : x.vehicle = v /\ x.key = e.key
       IN /\ events' = IF taken THEN events ELSE events \cup {e}
          /\ IF taken \/ ~Orderly THEN UNCHANGED <<told, dropped>>
             ELSE Tell(v, tr.name, tr.entered)
  /\ Continue(h, todo[h])
  /\ UNCHANGED <<config, inside, versions, recorded, overlap, faults>>

\* insertGeofenceSafetyEvent: the id is made of vehicle, key and second; a row
\* that has it already stays.
InsertEvent(h) ==
  LET v == ping[h].vehicle IN
  /\ pc[h] = "insert"
  /\ \E tr \in current[h] :
       LET e     == [vehicle |-> v, key |-> Key[tr.name], ts |-> ping[h].ts, entered |-> tr.entered]
           taken == \E x \in events : x.vehicle = v /\ x.key = e.key /\ x.ts = e.ts
       IN /\ events' = IF taken THEN events ELSE events \cup {e}
          /\ IF ~Orderly THEN UNCHANGED <<told, dropped>>
             ELSE IF taken THEN dropped' = dropped \cup {<<v, tr.name>>} /\ UNCHANGED told
             ELSE Tell(v, tr.name, tr.entered)
  /\ Continue(h, todo[h])
  /\ UNCHANGED <<config, inside, versions, recorded, overlap, faults>>

\* Mutant of Fail: an error does not end the loop.
FailGoesOn(h) ==
  /\ Fault
  /\ pc[h] # "idle"
  /\ pc' = [pc EXCEPT ![h] = "idle"]
  /\ UNCHANGED <<config, inside, events, ping, todo, current, versions, recorded, overlap>>

\* A statement fails, in time or after it was done: the rest of the transitions
\* is not saved.  The caller only warns.
Fail(h) ==
  /\ Fault
  /\ \/ pc[h] = "save" /\ \E tr \in todo[h] : Record(ping[h].vehicle, tr.name, tr.entered)
     \/ pc[h] # "idle" /\ UNCHANGED <<inside, recorded>>
  /\ Continue(h, {})
  /\ UNCHANGED <<config, events, versions, overlap>>

-----------------------------------------------------------------------------

Init ==
  /\ pois = [n \in {f.name : f \in Configured} |->
               LET f == CHOOSE g \in Configured : g.name = n
               IN [place |-> f.place, rule |-> f.rule, active |-> TRUE, scope |-> f.scope]]
  /\ active = [p \in Processes |-> {}]
  /\ loaded = [p \in Processes |-> FALSE]
  /\ fetched = [p \in Processes |-> {}]
  /\ fetching = {}
  /\ inside = [v \in Vehicles |-> [n \in Names |-> "unknown"]]
  /\ events = {}
  /\ pc = [h \in Handlers |-> "idle"]
  /\ ping = [h \in Handlers |-> NoPing]
  /\ todo = [h \in Handlers |-> {}]
  /\ current = [h \in Handlers |-> {}]
  /\ versions = Default \cup LoadGeofencePOIs
  /\ recorded = {} /\ told = Nothing /\ dropped = {}
  /\ overlap = FALSE /\ edits = 0 /\ faults = 0

Next ==
  \/ \E n \in Names, place \in Places, rule \in Rules, on \in BOOLEAN :
       UpsertGeofencePOI(n, place, rule, on)
  \/ \E n \in Names : DeleteGeofencePOI(n)
  \/ \E n \in Names, scope \in Scopes : SetGeofenceVehicles(n, scope)
  \/ \E from, to \in Names : RenameGeofencePOI(from, to)
  \/ \E p \in Processes :
       FetchGeofencePOIs(p) \/ SetGeofencePOIsLoaded(p) \/ RefreshFails(p) \/ Restart(p)
  \/ \E h \in Handlers :
       \/ \E ping_ \in Ping : ProcessGeofences(h, ping_)
       \/ \E tr \in todo[h] : SaveTransition(h, tr)
       \/ GeofenceStateFor(h) \/ InsertEvent(h) \/ Fail(h)

Spec == Init /\ [][Next]_vars

\* The refresh runs on a ticker.
Fairness == \A p \in Processes : WF_vars(FetchGeofencePOIs(p)) /\ WF_vars(SetGeofencePOIsLoaded(p))

FairSpec == Spec /\ Fairness

-----------------------------------------------------------------------------
(* Properties *)

\* Every variable has its type, and an idle handler has nothing left to do.
TypeOK ==
  /\ DOMAIN pois \subseteq Names /\ \A n \in DOMAIN pois : pois[n] \in Fence
  /\ active \in [Processes -> SUBSET POI]
  /\ loaded \in [Processes -> BOOLEAN]
  /\ fetched \in [Processes -> SUBSET POI]
  /\ fetching \subseteq Refreshing
  /\ inside \in [Vehicles -> [Names -> Sides]]
  /\ events \subseteq Event
  /\ pc \in [Handlers -> {"idle", "query", "save", "insert"}]
  /\ ping \in [Handlers -> Ping \cup {NoPing}]
  /\ todo \in [Handlers -> SUBSET Transition]
  /\ current \in [Handlers -> SUBSET Transition]
  /\ \A h \in Handlers : pc[h] = "idle" => ping[h] = NoPing /\ todo[h] = {} /\ current[h] = {}
  /\ versions \subseteq POI
  /\ recorded \subseteq Vehicles \X Names \X Sides
  /\ told \in [Vehicles -> [Names -> Sides]]
  /\ dropped \subseteq Vehicles \X Names
  /\ overlap \in BOOLEAN
  /\ edits \in 0 .. MaxEdits
  /\ faults \in 0 .. MaxFaults

\* The event's fence was at some time assigned to the vehicle with a rule that calls
\* for it.
EventsAreDue ==
  \A e \in events : \E f \in versions :
    /\ Key[f.name] = e.key
    /\ f.scope = {} \/ e.vehicle \in f.scope
    /\ Due(f.rule, e.entered)

\* The vehicle had been recorded on the other side, and on this one.
EventsAreCrossings ==
  \A e \in events : \E n \in Names :
    Key[n] = e.key /\ \A side \in {"inside", "outside"} : <<e.vehicle, n, side>> \in recorded

\* Nobody is told of a crossing that the fences do not make one, nor of a first
\* sighting, whatever edits, refreshes and ingests interleave (geofence.go,
\* ApplyGeofenceTransitions).
EventsAreTrue == EventsAreDue /\ EventsAreCrossings

Quiet == \A h \in Handlers : pc[h] = "idle"

\* No crossing is forgotten: with ingests one at a time and no errors, the side
\* that follows from the events (where the rule asks for one) is the recorded
\* one, but where the event id of the last crossing was taken.
CrossingsAreReported ==
  Orderly /\ Quiet =>
    \A v \in Vehicles, n \in Names : <<v, n>> \notin dropped => told[v][n] = inside[v][n]

\* An operator's last edit comes into force in every process that refreshes, the
\* deletion of the last fence included: once loaded, the database is the authority
\* when it says there is nothing, too (geofence_pois.go on poisLoaded; the comment on
\* DefaultGeofencePOIs still says that an empty table brings the built-in ones back).
EditsTakeEffect == \A p \in Refreshing : <>[](ActiveGeofencePOIs(p) = LoadGeofencePOIs)
=============================================================================
