------------------------------ MODULE HotState -------------------------------
(***************************************************************************)
(* The hot state of a vehicle: the status and last position in its row of  *)
(* the registry, and the status_changed events that tell other services    *)
(* (iot/vehicle_sync.go).                                                  *)
(*                                                                         *)
(* Every ingest path ends in ApplyVehicleHotState for the newest ping of   *)
(* its batch.  Several run at once for one vehicle: two connections of one *)
(* tracker, two devices, or a gateway and the HTTP endpoint.  The stale    *)
(* job (MarkStaleVehiclesOffline, then PublishStatusChanges) and an        *)
(* operator write the same rows.  PostgreSQL runs them at READ COMMITTED:  *)
(* a statement reads the rows as they were when it began, but an UPDATE    *)
(* waits for the row's lock and then works on the row's latest version.    *)
(***************************************************************************)
EXTENDS Integers

CONSTANTS
  Vehicles,         \* rows of vehicles
  NoVehicle,        \* a handler that has no ping
  Handlers,         \* goroutines that ingest
  NoHandler,        \* an unlocked row
  Times,            \* device timestamps
  NeverSeen,        \* a NULL last_seen
  Speeds,           \* speeds a ping may carry
  MovingThreshold,  \* movingThresholdKmh
  EventBus,         \* EVENT_BUS_ENABLED
  MaxFaults         \* bound: how many errors and crashes there may be

ASSUME DataAssumption ==
  /\ Times \subseteq Nat /\ Speeds \subseteq Nat /\ MovingThreshold \in Nat
  /\ MaxFaults \in Nat /\ EventBus \in BOOLEAN

ASSUME IdAssumption ==
  NoVehicle \notin Vehicles /\ NoHandler \notin Handlers /\ NeverSeen \notin Times

VARIABLES
  status,    \* vehicles.status
  lastSeen,  \* vehicles.last_seen: the time of the position shown
  lock,      \* the transaction that has updated each row and not committed
  told,      \* the status in the newest event about each vehicle
  pc,        \* where each handler is in ApplyVehicleHotState
  ping,      \* its ping
  prev,      \* the status its statement saw (CTE prev)
  new,       \* the status its statement wrote (CTE upd)
  job,       \* where the stale job is
  targets,   \* the rows its statement saw stale, each with its status then
  changes,   \* the transitions it has still to publish
  raced,     \* history: vehicles whose row changed under a reader
  lost,      \* history: vehicles whose offline event was never published
  faults

rows    == <<status, lastSeen>>
handler == <<pc, ping, prev, new>>
stale   == <<job, targets, changes>>
vars    == <<rows, lock, told, handler, stale, raced, lost, faults>>

Statuses == {"moving", "idle", "offline", "maintenance"}
Stages   == {"idle", "update", "enqueue", "commit"}
Ping     == [vehicle : Vehicles, ts : Times, speed : Speeds]
Change   == [vehicle : Vehicles, prev : Statuses]

NoPing   == [vehicle |-> NoVehicle, ts |-> 0, speed |-> 0]

Fault == faults < MaxFaults /\ faults' = faults + 1

\* The handlers that have a transaction open on the vehicle's row.
Open(v) == {h \in Handlers : ping[h].vehicle = v}

\* The vehicles the stale job is busy with.
JobsVehicles == {t.vehicle : t \in targets \cup changes}

-----------------------------------------------------------------------------
(* ApplyVehicleHotState *)

\* The transaction begins and its one statement takes its snapshot.
Snapshot(h, p) ==
  /\ pc[h] = "idle"
  /\ pc' = [pc EXCEPT ![h] = "update"]
  /\ ping' = [ping EXCEPT ![h] = p]
  /\ prev' = [prev EXCEPT ![h] = status[p.vehicle]]
  /\ UNCHANGED <<rows, lock, told, new, stale, raced, lost, faults>>

\* Mutant of SyncedStatus: a status the registry does not have.
SyncedStatusParked(current, speed) ==
  IF current = "maintenance" THEN "maintenance"
  ELSE IF speed >= MovingThreshold THEN "moving" ELSE "parked"

\* The CASE of syncVehicleFromPing.
SyncedStatus(current, speed) ==
  IF current = "maintenance" THEN "maintenance"
  ELSE IF speed >= MovingThreshold THEN "moving" ELSE "idle"

\* Mutant of Update: the CASE looks at the status that the snapshot showed.
UpdateFromPrev(h) ==
  LET v == ping[h].vehicle IN
  /\ pc[h] = "update"
  /\ lock[v] = NoHandler
  /\ lock' = [lock EXCEPT ![v] = h]
  /\ new' = [new EXCEPT ![h] = SyncedStatus(prev[h], ping[h].speed)]
  /\ pc' = [pc EXCEPT ![h] = "enqueue"]
  /\ UNCHANGED <<rows, told, ping, prev, stale, raced, lost, faults>>

\* The UPDATE gets the row's lock and works on the row as it is now.
Update(h) ==
  LET v == ping[h].vehicle IN
  /\ pc[h] = "update"
  /\ lock[v] = NoHandler
  /\ lock' = [lock EXCEPT ![v] = h]
  /\ new' = [new EXCEPT ![h] = SyncedStatus(status[v], ping[h].speed)]
  /\ pc' = [pc EXCEPT ![h] = "enqueue"]
  /\ UNCHANGED <<rows, told, ping, prev, stale, raced, lost, faults>>

\* publishStatusChange inserts the event in the same transaction; it appears
\* with the commit.
Changed(h) == prev[h] # new[h]

Enqueue(h) ==
  /\ pc[h] = "enqueue"
  /\ pc' = [pc EXCEPT ![h] = "commit"]
  /\ UNCHANGED <<rows, lock, told, ping, prev, new, stale, raced, lost, faults>>

\* ApplyVehicleHotState returns.
Return(h) ==
  /\ pc' = [pc EXCEPT ![h] = "idle"]
  /\ ping' = [ping EXCEPT ![h] = NoPing]
  /\ prev' = [prev EXCEPT ![h] = "idle"]
  /\ new' = [new EXCEPT ![h] = "idle"]

\* The status of v becomes s; note it when others are working on the row.
Write(v, s, others) ==
  /\ status' = [status EXCEPT ![v] = s]
  /\ raced' = IF status[v] # s /\ (others # {} \/ v \in JobsVehicles)
              THEN raced \cup {v} ELSE raced

\* Mutant of Commit: the event of a transaction is dropped.
CommitWithoutEvent(h) ==
  LET v == ping[h].vehicle IN
  /\ pc[h] = "commit"
  /\ Return(h)
  /\ lock' = [lock EXCEPT ![v] = NoHandler]
  /\ Write(v, new[h], Open(v) \ {h})
  /\ lastSeen' = [lastSeen EXCEPT ![v] = ping[h].ts]
  /\ UNCHANGED <<told, stale, lost, faults>>

Commit(h) ==
  LET v == ping[h].vehicle IN
  /\ pc[h] = "commit"
  /\ Return(h)
  /\ lock' = [lock EXCEPT ![v] = NoHandler]
  /\ Write(v, new[h], Open(v) \ {h})
  /\ lastSeen' = [lastSeen EXCEPT ![v] = ping[h].ts]
  /\ told' = IF EventBus /\ Changed(h) THEN [told EXCEPT ![v] = new[h]] ELSE told
  /\ UNCHANGED <<stale, lost, faults>>

\* Mutant of Rollback: an early return leaves the transaction open.
ReturnWithoutRollback(h) ==
  /\ Fault
  /\ pc[h] # "idle"
  /\ Return(h)
  /\ UNCHANGED <<rows, lock, told, stale, raced, lost>>

\* A query, the enqueue or the commit fails, or the process dies: the deferred
\* Rollback, or the server, undoes the transaction.  The caller only warns, so
\* an error that hides a commit is a Commit.
Rollback(h) ==
  /\ Fault
  /\ pc[h] # "idle"
  /\ Return(h)
  /\ lock' = [v \in Vehicles |-> IF lock[v] = h THEN NoHandler ELSE lock[v]]
  /\ UNCHANGED <<rows, told, stale, raced, lost>>

-----------------------------------------------------------------------------
(* The stale job and the operator *)

Stale(v, cutoff) ==
  /\ status[v] \in {"moving", "idle"}
  /\ lastSeen[v] # NeverSeen /\ lastSeen[v] < cutoff

\* MarkStaleVehiclesOffline takes its snapshot.
FindStale(cutoff) ==
  /\ job = "idle"
  /\ \E v \in Vehicles : Stale(v, cutoff)
  /\ targets' = {[vehicle |-> v, prev |-> status[v]] : v \in {w \in Vehicles : Stale(w, cutoff)}}
  /\ job' = "mark"
  /\ UNCHANGED <<rows, lock, told, handler, changes, raced, lost, faults>>

\* The UPDATE has got every target's lock.  It does not look at the rows'
\* status again.
MarkStaleVehiclesOffline ==
  LET V == {t.vehicle : t \in targets} IN
  /\ job = "mark"
  /\ \A v \in V : lock[v] = NoHandler
  /\ status' = [v \in Vehicles |-> IF v \in V THEN "offline" ELSE status[v]]
  /\ raced' = raced \cup {v \in V : status[v] # "offline" /\ Open(v) # {}}
  /\ job' = "publish"
  /\ changes' = targets
  /\ targets' = {}
  /\ UNCHANGED <<lastSeen, lock, told, handler, lost, faults>>

\* PublishStatusChanges inserts the events one by one.
PublishStatusChange ==
  /\ job = "publish"
  /\ \E ch \in changes :
       /\ told' = IF EventBus THEN [told EXCEPT ![ch.vehicle] = "offline"] ELSE told
       /\ changes' = changes \ {ch}
  /\ job' = IF changes' = {} THEN "idle" ELSE "publish"
  /\ UNCHANGED <<rows, lock, handler, targets, raced, lost, faults>>

\* The job fails or dies; the transitions it had not published are gone.
JobFails ==
  /\ Fault
  /\ job # "idle"
  /\ job' = "idle"
  /\ targets' = {} /\ changes' = {}
  /\ lost' = lost \cup {ch.vehicle : ch \in changes}
  /\ UNCHANGED <<rows, lock, told, handler, raced>>

\* An operator puts a vehicle into maintenance, or takes it out, which makes it
\* idle.  The service that owns the registry announces that itself.
SetStatus(v, s) ==
  /\ \/ s = "maintenance"
     \/ s = "idle" /\ status[v] = "maintenance"
  /\ lock[v] = NoHandler
  /\ Write(v, s, Open(v))
  /\ told' = [told EXCEPT ![v] = s]
  /\ UNCHANGED <<lastSeen, lock, handler, stale, lost, faults>>

-----------------------------------------------------------------------------

Init ==
  /\ status \in [Vehicles -> Statuses]
  /\ lastSeen = [v \in Vehicles |-> NeverSeen]
  /\ lock = [v \in Vehicles |-> NoHandler]
  /\ told = status
  /\ pc = [h \in Handlers |-> "idle"]
  /\ ping = [h \in Handlers |-> NoPing]
  /\ prev = [h \in Handlers |-> "idle"]
  /\ new = [h \in Handlers |-> "idle"]
  /\ job = "idle" /\ targets = {} /\ changes = {}
  /\ raced = {} /\ lost = {} /\ faults = 0

Ingest(h) ==
  \/ \E p \in Ping : Snapshot(h, p)
  \/ Update(h) \/ Enqueue(h) \/ Commit(h) \/ Rollback(h)

Next ==
  \/ \E h \in Handlers : Ingest(h)
  \/ \E cutoff \in Times : FindStale(cutoff)
  \/ MarkStaleVehiclesOffline \/ PublishStatusChange \/ JobFails
  \/ \E v \in Vehicles, s \in {"idle", "maintenance"} : SetStatus(v, s)

Spec == Init /\ [][Next]_vars

\* The ingests on their own: no operator edits the registry and no job runs.
IngestSpec == Init /\ [][\E h \in Handlers : Ingest(h)]_vars

-----------------------------------------------------------------------------
(* Properties *)

\* Every variable has its type.
TypeOK ==
  /\ status \in [Vehicles -> Statuses]
  /\ lastSeen \in [Vehicles -> Times \cup {NeverSeen}]
  /\ lock \in [Vehicles -> Handlers \cup {NoHandler}]
  /\ told \in [Vehicles -> Statuses]
  /\ pc \in [Handlers -> Stages]
  /\ ping \in [Handlers -> Ping \cup {NoPing}]
  /\ prev \in [Handlers -> Statuses]
  /\ new \in [Handlers -> Statuses]
  /\ job \in {"idle", "mark", "publish"}
  /\ targets \subseteq Change
  /\ changes \subseteq Change
  /\ raced \subseteq Vehicles
  /\ lost \subseteq Vehicles
  /\ faults \in 0 .. MaxFaults

\* Other services know the status of a vehicle: its newest event says what its
\* row says, but for offline events still to be published, those the stale job
\* lost, and vehicles of which two writers have once met.
RegistryAnnounced ==
  EventBus =>
    \A v \in Vehicles \ (raced \cup lost) :
      v \notin {ch.vehicle : ch \in changes} => told[v] = status[v]

\* A ping never takes a vehicle out of maintenance, not even when the operator
\* put it there after the ping's transaction had begun.
MaintenanceKept ==
  [][(\E h \in Handlers : Commit(h)) =>
       \A v \in Vehicles : status[v] = "maintenance" => status'[v] = "maintenance"]_vars

\* No ingest hangs on a vehicle: a locked row belongs to one transaction that is
\* still open and has nothing more to wait for.
LockHasOwner ==
  \A v \in Vehicles : lock[v] # NoHandler =>
    ping[lock[v]].vehicle = v /\ pc[lock[v]] \in {"enqueue", "commit"}

\* vehicle_sync.go on ApplyVehicleHotState: a status change can never be applied
\* to the registry without its outbox event.
ChangeHasEvent ==
  [][\A h \in Handlers : Commit(h) /\ EventBus =>
       \A v \in Vehicles : status'[v] # status[v] => told'[v] = status'[v]]_vars
=============================================================================
