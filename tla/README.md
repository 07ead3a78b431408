# A formal model of the IAG telemetry gateway

The repository receives positions from vehicle trackers, stores them, keeps the
fleet registry's view of each vehicle up to date, raises safety events, shows
positions live and sends immobilise commands back to the trackers. This
directory holds TLA+ modules translated from that code, TLC configurations that
check them on small instances, and TLAPS proofs of what matters most.

## 1. Inventory

| Component | Code | State | Operations | Hard behaviour |
|---|---|---|---|---|
| Command queue and delivery | `iot/command.go`, `iot/command_store.go`, `DeliverPendingCommand` in `iot/pipeline.go` | `device_commands`, the verdict of a handler | enqueue, look up, judge, refuse, write, record | several handlers per device, failures between the write and its record, stale snapshot |
| Codec 8 gateway | `cmd/gateway/main.go`, `Pipeline.Ingest` | per connection: device read at the handshake, packet, write deadline | handshake, read packet, store, publish, command, ACK | reconnects while the old goroutine works on, lost ACKs, errors that hide a commit, crash |
| HQ gateway | `cmd/sinotrack/main.go`, `iot/hq.go` | per connection: bound id, device, scanner buffer | scan frame, authenticate, store, status word | no ACK in the protocol, mixed ids on one connection, garbage between frames |
| HTTP ingest | `cmd/ingest/main.go`, `iot/ingest_http.go` | per request: device, rows | authenticate, validate, store, sync the newest ping, mark seen, publish, answer | retries beside the old request, cancelled contexts, keys that change meanwhile, batches that name several vehicles |
| Vehicle hot state | `iot/vehicle_sync.go`, `iot/status.go` | `vehicles` row, `fleet_event_outbox` | apply a ping, mark stale vehicles offline, publish | READ COMMITTED races, stale job, operator edits |
| Geofences | `iot/geofence.go`, `iot/geofence_pois.go` | active POIs in memory, inside/outside per vehicle and POI, `safety_events` | refresh, transition, rename, assign | stale copies, state saved before the event |
| Overspeed | `iot/overspeed.go` | episode per vehicle | evaluate, save, raise | unlocked read-evaluate-save, minimum duration |
| Live feed | `iot/pubsub.go`, `iot/hub.go` | subscriber channels | publish, subscribe, unsubscribe | slow subscribers, unsubscribe during a publish |
| Accept loop and shutdown | `serve` and `main` in `cmd/gateway/main.go` | slots, wait group, listener | accept, refuse, drain, stop | connection limit, shutdown with open connections |
| Device registry | `iot/store.go` | `iot_devices` | create, update, rotate key, mark seen, record status word | throttled writes, cached copies |
| Aggregation | `iot/aggregate.go`, `iot/trip_detect.go`, `iot/fuel_sensor.go`, `iot/store.go` | `telemetry_timeseries`, `telemetry_daily`, `fuel_events` | daily row, fuel events, trips, purge | boundary values, gaps, late pings, runs that are repeated or cut short |
| Wire formats | `iot/codec8.go`, `ScanHQFrames` in `iot/hq.go` | buffered bytes | read, scan, parse, checksum | reads that end anywhere, damaged packets, a full buffer |
| Codec 12 encoder | `iot/codec12.go` | none (pure) | build, parse | none; only its own tests call it |
| Schema check | `pg/connect.go`, `pg/verify.go` | none | connect, verify at start | missing tables, unexpected types |

The components meet in three places. `Pipeline.Ingest` runs the store, the hot
state, the geofences, the overspeed monitor, `MarkSeen` and the hub for every
batch of both gateways (the HTTP endpoint does the same by itself).
`DeliverPendingCommand` runs on the same goroutine between the ingest and the
ACK. And all processes share the database: the tables `vehicles`,
`iot_devices`, `device_commands`, `safety_events` and the outbox are also
written by the fleet service, which is not in this repository.

What makes each of them correct:

- *Commands*: the interlock judges the vehicle the device is fitted to; the
  audit trail is true; a command is not delivered twice, nor after a later one; a
  pending one is decided.
- *Codec 8 gateway*: a record the tracker deletes is stored and published; the
  tracker gets rid of what it logs, or its buffer overflows.
- *HTTP ingest*: an accepted batch is stored and was shown, rows are those the
  registry permits, every batch gets a verdict.
- *Device registry*: a key that was taken away serves no later request;
  `last_seen` is never older than its throttle allows.
- *Wire formats*: what is handed on is what was sent, and at once, however the
  stream is cut.
- *HQ gateway*: no frame reaches another device's history; slots neither leak
  nor come back twice; a shutdown that waits for the handlers cuts off one
  connection at most.
- *Hot state*: the newest event says what the registry says; a maintenance is
  not ended by a ping or by the stale job.
- *Geofences*: no event for a crossing that is none, no crossing without its
  event, an operator's edit takes effect everywhere.
- *Overspeed*: an alert for each sustained stretch, one, and no other.
- *Live feed*: no send on a closed channel, order per publisher, nothing lost
  but to a full buffer, nobody waits for a client.
- *Aggregation*: the row, trips and events of a day are those its track shows.

`PROJECT.json` lists, under `hazards`, what is hard to test in this code, each
at its line with the properties that would catch it.

## 2. Modules

| Module | What it is |
|---|---|
| `CommandDelivery` | the command queue, the interlock and the delivery routine, for any number of connections |
| `MCCommandDelivery` | small instances of it |
| `CommandDeliveryProofs` | its safety properties proved |
| `GatewayConnection` | one tracker and its connections to the Codec 8 gateway |
| `StoreAndForward` | what the ingest paths promise, with connections, packets, requests and retries left out |
| `MCGatewayConnection` | small instances of it |
| `GatewayConnectionProofs` | type; the gateway implements `StoreAndForward` |
| `HTTPIngest`, `MCHTTPIngest` | a relay, its requests to the HTTP ingest, and the device registry they are judged by |
| `HTTPIngestProofs` | type, permitted writes, the throttle; the HTTP ingest implements `StoreAndForward` |
| `Codec8` | the data fields of Codec 8 and 8 Extended, as a tracker writes and as the gateway reads them |
| `WireFormats`, `MCWireFormats` | the loops of both gateways that cut a byte stream into messages |
| `HotState` | a vehicle's registry row, the ingest transaction, the stale job and the operator |
| `OverspeedMonitor` | the breach of one vehicle, several ingests, an operator |
| `OverspeedProofs` | its safety properties proved |
| `GeofenceMonitor`, `MCGeofenceMonitor` | the operator's table, the copies of several processes, transitions and events |
| `GeofenceProofs` | its safety properties proved |
| `LiveFeed`, `MCLiveFeed` | the broker and the hub of one process, publishers, subscriptions and clients |
| `LiveFeedProofs` | type, the absence of sends on closed channels and the faithful feed proved |
| `HQGateway`, `MCHQGateway` | accept loop, slots, shutdown, and the handler of the HQ protocol |
| `BoundedServer` | what the TCP gateways promise their clients, with loop, semaphore and goroutines left out |
| `HQGatewayProofs` | its safety properties proved; the gateway implements `BoundedServer` |
| `DailyReport`, `MCDailyReport` | a vehicle's day: pings of trackers and relays, the fuel mapping, the job that makes the row and the fuel events, the detection of trips |
| `VehicleProofs` | the safety properties of `HotState` and of `DailyReport` proved |

Modules model one component each and share no variables; where two components
meet, the module of each has the other's step as an action of its environment
(`InsertPing` in `CommandDelivery`, `DeliverPendingCommand` in
`GatewayConnection`, `Edit` of the registry in `HTTPIngest`). `WireFormats`
extends `Codec8`, and what it hands on is what `GatewayConnection` and
`HQGateway` receive. There are two abstract specifications, which the modules
that implement them instantiate as `Contract`: `StoreAndForward` for
`GatewayConnection` and `HTTPIngest`, `BoundedServer` for `HQGateway`.

Operators named as mutants (`... Mutant of ...`) are deliberate variations of
the definition that follows them. They are used by no specification; replacing
the definition by its mutant shows that a property notices the bug.

### CommandDelivery

`DeliverPendingCommand` leaves the process four times, and the model has an
action for each stretch between: `NextPendingCommand`, `Judge` (snapshot,
verdict and encoder, decided on one read), `Write`, and `MarkCommandSent` or
`MarkCommandRefused`. `CommandsEnabled` is the switch of the pipeline, and
`EncodeCommand` the registry of encoders: a device has a model, and an encoder
knows a model and a kind of command. The variables `pc`, `held` and `decision` are the
goroutine's locals; `commands` is the table. `Fail` is every early return on an
error, `Crash` the end of the process. `EnqueueCommand` relies on the partial
unique index of the table, which is external. `UpdateDevice` moves a device to
another vehicle, `InsertPing` makes a later ping the newest, `Tick` is time.
Ages are in units of the clock; `MaxFixAge` and `MaxQueueAge` are 1, the clock
stops at 2, so a command can be fresh, at its limit and too old, and so can a
fix. Speeds 5 and 6 lie on both sides of the limit; a ping may have no speed.

`wire` and `delivered` are history variables.

What the runs show:

- `commands` (passes): two connections of one device with one command, or one
  connection each for two devices, of which one has an encoder, with two commands
  for that one or one for the other. The audit trail never claims a delivery that did not happen and keeps one that
  did, if the device has one connection (`AuditTrailIsTrue`), a connection repeats
  a delivery only after losing the record of the first (`NoRepeatedDelivery`), and
  a reporting device's pending command is decided (`EventuallyDecided`). Failed
  writes, lost records and crashes have commands tried again; still no command is
  written after a later one (`CommandsKeepTheirOrder`). With two connections of
  one device that does not hold: the slower handler may write its frame when the
  faster one's record has already freed the slot for the next command.
- `moved_device` is a finding.

That what is written passed the interlock is `Judge`'s guard and no property here.
The snapshot is a database call old by the time the frame is on the wire; the
model has pings between `Judge` and `Write`, and nothing in the code could rule
them out.

Fairness: time passes, and the handler of a connected device is scheduled.
`Fail` and `Crash` are bounded by `MaxFaults`, so they cannot meet every
attempt. Without frames from the device there is no delivery: `serves` says
which devices are connected, and only these are promised a decision.

### GatewayConnection and StoreAndForward

A tracker keeps records in its buffer (`held`), sends some of them, and deletes
the packet when the count that comes back equals what it sent. The gateway's
goroutine is split at the device lookup, the INSERT, the fan-out, the command
delivery and the ACK. The tracker may lose its network at any point (`Cut`)
and dial again while the goroutine of its old connection goes on; the bytes
under way may still arrive. `InsertFails` covers an error that hides a commit.
`late` is the write deadline that `DeliverPendingCommand` leaves behind when the
command write fails: from then on no ACK gets through, although the connection
stays open, until a command is written again or the tracker hangs up. The
device is read once per connection, as in the code; `UpdateDevice` does not
reach open connections.

What is assumed of a tracker, which is external: it resends only on a new
connection, it hangs up when the answer does not come, and one that has
something to send is not silent for the five minutes of the read deadline.

`last_seen`, `last_ip` and the protocol column are left out: nothing here reads
them. Hot state, geofences and overspeed, which only warn on errors, run between
the INSERT and the fan-out and touch none of this state.

- `gateway` (passes): two connections, three records (two of the same second,
  one at (0,0)), packets of up to two, a fault and an edit of the device. The
  specification implements `StoreAndForward` (`ContractSpec`): a deleted record
  is stored under the vehicle of the acknowledging connection and was published,
  and a published position is stored; and everything logged is acknowledged unless the device is
  switched off (`UploadsDrain`). Fairness: the tracker keeps dialling, sending
  and reading, and goroutines are scheduled. Faults are bounded, so they cannot
  meet every attempt; cuts and crashes have no fairness.

`StoreAndForward` has a sender's buffer (`held`), the keys stored, the positions
shown and the records the sender is done with (`forgotten`, each with the
vehicle it was accepted for, or none). `Log` puts a record into the buffer,
`Store` adds keys for records that are known, `Show` shows what is stored, and
`Forget` lets go of records that are stored and were shown for that vehicle, or
that nobody could use or the gateway rejected.

What the contract does *not* say: that each record has a row of its own. Two
records of one second share the key `(vehicle_id, ts)` and the second is
dropped by `ON CONFLICT DO NOTHING`, acknowledged all the same.

### HTTPIngest

A request is a goroutine, split at the lookup of its key (with which the checks
go, for they read only what it found), the INSERT, the registry sync, `MarkSeen`
and the fan-out with the answer. `Refused` and `BatchRefused` are the checks in
the code, `RowsOf` what it stores. `registry` is the table `iot_devices`:
`CreateDevice`, `UpdateDevice`, `DeleteDevice` and `RotateAPIKey` change it under
requests that have already read it. `MarkSeen` writes only if `Due`.

The relay is external; what is assumed of one is that it takes the status code
at its word: 202 and 400 end a batch, 401 does not. It may stop waiting at any
point (`GiveUp`) and post the batch again; the old request then runs on with a
cancelled context, so each of its later statements may fail. Errors of the
database and crashes strike anywhere; an INSERT's error may hide a commit.

`good`, `heard`, `issued`, `live` and `synced` are history variables.

- `http_ingest` (passes): two requests, two devices (one registered, one still
  to be), a batch that grows too old and one that names two vehicles.
  A row is written only for a request whose key was, at some moment since it
  was sent, that of an active device bound to that vehicle or to none
  (`WritesArePermitted`): an edit may be missed by a request that overlaps it,
  never by a later one. `last_seen` stays within `MarkSeenInterval` of when the
  device was heard (`LastSeenIsFresh`). The ingest implements the contract
  (`ContractSpec`): an accepted batch is stored and was shown, and nothing is
  shown, or put into the registry of vehicles, that is not stored. Every batch
  is eventually accepted or rejected while some active device has a key
  (`BatchesSettle`). Fairness: the relay posts and reads and is given a key that
  works, requests are scheduled; errors are bounded.

Three things follow from the code here that no property forbids. An error of
the database is answered 400 like a bad batch, so a relay that believes the code
gives up pings a retry would have stored. Pings of one batch without a time get
the same one and collapse on one row. Of a batch that names several vehicles only
the vehicle of the newest ping gets its hot state, fences and speed looked at.

### Codec8 and WireFormats

`Codec8` has both sides of a data field: what a tracker writes (`WrittenData`)
and what it means (`Meaning`), and how `ReadAVLPacket` and `parseRecord` walk it
(`Blocks`, `Variables`, `Records`) and read it (`Record`, `ParseData`). Bytes are
numbers below `Base`; the widths of counts, ids and values are those of the code
where they decide the walk. The fields of a record's header, at fixed offsets,
stay the bytes they are, and `crc16IBM` is a constant.

`WireFormats` has the loops: the handshake, then head and body of each packet,
each an `io.ReadFull`; and the scanner over the HQ port's buffer. `Arrive`
delivers one byte, and a read happens whenever it has what it needs, so every way
of cutting the stream into segments is a path. `Waits` is a read that blocks;
`ReadError` is the peer's close or a deadline at that point. What follows a
message (the device's lookup, storing it) is `GatewayConnection` and `HQGateway`.

- `wire` (passes): twenty-three sessions. What is handed on is a prefix of what
  was sent, whole, unaltered and in order, nothing of a packet that is damaged in
  preamble, length, codec, counts, data or CRC, and nothing after it
  (`HandedOnIsSent`); and a loop that waits has handed on all that arrived
  whole, and has not overlooked a damaged packet (`NothingIsHeldBack`). Four
  bits to a byte keep the numbers small: values of one and two bytes, negative
  ones among them.

What a sound packet is, is said by the tracker's side alone, so the checks of
the parser are measured against an encoder and not against themselves.

### HotState

`ApplyVehicleHotState` is four actions: `Snapshot` (the statement begins; the
CTE `prev` is what it sees), `Update` (it has the row's lock and works on the
row's latest version), `Enqueue` and `Commit`; `Rollback` is every failure.
The stale job takes its snapshot (`FindStale`), then updates all its rows in
one statement whose join does not look at the status again, then inserts its
events one by one. Operators put a vehicle into maintenance and take it out
again, to `idle`; the service that owns the registry announces that itself. Instead of the outbox table, `told` keeps
the status in the newest event about each vehicle. `raced` and `lost` are
history variables: vehicles whose row changed while another writer was working
on it, and vehicles whose offline event the job lost.

- `hot_state` (passes): two ingests, the job and an operator on one vehicle.
  The newest event says what the row says, races and lost events apart
  (`RegistryAnnounced`); no ping ends a maintenance, whatever its transaction
  saw (`MaintenanceKept`); no lock outlives its transaction (`LockHasOwner`).
  Rows of different vehicles share nothing but the job, so one vehicle is
  enough to meet every race.
- `silent_change` is a finding. The run has the ingests alone (`IngestSpec`), so its
  trace has two overlapping ingests and no other writer.

`RegistryAnnounced` leaves out vehicles that were raced or whose event was lost: of
the race of two ingests `ChangeHasEvent` speaks, and fails; what the stale job does
with a row that has changed since its snapshot, and the events it loses, are what
the code does (section 5).

### OverspeedMonitor

`ApplyOverspeed` is `Load` (the limit, the row, and the pure rule
`EvaluateOverspeed`, on one read), `Save` and `Insert`, with `Return` when there
is nothing to insert and `Fail` at each statement. Ingests hold no lock, so two
handlers interleave between `Load` and `Save`. The rule is split as the code's
switch is (`Opened`, `Continued`, `Closed`, `Sustained`, `Clear`, `Unusable`).
`over`, `stretch`, `raised`, `slowed`, `overlap` and `lost` are history
variables; they say what the vehicle did, not what the code remembers of it.

- `overspeed` (passes): whatever the interleaving, an alert was earned
  (`AlertsAreSustained`) and no race loses one (`AlertedIsRaised`). When ingests
  come one at a time and nothing fails, a sustained stretch is alerted, once, and
  an alert is not put together from two breaches (`AlertsMatchStretches`). With
  overlapping ingests this does not hold, and no comment says it should: the
  later save wins. An insert that fails after its save loses the alert, which
  `AlertedIsRaised` excuses (`lost`). A limit of 0 switches the check off, as the
  default does that the code starts with; `SetLimit` reaches it in this run.

### GeofenceMonitor

The table (`pois`, with the assignments) belongs to operators. Every process has
its own copy (`active`), filled by a refresh that reads (`FetchGeofencePOIs`) and
installs later (`SetGeofencePOIsLoaded`); a process that never loaded one uses
the built-in fences. An ingest is `ProcessGeofences` (the copy in force, the
vehicle's side of each fence that is for it; nothing without a fix),
`GeofenceStateFor` (the one query for what is recorded, after which only changes
are left), then for each of them `SaveTransition` and, if it is to be reported,
`InsertEvent`. The code goes through the transitions in no order worth modelling,
so any may come next. A ping is the set of circles it lies in, and whether it has
a fix.

- `geofence` (passes): every event is due by a fence that was in force
  and is a crossing (`EventsAreTrue`), whatever overlaps;
  no crossing is forgotten in runs without overlap and errors, unless the event
  id of the last one was taken (`CrossingsAreReported`). Overlapping ingests may
  report one crossing twice, and an error between save and insert loses one: that
  is what the code does, and no property forbids it. An operator's last edit comes into
  force in every process that refreshes (`EditsTakeEffect`). Fairness: refreshes go
  on, as the ticker does.

`EditsTakeEffect` includes the deletion of the last fence, after which there is none:
the code does that, and the comments on `poisLoaded` and `SetGeofencePOIsLoaded`
want it ("deleting the last fence has to switch site tracking off, not quietly
restore the six built-in ones"). The comment on `DefaultGeofencePOIs`
(`iot/geofence_pois.go:93`) says the opposite: the built-in set is used when the
table is empty, and "an empty table means 'no override', never 'no geofences'". Both
cannot hold; the property sides with the code.

`Refreshing` are the processes that load the table. `cmd/ingest` is not one of them.

### LiveFeed

One process. `Publish` takes the broker's lock for reading and offers the ping
to the channels that match one by one (`Offer`, a drop if the buffer is full),
so other goroutines run between two offers. `Register` and `Unregister` need the
lock for writing; `Pending` writers keep new readers out, as a Go `RWMutex`
does. A cancel is the code's sequence: out of the broker's tables, the lock
released, the broker's channel closed, the forwarder waited for, the hub's
channel closed. The client (`Read`) is external and may never read.

- `live_feed` (passes): two publishers, a subscription to a vehicle and one to
  the fleet, buffers of one. No send on a closed channel (`NoSendOnClosed`);
  order per publisher, and every ping published while a subscription was
  registered was accepted, is being offered or met a full buffer
  (`FeedIsFaithful`); and publishers, subscribers and cancels
  finish though no client reads (`NobodyWaitsForAClient`). Fairness: goroutines run, and none for `Read`.
  `Subscribe` and `SubscribeLive` differ in what they match, which is `Wants`. That
  `SubscribeLive` passes over pings without a vehicle is left out: every ingest
  path turns away a device without one before it publishes.

### HQGateway and BoundedServer

`main`, the accept loop and one goroutine per connection. `Accept` takes a
connection in hand, `Admit` takes a slot or `Reject` closes it, `Spawn` counts
and starts the goroutine. In the handler `Authenticate` is the first frame with
its lookup, `Process` and `Receive` the later ones, `Ingest` the pipeline;
`Close`, `Release` and `Leave` are the deferred calls in their order. `Signal`,
`LoopEnds`, `Drained`, `TimedOut`, `ClosePools` and `Exit` are the shutdown, in
steps between which the loop and the handlers go on: `wg.Wait` returns or the 30
seconds pass, `main` returns and closes the pools, the process ends. `writes` collects
what was written for frames: a ping or the bookkeeping on the device's row.
The accept loop and the shutdown of the Codec 8 gateway are the same code.

- `hq_gateway` (passes): three connections for two slots. The slots taken are
  those of the connections served (`SlotsMatchConnections`); what is written for
  a frame goes to the device it names (`FramesStayWithTheirDevice`); the
  specification implements `BoundedServer` (`ServerContract`); every slot comes back
  (`SlotsComeBack`), because the two read deadlines end a silent connection.

`BoundedServer` has the clients served, those that are gone (served before, or
turned away) and a phase. A client is admitted once and while there is room
(`Admit`), turned away only when the server is full (`TurnAway`) or told to stop
(`Shutdown`), and leaves at any time. Told to stop, the server is `closing` until
nobody is served (`Done`, which makes it `idle`) or it has waited long enough
(`Overdue`), and then ends with whoever is served (`Stop`). In the gateway a client
is served from the start of its goroutine until the slot is given back.

The contract does not promise that a clean end cuts nobody off, for the code does
not keep that. `wg.Wait` waits for the handlers and not for the accept loop. At the
signal the loop may have a connection in hand; it may count and start it
(`Admit`, `Spawn`) after `wg.Wait` has found nobody, and the new handler then works
while `main` closes the pools under it and the process ends: a frame that was read
is not stored, and nobody sends it again. Started between the moment the counter
reached zero and the waking of `wg.Wait`, it may even make the wait group panic for
its reuse, which is the second way to `Exit`. What does hold is that it is one
connection at most, and that all others had finished: in the contract `Shutdown`
leaves one client at most that may still come, and `Done` needs an instant at which
nobody is served. `CleanEndCutsOneAtMost` says it by itself, and is proved. No
document of the repository promises a graceful end, so this is no finding.

### DailyReport

The functions of `aggregate.go` and `trip_detect.go` go once over the sorted
pings; here they are recursive functions over the same sequence (`AggregateDay`,
`DetectTrips`), with the code's thresholds. `SensorOf`, `FuelFrom` and `Percent`
are the fuel mapping of the device, with its defaults and its clamp. Around them
are the table and the statements of `store.go`: pings come in any order
(`InsertPing`), from a tracker (`InsertRecord`) or a relay (`InsertPosted`),
retention drops the oldest (`PurgeBefore`), and the job, which is part of another
service, loads a day (`PingsForDay`), writes the row (`UpsertDaily`), inserts the
events (`InsertFuelEvents`), in either order, and may give up in between
(`Abandon`). Nothing in the repository calls `DetectTripsFromPings` or stores a
trip; it is checked as a function of the pings the row was made of.

The clamp is a gateway's. The HTTP ingest stores the level and the speed a relay
posts as they are (`iot/ingest_http.go:101`): levels below 0 or above 100 and
negative speeds reach the table, the row and the events. The run has a relay that
posts 104 % and -8 km/h.

- `daily_report` (passes): the row is what the pings show, and so are the trips of
  the same pings (`ReportMatchesTrack`): the reference goes through no order, it
  sums over consecutive pairs and finds trips by their first and last pings. While
  pings come in order, the events stored are those the track shows, and all of the
  last pings looked at (`EventsMatchTrack`), purges and repeated runs included.
  The day has one row at most (`DayTypeOK`). All three are proved for any number of
  pings at any minutes (`VehicleProofs`), so the three pings of this run are no
  limit; what the run adds is that each property fails as soon as the code it is
  about is changed.

`EventsMatchTrack` leaves late pings out. One that comes late splits a change of the
level in two; run again, the job adds the smaller events (if they pass the threshold)
and the first one stays, so a refuel is counted twice, while `iot/store.go:671`
expects that "re-running the aggregator over the same day produces the same events".

`VehicleProofs` extends both this module and `HotState`, so the specification
here has names of its own (`DaySpec`, `DayNext`, `Minutes`, `PingSpeeds`).

One remark that no run is about: the example in `fuel_sensor.go`, a reading of
140 % followed by a real 95 %, is a fall of 5 points after the clamp, which is still
a drop event.

## 3. Bounds

| Constant | Value | Why it is enough |
|---|---|---|
| `Handlers`, `Conns` of `GatewayConnection` | 2 | every race here is between two; the proofs cover any number |
| `Commands` | 1 for two connections, 2 for one (`MCNext`) | the index allows one pending command per device, and outcomes of different rows do not meet; the order of frames takes two. With two commands the vehicle keeps the unit and is slow enough when it reports: the verdict is the other case's matter |
| `Models` | 2 | a device with encoders and one without |
| `MaxTime`, `MaxFixAge`, `MaxQueueAge` | 2, 1, 1 | below, at and above each limit |
| `Records`, `MaxPacket` | 3, 2 | packets that mix usable and unusable records, and two records with one key |
| `MaxFaults` | 1 (2 for commands and hot state) | a fault at any point, and where the runs allow it another one during its repair |
| `MaxEdits` | 1 | a rebinding, a deactivation or an edit of a fence at any point, a refresh's read and its installation among them |
| `MCNext` of `MCGeofenceMonitor` | | an edit and an error meet one ingest at a time, overlapping ingests one of the two; the proofs have no such bound |
| `Times` of `HotState` and `GeofenceMonitor` | 2 values | an older and a newer ping, and two of one second |
| `Times`, `Speeds`, `Limits` of `OverspeedMonitor` | 4, 6, 2 values | spans below, at and above the minimum of 2; speeds that stand, are clear, in the margin, over one limit, over both, and implausible |
| `Names`, `Places`, `Scopes` | 2, 1, 2 | a fence for everyone and one for another vehicle, either rule, inside or out |
| `BrokerCap`, `HubCap`, `MaxPings` | 1, 1, 2 and 1 | full and empty buffers; a third ping finds both full |
| `Conns`, `MaxConns`, `MaxFrames` of `HQGateway` | 3, 2, 2 | at, below and over the limit; a first frame and one with another id |
| `Pings`, `Batches` of `HTTPIngest` | 4, 2 | a batch with a ping that has no time and one that grows too old, and a batch of two vehicles that only an unbound device may post |
| `MaxNow`, `MaxAge`, `MaxAhead`, `Interval` | 2, 1, 1, 1 | times too old, too new and in between; a last_seen that is due and one that is not |
| `Base`, `HeaderLen`, `Sizes` of `Codec8` | 16, 2, (1, 2) | both signs, several blocks, an id that comes twice, either codec |
| `MaxIMEI`, `MaxData`, `MaxFrame` | 3, 28, 6 | at, below and above each limit |
| `Minutes`, `Records`, `Posted`, `MaxPings` of `DailyReport` | 4, 4, 1, 3 | gaps of 5, 20, 21 and more minutes, levels of 95, 98 and 100 and a relay's 104, known, unknown and negative speeds; a trip needs two pings and the gap after it one more |

The largest runs are `daily_report` (1,662,713 distinct states), `geofence`
(800,736), `hot_state` (494,150), `hq_gateway` (314,583) and `commands` (261,979),
each in two to three minutes at most.

## 4. Proofs

All proofs hold for every value of the constants that satisfies the `ASSUME`s
of the modules (types of the bounds, sentinels that are no ids, for the gateway
a finite set of records).

**CommandDelivery.** The inductive invariants are small and layered. That a row's
snapshot permits what it records needs to know what a handler decided while it is
at `write` (`Judged`): the command it holds is queued for its device and the
snapshot in `decision` passed the interlock. That `sent` rows are true needs, for
handlers at `mark`, that their command is on the wire. That commands keep their
order (`OrderKept`) needs `Ordered`: a pending command is the last one queued for its
device, which rests on the one pending slot, and what a sole handler holds and has
not written is still pending. Each layer has
a frame lemma for the actions that do not touch it, so a proof of a step is one line
per action.

**GatewayConnection.** The invariant says how far a goroutine is with its packet
(`Progress`): at `publish` its pings are stored, at `command` and `ack` they are
also published, or the connection has no vehicle. It also says what is under
way on the connection the tracker uses (`Exchange`): the one outstanding packet
is in the inbox, being worked on, or answered, never two of these, and an
answered packet is settled. Without `Exchange` a count could be read as the
answer to another packet. The refinement maps the rows to their keys; an INSERT
is a `Store`, a right count a `Forget`, and every other step stutters.

**HTTPIngest.** The invariant is a property of each request: what its stage says
of the rows it made, stored and showed (`Work`), that its batch was logged and is
held while the relay waits for it (`Duty`), and that what the registry says of its
key has been noted in `good` (`Witnessed`); and no two requests the relay waits
for carry the same batch, or an answer could let go of pings that are logged
again. A step changes one request and leaves the others alone, begins one or ends
one (`Moves`), so each part is proved per request. `LastSeenIsFresh` needs that
neither `heard` nor `last_seen` is ahead of the clock (`SeenInv`). In the
refinement an INSERT is a `Store` (of equal keys the first is there, which takes
a least index), sync and fan-out are a `Show`, an answer a `Forget`.

**HotState.** `RegistryAnnounced` alone is not inductive: it needs that a
transaction of an unraced vehicle saw the current status (`SawCurrent`), that
the row's lock protects what is about to be committed (`Owner`), and that the
job's vehicles are offline until it has published (`JobInv`). `Owner` is also
what proves `MaintenanceKept`.

**OverspeedMonitor.** That an alert was earned needs that a breach, saved or
decided, began with a sample that was over the limit, and that a decision to
alert saw a second one late enough (`OverspeedProofs`, inductive for any number
of handlers, since no handler trusts another's). That no race loses an alert
needs that a handler at `insert` carries the breach it marked.

`AlertsMatchStretches` is about runs in which ingests come one at a time and
nothing fails, and it speaks of the stretch, which the code does not keep. The
invariant (`OrderlyInv`) says that the row accounts for it (`Accounts`): it began
when the stretch did, the vehicle has not been clear since, and it is marked as
alerted once the stretch is long enough. This holds of the table while no handler is
at work, and of what the one at work is going to save (`Alone`). The alerts raised
for the stretch are at most one (`OneRaised`), which is where a second alert would
come from. `OrderlyLoad`, `OrderlySave` and `OrderlyInsert` are the three statements
of the code; everything else leaves the account alone.

**HQGateway.** For the server side the invariant says who has the accepted
connection (`InHand`), that slots are those of the goroutines with deferred calls
left (`Slots`), that the wait group counts just the goroutines that have not
left (`Counted`), and that after a clean wait those and the connection in hand are
one at most (`OneLeft`); `CleanEnd` follows. In the refinement the start of a goroutine is
an `Admit`, a refusal a `TurnAway`, the return of the slot a `Leave`, `Drained` a
`Done`, `TimedOut` an `Overdue` and `Exit` a `Stop`; closing the pools is a stutter. That the server
is full when the gateway refuses is `Slots` at that moment: the slots taken are just
the connections served. That no loop admits anybody after the end is `Halted`. For
the frames the invariant says
that a bound connection holds the id and a vehicle the device was fitted to
(`Pinned`, `FittedInv`).

**GeofenceMonitor.** That an event is due follows from where a handler's work
comes from: all that is built in, read or loaded has been in force
(`VersionsInv`), and a transition belongs to such a fence (`Founded`). The set
may have changed since, which is why the property speaks of every version. That
it is a crossing needs that the side a handler found was recorded by somebody
(`RecordedInv`), and that a handler at `insert` has recorded its own side.

The other direction, no crossing without its event (`CrossingsAreReported`), holds
when no two ingests of a vehicle overlap and nothing fails. Then a side that the
events do not tell is one whose last event had an id that was taken, or one that the
only handler of that vehicle has just saved and is about to report (`Reports`,
`ReportInv`): the code saves before it inserts, so every crossing passes through
that state. It also needs that the code's rule is the operator's in both directions
(`BreachesAreDue`), or a crossing could be saved and not be due.

**LiveFeed.** What a publisher has still to offer to is registered
(`OffersRegistered`), which the lock protects: `Register` and `Unregister` need
that nobody reads. How far a cancel is says what is registered, closed and ended
(`CancelInOrder`). Together a publisher's targets are open, and a hub's closed
channel has no forwarder.

That the feed is faithful is about concatenations: a step moves the head of one
part of `Pipe` to the tail of the part before it. The invariant (`FeedInv`) adds
that the ping a publisher is offering is newer than all of its own in the pipes of
those it still offers it to (`Flows`), and that a forwarder carries a ping exactly
while it is at that stage (`HoldsOne`).

**DailyReport.** The code derives the report in loops over the sorted pings; the
properties speak of a set of pings. The proof has four parts.

- *Induction.* A set of natural numbers has a least element (`LeastNat`, from
  the library's well-founded induction), hence what holds at 0 and goes from each
  number to the next holds up to any (`UpTo`), and a recursive function over a
  finite interval exists and has the values of its steps (`RecursionUpTo`). The
  lemmas are about sets, as no prover instantiates an operator parameter. With
  them `Sorted` is a sequence of the pings in order of time (`SortedTrack`), its
  neighbours are the consecutive pairs (`ConsecutiveSorted`), and `AggregateDay`
  and `DetectTrips` are sequences of sums and of states (`AggregateRuns`,
  `TripsRun`).
- *Sums.* A fold picks the elements of a set in an order nobody knows. `SumAdd`
  says that each counts once in whatever order, and `SumAlong` that a counter
  which adds up neighbour by neighbour ends at the sum over the pairs. So the row
  is what the pings show (`SummaryShows`).
- *Trips.* What the state of the detection says after the i-th ping (`TripSays`):
  a trip is active just when the ping was fast, it began where the drive did that
  this ping belongs to, its distance is a difference of the odometer, and the
  trips stored are the drives that are over and long enough. A slow ping, a gap
  and a ping that goes on each keep that (`TripNext`). On the other side the end
  that `TripsOf` chooses is the first stop of the drive (`DriveEnd`); both come to
  the same drives (`TripsShown`).
- *The table.* The row is replaced as a whole, so `ReportMatchesTrack`
  needs of the state only that what the job has loaded is a nonempty set of pings,
  one per minute (`DayParts`). The events accumulate: while pings come in order,
  the table holds the newest part of the day, the job a part without holes, and a
  pair that is consecutive in such a part is consecutive in the day (`EventsInv`,
  `StretchConsecutive`). Without that a purge or an old batch could make
  two pings with another one between them look consecutive. A key belongs to one event of the track (`EventKey`), so
  ON CONFLICT drops repetitions only.

TLC has checked `DayParts` and `EventsInv` on the instance of `daily_report`.

Only model-checked: the liveness properties (`EventuallyDecided`,
`UploadsDrain`, `EditsTakeEffect`, `NobodyWaitsForAClient`, `SlotsComeBack`,
`BatchesSettle`), which are beyond the prover; and the properties of
`WireFormats`. These are no theorems for every value of the constants: with an
arbitrary checksum a damaged data field may pass for a good one, and sessions may
hold anything, so what the run shows is about the damages it lists. Nor can the
lemmas about the codec be proved as it is written: the provers know nothing of
powers (`Base ^ n`), not even that `x^(n+1)` is `x * x^n`. Every other
safety property that a passing run checks is a theorem.

## 5. Findings

Each of these is a run that TLC ends with a counterexample.

1. *A status change without its event* (`silent_change`). Two overlapping
   ingests; the previous status comes from an unlocked snapshot.
2. *The wrong vehicle is judged* (`moved_device`). The interlock looks at the
   vehicle stored with the command (`iot/pipeline.go:158`), the frame goes to where
   the device is now, although `iot/command.go:10` says that the interlock runs at
   delivery, "against the vehicle's state right now".

The models show these as well; no run is about them:

- *An ingest path without the configured fences.* The HTTP ingest evaluates
  geofences (`iot/ingest_http.go:117`), and `cmd/ingest` never loads the table, so
  it keeps the built-in ones, although `iot/geofence_pois.go:193` wants that "every
  ingest path evaluates the same geofences".
- *Maintenance lost.* The stale job's UPDATE joins on the id alone
  (`iot/vehicle_sync.go:149`) and sets a vehicle offline that went into maintenance
  after its snapshot; the comment at line 138 excludes vehicles in maintenance.
- *An empty table means no fences.* See `GeofenceMonitor` above.
- *A second run does not agree with the first.* See `DailyReport` above.
- *A connection cut off by a clean end.* See `HQGateway` above.
- *One of two steps fails.* The overspeed row and the geofence side are saved
  before their event is inserted; if the insert fails the event is never raised. The
  stale job's events after a failed one are not published.
- A lost `MarkCommandSent` leaves a delivered command pending, and it may be
  recorded as refused later; `expires_at` is never read; a device clock ahead of
  the server makes a fix look fresh.
- Hot state is overwritten without a comparison of timestamps.
- The HTTP ingest checks neither the fuel level nor the speed a relay posts.
- A rebinding does not reach an open connection: its packets go to the old vehicle.
- A frame of the HQ port whose INSERT fails is gone, as the protocol has no ACK.
- `ApplyOverspeed` replaces a minimum duration of zero; a vehicle that stands
  keeps its breach open.
- `iot/hq.go:287` says that keepalive noise before a frame is "stripped by
  ParseHQFrame". Only blanks, stars and hashes are; with any other byte before
  its star the frame is dropped. And of a frame the star and hash count towards
  `maxHQFrame`, the hash being allowed as one byte more.
- Bytes between the trailing count and the end of a Codec 8 data field are
  ignored, if the CRC covers them.
- `EnqueueCommand` does not tell a taken pending slot from other errors.

Read in the code only: `VerifyTable` in `pg/verify.go` resolves a table with a
statement that returns no row for a missing one, which its `Scan` reports as an
error; the branch of `AssertTableSchema` that warns that migrations have not run
is therefore not reached.

## 6. Plan

Done: commands and the Codec 8 gateway with their proofs, hot state, safety
events, HQ gateway with shutdown, live feed, daily report; then the HTTP ingest
with the device registry, the contract both ingest paths implement, the wire
formats, and the proofs that the HTTP ingest implements the contract and that
the live feed is faithful; then the proofs about orderly runs (alerts, crossings)
and the contract of the TCP servers with its proof; then the proof that a day's
report and its fuel events are what the pings show. What is left, in this order:

1. `Pipeline`: the inner steps of the registry sync (`HotState`,
   `GeofenceMonitor`, `OverspeedMonitor`) composed for one batch and one context
   that may expire between them. The state is the product of three modules whose
   own runs have up to millions of states, so it needs a coarser form of each.
2. Abstract specifications: an episode that alerts once, refined by
   `OverspeedMonitor` in orderly runs; an outbox that is true, refined by `HotState`.
3. The status word and the protocol column of the registry.
4. Proofs: with the powers of `Base` as a recursive function, that `Field` reads what
   `Bytes` writes, and from there that `ParseData` reads what `WrittenData` writes,
   for any records.

## 7. Not modelled

- `crc16IBM` bit by bit: it is a constant of `Codec8`, and the run uses a
  checksum that tells apart what it has to.
- The fields of a record's header and of an HQ frame below what the properties
  tell apart (coordinates, times and speeds are values, not digits).
- The Codec 12 encoder, which no gateway calls.
- The Redis path of the hub (`iot/envelope.go` and the calls to go-redis): of the
  library the repository has only the calls.
- `pg/connect.go` and `pg/verify.go`: a retry loop and read-only checks at start
  whose results are logged.
- `RecordStatusWord` and `SetDeviceProtocol`, which are written and not read here.
- The confidence and litres of fuel events, the queries of reports, formatting of
  events, HTTP routing and headers, configuration from the environment, the replay
  tool; and the fleet service, of which only what this code relies on appears.
