----------------------------- MODULE HTTPIngest -----------------------------
(***************************************************************************)
(* The HTTP ingest (cmd/ingest, iot/ingest_http.go), the device registry   *)
(* its requests are judged by (iot/store.go) and a relay that posts        *)
(* batches of pings until it is answered.                                  *)
(*                                                                         *)
(* Each request is served by a goroutine of its own, split where it leaves *)
(* the process: the lookup of the API key, the INSERT, the registry sync,  *)
(* MarkSeen and the fan-out.  A relay that gives up on an answer sends the *)
(* batch again while the old request may still be at work: its context is  *)
(* cancelled, so each later statement of it may fail.                      *)
(*                                                                         *)
(* Of the registry sync only which ping it takes is here (see HotState,    *)
(* GeofenceMonitor and OverspeedMonitor).  Malformed JSON and invalid      *)
(* coordinates, which are refused at the same point, are both ~valid.      *)
(***************************************************************************)
EXTENDS Integers, Sequences, FiniteSets

CONSTANTS
  Pings,      \* what the relay may report
  Body,       \* each ping's vehicleId, ts and whether it is well-formed
  Batches,    \* the sequences of pings the relay posts
  Vehicles,   \* rows of vehicles
  NoVehicle,  \* a NULL vehicle_id, or no vehicleId in the ping
  NoTime,     \* no ts in the ping
  Devices,    \* ids of iot_devices
  Keys,       \* API keys
  NoKey,      \* a NULL api_key_hash, or no Authorization header
  Requests,   \* requests that can be under way
  IPOf,       \* the client address each request comes from
  NoIP,       \* a NULL last_ip
  Never,      \* a NULL last_seen
  MaxBatch,   \* MaxIngestBatch
  MaxAge,     \* how old a ping's ts may be (24 h)
  MaxAhead,   \* how far ahead of the server a ping's ts may be (5 min)
  Interval,   \* MarkSeenInterval
  MaxNow,     \* bound: the last moment
  MaxEdits,   \* bound: how often an operator edits the registry
  MaxFaults   \* bound: how many errors, lost answers and crashes there may be

Binding == Vehicles \cup {NoVehicle}

Moments == 0 .. MaxNow

ASSUME BodyAssumption ==
  /\ Body \in [Pings -> [vehicle : Binding, ts : Int \cup {NoTime}, valid : BOOLEAN]]
  /\ NoTime \notin Int
  /\ Batches \subseteq Seq(Pings)

\* No ping is in two batches, or twice in one.
ASSUME BatchAssumption ==
  \A b, c \in Batches : \A i \in DOMAIN b, j \in DOMAIN c : b[i] = c[j] => b = c /\ i = j

ASSUME IdAssumption ==
  /\ Devices # {}
  /\ NoVehicle \notin Vehicles /\ NoKey \notin Keys /\ Never \notin Int
  /\ NoIP \notin {IPOf[h] : h \in Requests}

ASSUME BoundAssumption ==
  /\ MaxBatch \in Nat /\ MaxAge \in Nat /\ MaxAhead \in Nat /\ Interval \in Nat
  /\ MaxNow \in Nat /\ MaxEdits \in Nat /\ MaxFaults \in Nat

VARIABLES
  registry,   \* iot_devices
  issued,     \* history: the keys ever issued
  rows,       \* telemetry_timeseries
  live,       \* history: the positions published to the hub
  synced,     \* history: the positions the vehicle registry was set to
  heard,      \* history: when MarkSeen last ran for each device
  held,       \* the batches the relay has to deliver
  forgotten,  \* history: the pings of the batches it is done with, each with the
              \* vehicle it was accepted for (NoVehicle: it was rejected)
  relayKey,   \* the key the relay is configured with
  stage,      \* where each request is ("idle": there is none)
  batch,      \* its batch
  key,        \* its key
  device,     \* the device it was authenticated as
  pings,      \* the rows it wants to store
  gone,       \* the relay has given up on it
  good,       \* history: the bindings of the active device that had its key, at
              \* the moments since it was sent
  now, edits, faults

relay   == <<held, forgotten, relayKey>>
tables  == <<rows, live, synced>>
locals  == <<batch, key, device, pings, gone, good>>
vars    == <<registry, issued, tables, heard, relay, stage, locals, now, edits, faults>>

Answers == {"accepted", "rejected", "unauthorized"}

Stages == {"idle", "authenticate", "insert", "sync", "seen", "publish"} \cup Answers

Fault == faults < MaxFaults /\ faults' = faults + 1

Goto(h, from, to) == stage[h] = from /\ stage' = [stage EXCEPT ![h] = to]

\* The bindings a request with key k may be served under, by registry R.
GoodFor(R, k) ==
  {R[d].vehicle : d \in {e \in Devices : R[e].state = "active" /\ R[e].key = k /\ k # NoKey}}

\* The request is over, and its locals with it.
Close(h) ==
  /\ stage' = [stage EXCEPT ![h] = "idle"]
  /\ batch' = [batch EXCEPT ![h] = <<>>]
  /\ key' = [key EXCEPT ![h] = NoKey]
  /\ pings' = [pings EXCEPT ![h] = <<>>]
  /\ gone' = [gone EXCEPT ![h] = FALSE]
  /\ good' = [good EXCEPT ![h] = {}]
  /\ UNCHANGED device

\* The answer is written; a relay that has given up does not read it.
Answer(h, answer) ==
  \/ ~gone[h] /\ stage' = [stage EXCEPT ![h] = answer] /\ UNCHANGED locals
  \/ gone[h] /\ Close(h)

\* A statement fails: its context was cancelled, or the database has a fault.
StatementFails(h) == (gone[h] /\ UNCHANGED faults) \/ Fault

Elements(b) == {b[i] : i \in DOMAIN b}

-----------------------------------------------------------------------------
(* The relay *)

Done == {f.rec : f \in forgotten}

Offer(b) ==
  /\ b \notin held /\ Elements(b) \cap Done = {}
  /\ held' = held \cup {b}
  /\ UNCHANGED <<registry, issued, tables, heard, forgotten, relayKey, stage,
                 locals, now, edits, faults>>

\* Some request the relay still waits for carries the batch.
Asking(b) == \E h \in Requests : stage[h] # "idle" /\ ~gone[h] /\ batch[h] = b

Send(b, h) ==
  /\ b \in held /\ ~Asking(b)
  /\ Goto(h, "idle", "authenticate")
  /\ batch' = [batch EXCEPT ![h] = b]
  /\ key' = [key EXCEPT ![h] = relayKey]
  /\ pings' = [pings EXCEPT ![h] = <<>>]
  /\ gone' = [gone EXCEPT ![h] = FALSE]
  /\ good' = [good EXCEPT ![h] = GoodFor(registry, relayKey)]
  /\ UNCHANGED <<registry, issued, tables, heard, relay, device, now, edits, faults>>

\* Accepted, the pings leave the relay's buffer.
ReadAccepted(h) ==
  /\ ~gone[h] /\ stage[h] = "accepted" /\ Close(h)
  /\ held' = held \ {batch[h]}
  /\ forgotten' = forgotten \cup
       {[rec |-> pings[h][i].rec, vehicle |-> pings[h][i].vehicle] : i \in DOMAIN pings[h]}
  /\ UNCHANGED <<registry, issued, tables, heard, relayKey, now, edits, faults>>

\* A 400 is a verdict on the batch, which the relay gives up.
ReadRejected(h) ==
  /\ ~gone[h] /\ stage[h] = "rejected" /\ Close(h)
  /\ held' = held \ {batch[h]}
  /\ forgotten' = forgotten \cup {[rec |-> p, vehicle |-> NoVehicle] : p \in Elements(batch[h])}
  /\ UNCHANGED <<registry, issued, tables, heard, relayKey, now, edits, faults>>

\* A 401 is about the key; the relay keeps the batch.
ReadUnauthorized(h) ==
  /\ ~gone[h] /\ stage[h] = "unauthorized" /\ Close(h)
  /\ UNCHANGED <<registry, issued, tables, heard, relay, now, edits, faults>>

\* The relay gives up on an answer that is late or lost.
GiveUp(h) ==
  /\ Fault
  /\ stage[h] # "idle" /\ ~gone[h]
  /\ \/ stage[h] \in Answers /\ Close(h)
     \/ /\ stage[h] \notin Answers
        /\ gone' = [gone EXCEPT ![h] = TRUE]
        /\ UNCHANGED <<stage, batch, key, device, pings, good>>
  /\ UNCHANGED <<registry, issued, tables, heard, relay, now, edits>>

\* The relay is given the key of an active device.
Configure(d) ==
  /\ registry[d].state = "active" /\ registry[d].key # NoKey
  /\ \A e \in Devices : registry[e].state = "active" => registry[e].key # relayKey
  /\ relayKey' = registry[d].key
  /\ UNCHANGED <<registry, issued, tables, heard, held, forgotten, stage, locals,
                 now, edits, faults>>

-----------------------------------------------------------------------------
(* A request *)

\* A ping goes to the vehicle the device is bound to, or to the one it names.
VehicleFor(v, p) == IF v # NoVehicle THEN v ELSE Body[p].vehicle

\* Mutant of TimeFor: the zero time is stored as it is.
TimeForZero(t, p) == Body[p].ts

\* A ping without a time gets the server's.
TimeFor(t, p) == IF Body[p].ts = NoTime THEN t ELSE Body[p].ts

\* What is wrong with a ping at time t for a device bound to v.
Refused(v, t, p) ==
  \/ v # NoVehicle /\ Body[p].vehicle \notin {NoVehicle, v}
  \/ v = NoVehicle /\ Body[p].vehicle = NoVehicle
  \/ ~Body[p].valid
  \/ Body[p].ts # NoTime /\ (Body[p].ts < t - MaxAge \/ Body[p].ts > t + MaxAhead)

\* The batch is refused as a whole.
BatchRefused(v, t, b) ==
  \/ b = <<>> \/ Len(b) > MaxBatch
  \/ \E p \in Elements(b) : Refused(v, t, p)

\* The rows of a batch, in its order.
RowsOf(v, t, b) ==
  [i \in DOMAIN b |-> [vehicle |-> VehicleFor(v, b[i]), ts |-> TimeFor(t, b[i]), rec |-> b[i]]]

\* The device an API key belongs to.
HasKey(d, k) == k # NoKey /\ registry[d].key = k /\ registry[d].state \in {"active", "inactive"}

\* Mutant of Authenticated: a device that was switched off is not told apart.
AuthenticatedInactive(d, h) == stage[h] = "authenticate" /\ HasKey(d, key[h])

\* The device AuthenticateAPIKey finds for a request.  Its row is read here, once.
Authenticated(d, h) ==
  stage[h] = "authenticate" /\ HasKey(d, key[h]) /\ registry[d].state = "active"

\* No key, an unknown one or an inactive device's: a 401.
Deny(h) ==
  /\ stage[h] = "authenticate"
  /\ \A d \in Devices : ~Authenticated(d, h)
  /\ Answer(h, "unauthorized")
  /\ UNCHANGED <<registry, issued, tables, heard, relay, now, edits, faults>>

\* Mutant of Refuse: a batch that is refused is answered like a bad key.
RefuseWith401(h) ==
  /\ \E d \in Devices :
       Authenticated(d, h) /\ BatchRefused(registry[d].vehicle, now, batch[h])
  /\ Answer(h, "unauthorized")
  /\ UNCHANGED <<registry, issued, tables, heard, relay, now, edits, faults>>

\* The batch does not pass the checks, at the time of the server: a 400.
Refuse(h) ==
  /\ \E d \in Devices :
       Authenticated(d, h) /\ BatchRefused(registry[d].vehicle, now, batch[h])
  /\ Answer(h, "rejected")
  /\ UNCHANGED <<registry, issued, tables, heard, relay, now, edits, faults>>

\* The batch passes, and its rows are made.
Admit(h) ==
  /\ \E d \in Devices :
       /\ Authenticated(d, h) /\ ~BatchRefused(registry[d].vehicle, now, batch[h])
       /\ device' = [device EXCEPT ![h] = d]
       /\ pings' = [pings EXCEPT ![h] = RowsOf(registry[d].vehicle, now, batch[h])]
  /\ stage' = [stage EXCEPT ![h] = "insert"]
  /\ UNCHANGED <<registry, issued, tables, heard, relay, batch, key, gone, good, now,
                 edits, faults>>

\* The lookup fails: like every error that is not about the key, a 400.
LookupFails(h) ==
  /\ StatementFails(h)
  /\ stage[h] = "authenticate" /\ key[h] # NoKey
  /\ Answer(h, "rejected")
  /\ UNCHANGED <<registry, issued, tables, heard, relay, now, edits>>

SameKey(r, s) == r.vehicle = s.vehicle /\ r.ts = s.ts

\* The table after the INSERTs: of the rows with one key, the first stays.
Inserted(T, new) ==
  T \cup {new[i] : i \in {j \in DOMAIN new :
                            /\ \A r \in T : ~SameKey(r, new[j])
                            /\ \A n \in 1 .. j - 1 : ~SameKey(new[n], new[j])}}

\* InsertPings; the batch is one implicit transaction.
InsertPings(h) ==
  /\ Goto(h, "insert", "sync")
  /\ rows' = Inserted(rows, pings[h])
  /\ UNCHANGED <<registry, issued, live, synced, heard, relay, locals, now, edits, faults>>

\* Mutant of InsertFails: the error is logged and the batch accepted.
InsertFailsButAccepts(h) ==
  /\ StatementFails(h)
  /\ stage[h] = "insert"
  /\ Answer(h, "accepted")
  /\ UNCHANGED <<registry, issued, tables, heard, relay, now, edits>>

\* InsertPings returns an error, which may hide a commit: a 400.
InsertFails(h) ==
  /\ StatementFails(h)
  /\ stage[h] = "insert"
  /\ rows' \in {rows, Inserted(rows, pings[h])}
  /\ Answer(h, "rejected")
  /\ UNCHANGED <<registry, issued, live, synced, heard, relay, now, edits>>

\* newestPing: the first of the latest.
IsNewest(new, i) ==
  /\ \A j \in DOMAIN new : new[j].ts <= new[i].ts
  /\ \A j \in 1 .. i - 1 : new[j].ts < new[i].ts

\* What is published, or put into the registry, of a row.
Position(row) == [vehicle |-> row.vehicle, rec |-> row.rec]

\* ApplyVehicleHotState, ApplyGeofenceTransitions and ApplyOverspeed, for the
\* newest ping; an error of theirs is only reported.
Sync(h) ==
  /\ Goto(h, "sync", "seen")
  /\ \E i \in DOMAIN pings[h] :
       IsNewest(pings[h], i) /\ synced' = synced \cup {Position(pings[h][i])}
  /\ UNCHANGED <<registry, issued, rows, live, heard, relay, locals, now, edits, faults>>

SyncFails(h) ==
  /\ StatementFails(h)
  /\ Goto(h, "sync", "seen")
  /\ UNCHANGED <<registry, issued, tables, heard, relay, locals, now, edits>>

\* Mutant of Due: it takes the column for the time of the next write.
DueLater(d, ip) ==
  \/ registry[d].lastSeen = Never
  \/ registry[d].lastSeen > now + Interval
  \/ registry[d].lastIP # ip

\* The throttle of MarkSeen.
Due(d, ip) ==
  \/ registry[d].lastSeen = Never
  \/ registry[d].lastSeen < now - Interval
  \/ registry[d].lastIP # ip

\* MarkSeen updates the row if there still is one and it is due.
MarkSeen(h) ==
  /\ Goto(h, "seen", "publish")
  /\ LET d == device[h]
     IN /\ registry' =
             IF registry[d].state # "deleted" /\ Due(d, IPOf[h])
               THEN [registry EXCEPT ![d] = [@ EXCEPT !.lastSeen = now, !.lastIP = IPOf[h]]]
               ELSE registry
        /\ heard' = [heard EXCEPT ![d] = now]
  /\ UNCHANGED <<issued, tables, relay, locals, now, edits, faults>>

MarkSeenFails(h) ==
  /\ StatementFails(h)
  /\ Goto(h, "seen", "publish")
  /\ UNCHANGED <<registry, issued, tables, heard, relay, locals, now, edits>>

\* Mutant of Publish: only the newest ping is published.
PublishNewest(h) ==
  /\ stage[h] = "publish"
  /\ \E i \in DOMAIN pings[h] :
       IsNewest(pings[h], i) /\ live' = live \cup {Position(pings[h][i])}
  /\ Answer(h, "accepted")
  /\ UNCHANGED <<registry, issued, rows, synced, heard, relay, now, edits, faults>>

\* Hub.Publish, for every ping of the batch, and the 202.
Publish(h) ==
  /\ stage[h] = "publish"
  /\ live' = live \cup {Position(pings[h][i]) : i \in DOMAIN pings[h]}
  /\ Answer(h, "accepted")
  /\ UNCHANGED <<registry, issued, rows, synced, heard, relay, now, edits, faults>>

\* The process dies with all its requests.
Crash ==
  /\ Fault
  /\ \E h \in Requests : stage[h] # "idle"
  /\ stage' = [h \in Requests |-> "idle"]
  /\ batch' = [h \in Requests |-> <<>>]
  /\ key' = [h \in Requests |-> NoKey]
  /\ pings' = [h \in Requests |-> <<>>]
  /\ gone' = [h \in Requests |-> FALSE]
  /\ good' = [h \in Requests |-> {}]
  /\ UNCHANGED <<registry, issued, tables, heard, relay, device, now, edits>>

-----------------------------------------------------------------------------
(* The registry *)

\* An operator changes a device's row; requests under way do not notice.
Edit(d, row) ==
  /\ edits < MaxEdits
  /\ edits' = edits + 1
  /\ registry' = [registry EXCEPT ![d] = row]
  /\ good' = [h \in Requests |-> good[h] \cup GoodFor(registry', key[h])]
  /\ UNCHANGED <<tables, heard, relay, stage, batch, key, device, pings, gone, now, faults>>

\* CreateDevice, with a key or without; the id is a new one.
CreateDevice(d, k, v) ==
  /\ registry[d].state = "unused"
  /\ k \notin issued
  /\ Edit(d, [key |-> k, vehicle |-> v, state |-> "active", lastSeen |-> Never, lastIP |-> NoIP])
  /\ issued' = issued \cup ({k} \ {NoKey})

UpdateDevice(d, v, state) ==
  /\ registry[d].state \in {"active", "inactive"}
  /\ Edit(d, [registry[d] EXCEPT !.vehicle = v, !.state = state])
  /\ UNCHANGED issued

DeleteDevice(d) ==
  /\ registry[d].state \in {"active", "inactive"}
  /\ Edit(d, [registry[d] EXCEPT !.state = "deleted"])
  /\ UNCHANGED issued

\* RotateAPIKey replaces the key by a new random one.
RotateAPIKey(d, k) ==
  /\ registry[d].state \in {"active", "inactive"}
  /\ k \notin issued
  /\ Edit(d, [registry[d] EXCEPT !.key = k])
  /\ issued' = issued \cup {k}

Tick ==
  /\ now < MaxNow
  /\ now' = now + 1
  /\ UNCHANGED <<registry, issued, tables, heard, relay, stage, locals, edits, faults>>

-----------------------------------------------------------------------------

Unused == [key |-> NoKey, vehicle |-> NoVehicle, state |-> "unused",
           lastSeen |-> Never, lastIP |-> NoIP]

Init ==
  /\ registry = [d \in Devices |-> Unused]
  /\ issued = {} /\ relayKey = NoKey
  /\ rows = {} /\ live = {} /\ synced = {}
  /\ heard = [d \in Devices |-> Never]
  /\ held = {} /\ forgotten = {}
  /\ stage = [h \in Requests |-> "idle"]
  /\ batch = [h \in Requests |-> <<>>]
  /\ key = [h \in Requests |-> NoKey]
  /\ device = [h \in Requests |-> CHOOSE d \in Devices : TRUE]
  /\ pings = [h \in Requests |-> <<>>]
  /\ gone = [h \in Requests |-> FALSE]
  /\ good = [h \in Requests |-> {}]
  /\ now = 0 /\ edits = 0 /\ faults = 0

Post(b) == \E h \in Requests : Send(b, h)

Read(h) == ReadAccepted(h) \/ ReadRejected(h) \/ ReadUnauthorized(h)

Serve(h) ==
  \/ Deny(h) \/ Refuse(h) \/ Admit(h) \/ InsertPings(h) \/ Sync(h) \/ MarkSeen(h) \/ Publish(h)

Fail(h) == LookupFails(h) \/ InsertFails(h) \/ SyncFails(h) \/ MarkSeenFails(h)

Operate ==
  \E d \in Devices :
    \/ \E k \in Keys \cup {NoKey}, v \in Binding : CreateDevice(d, k, v)
    \/ \E v \in Binding, s \in {"active", "inactive"} : UpdateDevice(d, v, s)
    \/ DeleteDevice(d)
    \/ \E k \in Keys : RotateAPIKey(d, k)

Next ==
  \/ \E b \in Batches : Offer(b) \/ Post(b)
  \/ \E h \in Requests : Read(h) \/ GiveUp(h) \/ Serve(h) \/ Fail(h)
  \/ \E d \in Devices : Configure(d)
  \/ Operate
  \/ Crash
  \/ Tick

Spec == Init /\ [][Next]_vars

\* The relay posts what it holds and reads its answers, with a key that is
\* brought up to date; goroutines are scheduled; errors are finitely many.  The
\* steps of the relay and of the server with a request exclude one another, so
\* one condition stands for both.
Fairness ==
  /\ \A b \in Batches : WF_vars(Post(b))
  /\ \A h \in Requests : WF_vars(Read(h) \/ Serve(h) \/ Fail(h))
  /\ WF_vars(\E d \in Devices : Configure(d))

FairSpec == Spec /\ Fairness

-----------------------------------------------------------------------------
(* Properties *)

States == {"unused", "active", "inactive", "deleted"}

RowType == [vehicle : Vehicles, ts : Int, rec : Pings]

\* Every variable has its type.
TypeOK ==
  /\ registry \in [Devices -> [key : Keys \cup {NoKey}, vehicle : Binding, state : States,
                               lastSeen : Moments \cup {Never},
                               lastIP : {IPOf[h] : h \in Requests} \cup {NoIP}]]
  /\ issued \subseteq Keys
  /\ rows \subseteq RowType
  /\ live \subseteq [vehicle : Vehicles, rec : Pings]
  /\ synced \subseteq [vehicle : Vehicles, rec : Pings]
  /\ heard \in [Devices -> Moments \cup {Never}]
  /\ held \subseteq Batches
  /\ forgotten \subseteq [rec : Pings, vehicle : Binding]
  /\ relayKey \in Keys \cup {NoKey}
  /\ stage \in [Requests -> Stages]
  /\ batch \in [Requests -> Batches \cup {<<>>}]
  /\ key \in [Requests -> Keys \cup {NoKey}]
  /\ device \in [Requests -> Devices]
  /\ pings \in [Requests -> Seq(RowType)]
  /\ gone \in [Requests -> BOOLEAN]
  /\ good \in [Requests -> SUBSET Binding]
  /\ now \in Moments
  /\ edits \in 0 .. MaxEdits
  /\ faults \in 0 .. MaxFaults

\* What a request is allowed to store: at some moment since it was sent its key
\* was that of an active device, bound to the row's vehicle or to none.
Permitted(h, row) ==
  row.vehicle \in good[h] \/ NoVehicle \in good[h]

\* A row gets into the table only by a request that the registry permitted at
\* some moment since it was sent: what a rotation, a switch-off, a deletion or a
\* new binding takes away is gone for every later request, and only a request
\* that overlaps the edit may still be served by what was before.
WritesArePermitted ==
  [][\A row \in rows' \ rows :
       \E h \in Requests : row \in Elements(pings[h]) /\ Permitted(h, row)]_vars

\* The throttle never lets last_seen fall behind by more than its interval: a
\* device that was heard at some moment shows a last_seen close to it.
LastSeenIsFresh ==
  \A d \in Devices :
    heard[d] # Never /\ registry[d].state # "deleted" =>
      /\ registry[d].lastSeen # Never
      /\ registry[d].lastSeen \in heard[d] - Interval .. heard[d]

\* Every batch the relay takes on is eventually accepted or rejected, as long as
\* some active device has a key to send it with.
BatchesSettle ==
  \A b \in Batches :
    b \in held ~> \/ b \notin held
                  \/ \A d \in Devices : registry[d].state # "active" \/ registry[d].key = NoKey

\* What is in the relay's buffer.
Buffered == UNION {Elements(b) : b \in held}

\* A ping without a time may be stored at any.
TimesOf == [p \in Pings |-> IF Body[p].ts = NoTime THEN Moments ELSE {Body[p].ts}]

\* The keys of the table.
StoredKeys == {[vehicle |-> row.vehicle, ts |-> row.ts] : row \in rows}

\* The HTTP ingest and a relay that posts until it is answered implement the
\* store-and-forward contract: what was accepted with 202 is stored for its
\* vehicle and was shown, what is shown live or in the vehicle registry is
\* stored, whatever is retried, cancelled, edited or restarted.
Contract == INSTANCE StoreAndForward
              WITH held <- Buffered, stored <- StoredKeys, shown <- live \cup synced,
                   Usable <- Pings
ContractSpec == Contract!Spec
=============================================================================
