------------------------------ MODULE DailyReport ------------------------------
(***************************************************************************)
(* What the nightly job makes of one vehicle's day: the row of             *)
(* telemetry_daily and the fuel events (iot/aggregate.go), and the reads   *)
(* and writes of iot/store.go it does that with.  The job itself belongs   *)
(* to another service: it loads a day's pings, derives, and writes, in any *)
(* order and maybe not to the end.  The trips (iot/trip_detect.go) are a   *)
(* function of the same pings, which nothing here calls or stores.         *)
(*                                                                         *)
(* A gateway computes a ping's fuel level from the sensor its device was   *)
(* fitted with (iot/fuel_sensor.go); the HTTP ingest keeps what a relay    *)
(* posts.  Speeds and levels a ping may lack are sets of at most one       *)
(* number; times are minutes of the day, distances half kilometres along a *)
(* road, levels whole percents.  Fuel used is in percents of the tank,     *)
(* whose capacity is known.                                                *)
(***************************************************************************)
EXTENDS Integers, FiniteSets, Sequences, SequencesExt

CONSTANTS
  Minutes,    \* minutes at which pings may be taken
  PlaceAt,    \* where the vehicle is then
  PingSpeeds, \* speeds of pings, in km/h; nobody checks them
  Records,    \* what trackers send, and the fuel mapping of their device
  Levels,     \* levels that relays post; nobody checks these, either
  Posted,     \* what relays post
  Element,    \* id of the element with the fuel level
  MaxPings    \* bound: how many pings the day gets

\* Thresholds of the code: km/h, percents, minutes, half kilometres.
Threshold  == 5
GapCap     == 10
RefuelMin  == 5
DropMin    == 3
DropMaxGap == 5
TripEndGap == 20
TripMinKm  == 1
TripMinDur == 5

AtMostOne(S) == {{}} \cup {{x} : x \in S}

ASSUME DayAssumption ==
  /\ Minutes \subseteq Nat /\ PlaceAt \in [Minutes -> Int] /\ PingSpeeds \subseteq Int
  /\ \A r \in Records : /\ r.speed \in AtMostOne(PingSpeeds)
                        /\ r.row \in [io : Nat, scale : Int, offset : Int]
                        /\ \A io \in DOMAIN r.ios : r.ios[io] \in Int
  /\ \A r \in Posted : r.speed \in AtMostOne(PingSpeeds) /\ r.fuel \in AtMostOne(Levels)
  /\ Levels \subseteq Int /\ Element \in Nat \ {0} /\ MaxPings \in Nat

VARIABLES
  pings,    \* telemetry_timeseries: the vehicle's pings of the day
  daily,    \* telemetry_daily: its row for the day, if it has one
  events,   \* fuel_events
  batch,    \* the pings the job has loaded
  todo,     \* what it has still to write
  ever,     \* history: every ping of the day, purged or not
  late,     \* history: a ping came after a newer one, or again after a purge
  summed,   \* history: the pings the row was made of
  scanned   \* history: those the fuel events were last looked for in

nightly == <<batch, todo>>
reports == <<daily, events, summed, scanned>>
dayVars == <<pings, reports, nightly, ever, late>>

DayPing   == [ts : Minutes, speed : AtMostOne(PingSpeeds), at : Int,
              fuel : AtMostOne(0 .. 100 \cup Levels)]
Kinds     == {"refuel", "drop"}
FuelEvent == [kind : Kinds, ts : Minutes, delta : Int]

-----------------------------------------------------------------------------
(* The fuel sensor *)

DefaultFuelSensor == [io |-> Element, scale |-> 1, offset |-> 0]

Percent(sensor, raw) ==
  LET pct == raw * sensor.scale + sensor.offset
  IN IF pct < 0 THEN 0 ELSE IF pct > 100 THEN 100 ELSE pct

\* A row without a mapping has the default one.
SensorOf(row) == IF row.scale = 0 THEN DefaultFuelSensor ELSE row

\* The level in a record, if its sensor is in use and the record carries it.
FuelFrom(sensor, ios) ==
  IF sensor.io # 0 /\ sensor.scale > 0 /\ sensor.io \in DOMAIN ios
  THEN {Percent(sensor, ios[sensor.io])} ELSE {}

-----------------------------------------------------------------------------
(* AggregateDay *)

Gap(prev, p)  == p.ts - prev.ts
Distance(prev, p) == IF prev.at < p.at THEN p.at - prev.at ELSE prev.at - p.at

\* Mutant of Capped: a silence counts in full.
CappedNever(gap) == gap

Capped(gap) == IF gap > GapCap THEN GapCap ELSE gap

Total(S)  == FoldSet(LAMBDA x, n : x + n, 0, S)

\* The mean of the speeds that the two pings have, compared with the threshold.
Moving(prev, p) ==
  IF prev.speed # {} /\ p.speed # {}
  THEN Total(prev.speed) + Total(p.speed) >= 2 * Threshold
  ELSE Total(prev.speed \cup p.speed) >= Threshold

\* The change of the level, if both pings have one.
Delta(prev, p) == {b - a : a \in prev.fuel, b \in p.fuel}

\* Mutant of FuelEvents: a fall in a long silence is a drop, too.
FuelEventsAnyGap(prev, p) ==
  LET kind(d) == IF d >= RefuelMin THEN "refuel" ELSE "drop"
  IN {[kind |-> kind(d), ts |-> p.ts, delta |-> d] :
        d \in {x \in Delta(prev, p) : x >= RefuelMin \/ x <= -DropMin}}

\* The fuel event between two consecutive pings, if there is one.
FuelEvents(prev, p) ==
  LET kind(d) == IF d >= RefuelMin THEN "refuel" ELSE "drop"
  IN {[kind |-> kind(d), ts |-> p.ts, delta |-> d] :
        d \in {x \in Delta(prev, p) :
                 x >= RefuelMin \/ (x <= -DropMin /\ Gap(prev, p) <= DropMaxGap)}}

Zero == [distance |-> 0, moving |-> 0, idle |-> 0, used |-> 0, max |-> 0, speeds |-> 0,
         samples |-> 0, fuel |-> FALSE, events |-> {}]

\* A ping by itself ...
Count(sum, p) ==
  [sum EXCEPT !.max     = IF \E v \in p.speed : v > sum.max THEN Total(p.speed) ELSE sum.max,
              !.speeds  = sum.speeds + Total(p.speed),
              !.samples = sum.samples + Cardinality(p.speed),
              !.fuel    = sum.fuel \/ p.fuel # {}]

\* ... and with the one before.  A rise, refuel or not, is no consumption.
Between(sum, prev, p) ==
  LET gap == Capped(Gap(prev, p))
  IN [sum EXCEPT !.distance = sum.distance + Distance(prev, p),
                 !.moving   = sum.moving + (IF Moving(prev, p) THEN gap ELSE 0),
                 !.idle     = sum.idle + (IF Moving(prev, p) THEN 0 ELSE gap),
                 !.used     = sum.used + Total({-d : d \in {x \in Delta(prev, p) : x < 0}}),
                 !.events   = sum.events \cup FuelEvents(prev, p)]

\* The pings in order of time.
Sorted(B) ==
  CHOOSE day \in [1 .. Cardinality(B) -> B] : \A i, j \in DOMAIN day : i < j => day[i].ts < day[j].ts

AggregateDay(B) ==
  LET day == Sorted(B)
      sum[i \in 0 .. Len(day)] ==
        IF i = 0 THEN Zero
        ELSE IF i = 1 THEN Count(sum[0], day[1])
        ELSE Between(Count(sum[i - 1], day[i]), day[i - 1], day[i])
  IN sum[Len(day)]

\* The row: a maximum of 0 and averages of nothing are left out.
Summary(B) ==
  LET day == Sorted(B)
      sum == AggregateDay(B)
  IN [count    |-> Len(day), first |-> day[1].ts, last |-> day[Len(day)].ts,
      distance |-> sum.distance, moving |-> sum.moving, idle |-> sum.idle,
      max      |-> IF sum.max > 0 THEN {sum.max} ELSE {},
      speeds   |-> IF sum.samples > 0 THEN {<<sum.speeds, sum.samples>>} ELSE {},
      used     |-> IF sum.fuel THEN {sum.used} ELSE {}]

-----------------------------------------------------------------------------
(* DetectTripsFromPings *)

Fast(p) == \E v \in p.speed : v >= Threshold

Idle == [active |-> FALSE, start |-> 0, last |-> 0, km |-> 0, out |-> {}]

CloseTrip(t) ==
  LET long == t.active /\ t.km >= TripMinKm /\ t.last - t.start >= TripMinDur
  IN [Idle EXCEPT !.out = IF long THEN t.out \cup {[start |-> t.start, end |-> t.last, km |-> t.km]}
                                  ELSE t.out]

\* The next ping of a trip, or one that may begin a trip.
Drive(t, prev, p) ==
  LET on == [t EXCEPT !.km = t.km + Distance(prev, p), !.last = p.ts]
  IN CASE t.active /\ Fast(p) -> on
       [] t.active /\ ~Fast(p) -> CloseTrip(on)
       [] ~t.active /\ Fast(p) -> [t EXCEPT !.active = TRUE, !.start = p.ts, !.last = p.ts]
       [] OTHER -> t

\* Mutant of Follow: a gap does not end the trip.
FollowAnyGap(t, prev, p) == Drive(t, prev, p)

\* A gap ends the trip before the ping is looked at.
Follow(t, prev, p) == Drive(IF Gap(prev, p) > TripEndGap THEN CloseTrip(t) ELSE t, prev, p)

DetectTrips(B) ==
  LET day == Sorted(B)
      trip[i \in 0 .. Len(day)] ==
        IF i = 0 THEN Idle
        ELSE IF i = 1 THEN Drive(Idle, day[1], day[1])
        ELSE Follow(trip[i - 1], day[i - 1], day[i])
  IN IF Len(day) < 2 THEN {} ELSE CloseTrip(trip[Len(day)]).out

-----------------------------------------------------------------------------
(* The table, and the job *)

\* A ping is stored, in time or late.  A second one with the key of one in the
\* table is dropped by ON CONFLICT.
InsertPing(ts, speed, fuel) ==
  /\ Cardinality(ever) < MaxPings
  /\ \A q \in pings : q.ts # ts
  /\ LET p == [ts |-> ts, speed |-> speed, fuel |-> fuel, at |-> PlaceAt[ts]]
     IN pings' = pings \cup {p} /\ ever' = ever \cup {p}
  /\ late' = (late \/ \E q \in ever : q.ts >= ts)
  /\ UNCHANGED <<reports, nightly>>

\* From a tracker, the level its device's sensor shows ...
InsertRecord(ts) == \E r \in Records : InsertPing(ts, r.speed, FuelFrom(SensorOf(r.row), r.ios))

\* ... from a relay, whatever it posts.
InsertPosted(ts) == \E r \in Posted : InsertPing(ts, r.speed, r.fuel)

\* Retention; daily rows and events stay.
PurgeBefore(cutoff) ==
  /\ \E p \in pings : p.ts < cutoff
  /\ pings' = {p \in pings : p.ts >= cutoff}
  /\ UNCHANGED <<reports, nightly, ever, late>>

\* The job visits a day that has pings, and derives everything at once.
PingsForDay ==
  /\ todo = {} /\ pings # {}
  /\ batch' = pings
  /\ todo' = {"summary", "events"}
  /\ UNCHANGED <<pings, reports, ever, late>>

\* Mutant of UpsertDaily: a row that is there stays beside the new one.
UpsertDailyBeside ==
  /\ "summary" \in todo
  /\ daily' = daily \cup {Summary(batch)}
  /\ summed' = batch
  /\ todo' = todo \ {"summary"}
  /\ batch' = IF todo' = {} THEN {} ELSE batch
  /\ UNCHANGED <<pings, events, scanned, ever, late>>

\* Insert or replace.
UpsertDaily ==
  /\ "summary" \in todo
  /\ daily' = {Summary(batch)}
  /\ summed' = batch
  /\ todo' = todo \ {"summary"}
  /\ batch' = IF todo' = {} THEN {} ELSE batch
  /\ UNCHANGED <<pings, events, scanned, ever, late>>

\* One transaction; an event whose key is taken stays as it is.
InsertFuelEvents ==
  /\ "events" \in todo
  /\ events' = events \cup {e \in AggregateDay(batch).events :
                              \A x \in events : x.ts # e.ts \/ x.kind # e.kind}
  /\ scanned' = batch
  /\ todo' = todo \ {"events"}
  /\ batch' = IF todo' = {} THEN {} ELSE batch
  /\ UNCHANGED <<pings, daily, summed, ever, late>>

\* An error, or the end of the job.
Abandon ==
  /\ todo # {}
  /\ todo' = {} /\ batch' = {}
  /\ UNCHANGED <<pings, reports, ever, late>>

DayInit ==
  /\ pings = {} /\ ever = {} /\ late = FALSE
  /\ daily = {} /\ events = {} /\ summed = {} /\ scanned = {}
  /\ batch = {} /\ todo = {}

DayNext ==
  \/ \E ts \in Minutes : InsertRecord(ts) \/ InsertPosted(ts)
  \/ \E cutoff \in Minutes : PurgeBefore(cutoff)
  \/ PingsForDay \/ UpsertDaily \/ InsertFuelEvents \/ Abandon

DaySpec == DayInit /\ [][DayNext]_dayVars

-----------------------------------------------------------------------------
(* Properties *)

\* Every variable has its type, and the day has one row at most.  A level is a
\* percentage, however a tracker's sensor is calibrated, or what a relay posted.
DayTypeOK ==
  /\ pings \subseteq DayPing /\ ever \subseteq DayPing /\ late \in BOOLEAN
  /\ batch \subseteq DayPing /\ summed \subseteq DayPing /\ scanned \subseteq DayPing
  /\ Cardinality(daily) <= 1 /\ events \subseteq FuelEvent
  /\ todo \subseteq {"summary", "events"}

\* What follows says of a set of pings what they show, without an order to go
\* through them: consecutive pings, and sums over these.
Consecutive(B) ==
  {pair \in B \X B : /\ pair[1].ts < pair[2].ts
                     /\ \A c \in B : c.ts <= pair[1].ts \/ pair[2].ts <= c.ts}

SumOver(S, f(_, _)) == MapThenSumSet(LAMBDA pair : f(pair[1], pair[2]), S)

\* Of the time between two pings, the minutes that count; of their levels, the fall.
Counted(a, b) == IF b.ts - a.ts < 10 THEN b.ts - a.ts ELSE 10
Fall(a, b)    == Total({x - y : x \in a.fuel, y \in {y \in b.fuel : y < Total(a.fuel)}})

RowShows(row, B) ==
  LET C == Consecutive(B)
  IN /\ row.count = Cardinality(B)
     /\ \A p \in B : row.first <= p.ts /\ p.ts <= row.last
     /\ row.distance = SumOver(C, Distance)
     /\ row.moving + row.idle = SumOver(C, Counted)
     /\ row.moving > 0 <=> \E pair \in C : Moving(pair[1], pair[2])
     /\ row.max = {v \in PingSpeeds : /\ v > 0 /\ \E p \in B : v \in p.speed
                                      /\ \A p \in B : \A w \in p.speed : w <= v}
     /\ row.used = IF \A p \in B : p.fuel = {} THEN {}
                   ELSE {SumOver(C, Fall)}

\* A trip begins with a fast ping that does not go on from another one, and ends
\* with the next slow ping or before the next gap.
TripsOf(B) ==
  LET goesOn(a, b) == Fast(a) /\ b.ts - a.ts <= TripEndGap
      starts == {p \in B : Fast(p) /\ \A pair \in Consecutive(B) : pair[2] = p => ~goesOn(pair[1], p)}
      stops  == {p \in B : ~Fast(p)} \cup
                {p \in B : \A pair \in Consecutive(B) : pair[1] = p => ~goesOn(p, pair[2])}
      endOf(p) == CHOOSE q \in stops : q.ts >= p.ts /\ \A r \in stops : r.ts >= p.ts => r.ts >= q.ts
      km(p, q) == SumOver({pair \in Consecutive(B) : p.ts <= pair[1].ts /\ pair[2].ts <= q.ts}, Distance)
  IN {trip \in {[start |-> p.ts, end |-> endOf(p).ts, km |-> km(p, endOf(p))] : p \in starts} :
        trip.km >= TripMinKm /\ trip.end - trip.start >= TripMinDur}

\* The report of a day is what the pings it was made of show, in whatever order
\* they came: no minute counts twice, a silence for at most ten minutes, every
\* fall of the tank once.  And each drive in those pings is one trip for
\* DetectTripsFromPings.
ReportMatchesTrack ==
  /\ \A row \in daily : RowShows(row, summed)
  /\ DetectTrips(summed) = TripsOf(summed)

\* The fuel events that a track shows between consecutive pings.
EventsOf(B) ==
  LET changes == UNION {{[ts |-> pair[2].ts, after |-> pair[2].ts - pair[1].ts, delta |-> y - x] :
                           x \in pair[1].fuel, y \in pair[2].fuel} : pair \in Consecutive(B)}
      as(kind, S) == {[kind |-> kind, ts |-> c.ts, delta |-> c.delta] : c \in S}
  IN as("refuel", {c \in changes : c.delta >= RefuelMin}) \cup
     as("drop", {c \in changes : -c.delta >= DropMin /\ c.after <= DropMaxGap})

\* While pings come in order, runs of the job, repeated, cut short or after a
\* purge, store the events the track shows and no other: no refuel is counted
\* twice, and none of the last pings looked at is missing.
EventsMatchTrack == ~late => EventsOf(scanned) \subseteq events /\ events \subseteq EventsOf(ever)
=============================================================================
