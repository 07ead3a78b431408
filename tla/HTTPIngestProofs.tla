-------------------------- MODULE HTTPIngestProofs --------------------------
(***************************************************************************)
(* Proofs about HTTPIngest, for any number of devices, keys, batches and   *)
(* overlapping requests: what gets into the tables is permitted by the     *)
(* registry, last_seen keeps up with the device, and the HTTP ingest       *)
(* implements StoreAndForward.                                             *)
(***************************************************************************)
EXTENDS HTTPIngest, WellFoundedInduction, TLAPS

-----------------------------------------------------------------------------
(* Types *)

RequestType ==
  /\ stage \in [Requests -> Stages]
  /\ batch \in [Requests -> Batches \cup {<<>>}]
  /\ key \in [Requests -> Keys \cup {NoKey}]
  /\ device \in [Requests -> Devices]
  /\ pings \in [Requests -> Seq(RowType)]
  /\ gone \in [Requests -> BOOLEAN]
  /\ good \in [Requests -> SUBSET Binding]

Deeds == {"insert", "sync", "seen", "publish"} \cup Answers

\* A request that ends, or is answered, keeps the types.
LEMMA AnswerType ==
  ASSUME RequestType, NEW h \in Requests, NEW a \in Answers, Close(h) \/ Answer(h, a)
  PROVE  RequestType'
<1>1. <<>> \in Seq(RowType)
  OBVIOUS
<1>2. CASE Close(h)
  BY <1>1, <1>2 DEF RequestType, Close, Stages
<1>3. CASE ~gone[h] /\ stage' = [stage EXCEPT ![h] = a] /\ UNCHANGED locals
  BY <1>3 DEF RequestType, Stages, locals
<1> QED
  BY <1>2, <1>3 DEF Answer

\* A request that only goes on keeps the types.
LEMMA GotoType ==
  ASSUME RequestType, NEW h \in Requests, NEW a \in Stages, NEW b \in Stages,
         Goto(h, a, b), UNCHANGED locals
  PROVE  RequestType'
BY DEF RequestType, Goto, locals

\* The binding of a device that an active key belongs to is a binding.
LEMMA GoodType ==
  ASSUME NEW R, \A d \in Devices : R[d].vehicle \in Binding, NEW k
  PROVE  GoodFor(R, k) \subseteq Binding
BY DEF GoodFor

\* A batch is a sequence of pings.
LEMMA BatchType ==
  ASSUME NEW b \in Batches \cup {<<>>}
  PROVE  b \in Seq(Pings) /\ Elements(b) \subseteq Pings
<1>1. <<>> \in Seq(Pings)
  OBVIOUS
<1>2. b \in Seq(Pings)
  BY <1>1, BodyAssumption
<1>3. \A i \in DOMAIN b : b[i] \in Pings
  BY <1>2
<1> QED
  BY <1>2, <1>3 DEF Elements

\* The rows of a batch that passes the checks: one for each ping, of the ping and
\* at a time it may be stored at, for the device's vehicle or for any.
LEMMA RowsFacts ==
  ASSUME NEW v \in Binding, NEW t \in Moments, NEW b \in Batches \cup {<<>>},
         ~BatchRefused(v, t, b)
  PROVE  /\ RowsOf(v, t, b) \in Seq(RowType)
         /\ DOMAIN RowsOf(v, t, b) = DOMAIN b
         /\ \A i \in DOMAIN b :
              /\ RowsOf(v, t, b)[i].rec = b[i]
              /\ RowsOf(v, t, b)[i].ts \in TimesOf[b[i]]
              /\ v = NoVehicle \/ v = RowsOf(v, t, b)[i].vehicle
<1> DEFINE row(i) == [vehicle |-> VehicleFor(v, b[i]), ts |-> TimeFor(t, b[i]), rec |-> b[i]]
<1>1. b \in Seq(Pings) /\ DOMAIN b = 1 .. Len(b) /\ Len(b) \in Nat
  BY BatchType
<1>2. ASSUME NEW i \in DOMAIN b
      PROVE  row(i) \in RowType /\ row(i).ts \in TimesOf[b[i]]
             /\ (v = NoVehicle \/ v = row(i).vehicle)
  <2>1. b[i] \in Pings /\ b[i] \in Elements(b) /\ ~Refused(v, t, b[i])
    BY <1>1 DEF Elements, BatchRefused
  <2>2. Body[b[i]].vehicle \in Binding /\ Body[b[i]].ts \in Int \cup {NoTime}
    BY <2>1, BodyAssumption
  <2>3. VehicleFor(v, b[i]) \in Vehicles
    BY <2>1, <2>2, IdAssumption DEF VehicleFor, Refused, Binding
  <2>4. t \in Int
    BY DEF Moments
  <2>5. TimeFor(t, b[i]) \in Int /\ TimeFor(t, b[i]) \in TimesOf[b[i]]
    BY <2>1, <2>2, <2>4 DEF TimeFor, TimesOf
  <2> QED
    BY <2>1, <2>3, <2>5 DEF RowType, VehicleFor
<1>3. RowsOf(v, t, b) = [i \in 1 .. Len(b) |-> row(i)]
  BY <1>1 DEF RowsOf
<1>4. RowsOf(v, t, b) \in Seq(RowType)
  BY <1>1, <1>2, <1>3
<1> QED
  BY <1>1, <1>2, <1>3, <1>4

\* Of a set of positions in a sequence, one is the first.
LEMMA Least ==
  ASSUME NEW S, S \subseteq Nat, S # {}
  PROVE  \E x \in S : \A y \in S : x <= y
<1> DEFINE Less == {ss \in Nat \X Nat : ss[1] < ss[2]}
<1>1. Less = OpToRel(<, Nat)
  BY DEF OpToRel
<1>2. IsWellFoundedOn(Less, Nat)
  BY <1>1, NatLessThanWellFounded
<1>3. PICK x \in S : \A y \in S : ~(<<y, x>> \in Less)
  <2> HIDE DEF Less
  <2> QED
    BY <1>2, WFMin
<1>4. ASSUME NEW y \in S PROVE x <= y
  <2>1. y \in Nat /\ x \in Nat
    OBVIOUS
  <2>2. <<y, x>> \in Less <=> y < x
    BY <2>1
  <2> QED
    BY <2>1, <2>2, <1>3
<1> QED
  BY <1>3, <1>4

\* The table has a row with the key of this one.
KeyIn(T, row) == \E r \in T : SameKey(r, row)

\* INSERTs add only what is to be inserted.
LEMMA InsertedRows ==
  ASSUME NEW T, NEW new
  PROVE  \A row \in Inserted(T, new) \ T : \E i \in DOMAIN new : row = new[i]
BY DEF Inserted

\* INSERTs keep the table and its type, and leave a row with the key of each: its
\* own, or that of the first one with the key.
LEMMA InsertedFacts ==
  ASSUME NEW T, T \subseteq RowType, NEW new \in Seq(RowType)
  PROVE  /\ T \subseteq Inserted(T, new) /\ Inserted(T, new) \subseteq RowType
         /\ \A i \in DOMAIN new : KeyIn(Inserted(T, new), new[i])
<1>1. \A i \in DOMAIN new : new[i] \in RowType
  OBVIOUS
<1>2. ASSUME NEW i \in DOMAIN new
      PROVE  KeyIn(Inserted(T, new), new[i])
  <2>1. CASE KeyIn(T, new[i])
    BY <2>1 DEF KeyIn, Inserted
  <2>2. CASE ~KeyIn(T, new[i])
    <3> DEFINE S == {j \in DOMAIN new : SameKey(new[j], new[i])}
    <3>1. S \subseteq Nat /\ i \in S
      BY DEF SameKey
    <3>2. PICK j \in S : \A n \in S : j <= n
      BY <3>1, Least
    <3>3. /\ \A r \in T : ~SameKey(r, new[j])
          /\ \A n \in 1 .. j - 1 : ~SameKey(new[n], new[j])
      <4>1. j \in 1 .. Len(new) /\ Len(new) \in Nat
        OBVIOUS
      <4>2. ASSUME NEW n \in 1 .. j - 1, SameKey(new[n], new[j]) PROVE FALSE
        <5>1. n \in DOMAIN new /\ ~(j <= n)
          BY <4>1
        <5>2. n \in S
          BY <4>2, <5>1 DEF SameKey
        <5> QED
          BY <5>1, <5>2, <3>2
      <4> QED
        BY <4>2, <2>2 DEF KeyIn, SameKey
    <3>4. new[j] \in Inserted(T, new)
      BY <3>3 DEF Inserted
    <3> QED
      BY <3>4 DEF KeyIn
  <2> QED
    BY <2>1, <2>2
<1> QED
  BY <1>1, <1>2 DEF Inserted

-----------------------------------------------------------------------------
(* The inductive invariant *)

Logged == Buffered \cup Done

\* The rows of a request are those of its batch, one for each ping.
Made(h) ==
  /\ DOMAIN pings[h] = DOMAIN batch[h]
  /\ \A i \in DOMAIN pings[h] :
       pings[h][i].rec = batch[h][i] /\ pings[h][i].ts \in TimesOf[batch[h][i]]

Busy == {"sync", "seen", "publish", "accepted"}

\* How far a request is tells what was made, stored and shown of its batch.
Work(h) ==
  /\ stage[h] \in Busy \cup {"insert"} => Made(h)
  /\ stage[h] = "insert" => \A i \in DOMAIN pings[h] : Permitted(h, pings[h][i])
  /\ stage[h] \in Busy => \A i \in DOMAIN pings[h] : KeyIn(rows, pings[h][i])
  /\ stage[h] = "accepted" => \A i \in DOMAIN pings[h] : Position(pings[h][i]) \in live

\* The relay waits for a request of a batch it holds.
Duty(h) ==
  /\ stage[h] # "idle" /\ ~gone[h] => batch[h] \in held
  /\ Elements(batch[h]) \subseteq Logged

\* What the registry says of a key now is among what it said since the request.
Witnessed(h) ==
  /\ stage[h] = "authenticate" => GoodFor(registry, key[h]) \subseteq good[h]
  /\ stage[h] \in {"insert", "sync", "seen"} => registry[device[h]].state # "unused"

Waiting(h) == stage[h] # "idle" /\ ~gone[h]

RequestInv ==
  /\ \A h \in Requests : Work(h)
  /\ \A h \in Requests : Duty(h)
  /\ \A h \in Requests : Witnessed(h)
  /\ \A g, h \in Requests : Waiting(g) /\ Waiting(h) /\ batch[g] = batch[h] => g = h

\* The throttle, with what it rests on.
SeenInv ==
  /\ LastSeenIsFresh
  /\ \A d \in Devices :
       /\ heard[d] # Never => heard[d] <= now /\ registry[d].state # "unused"
       /\ registry[d].lastSeen # Never => registry[d].lastSeen <= now

IInv == TypeOK /\ RequestInv /\ SeenInv /\ Buffered \cap Done = {}

-----------------------------------------------------------------------------
(* Types are preserved *)

LEMMA FaultType == TypeOK /\ Fault => faults' \in 0 .. MaxFaults
BY BoundAssumption DEF TypeOK, Fault

LEMMA StatementType ==
  ASSUME TypeOK, NEW h, StatementFails(h) PROVE faults' \in 0 .. MaxFaults
BY FaultType DEF TypeOK, StatementFails

LEMMA TypeRequest == TypeOK => RequestType
BY DEF TypeOK, RequestType

\* What is not a request's.
OtherType ==
  /\ registry \in [Devices -> [key : Keys \cup {NoKey}, vehicle : Binding, state : States,
                               lastSeen : Moments \cup {Never},
                               lastIP : {IPOf[h] : h \in Requests} \cup {NoIP}]]
  /\ issued \subseteq Keys
  /\ rows \subseteq RowType
  /\ live \subseteq [vehicle : Vehicles, rec : Pings]
  /\ synced \subseteq [vehicle : Vehicles, rec : Pings]
  /\ heard \in [Devices -> Moments \cup {Never}]
  /\ held \subseteq Batches
  /\ forgotten \subseteq [rec : Pings, vehicle : Binding]
  /\ relayKey \in Keys \cup {NoKey}
  /\ now \in Moments
  /\ edits \in 0 .. MaxEdits
  /\ faults \in 0 .. MaxFaults

LEMMA TypeParts == TypeOK <=> RequestType /\ OtherType
BY DEF TypeOK, RequestType, OtherType

LEMMA TypeParts2 == TypeOK' <=> RequestType' /\ OtherType'
BY TypeParts, PTL

LEMMA TypeInit == Init => TypeOK
<1> SUFFICES ASSUME Init PROVE TypeOK
  OBVIOUS
<1>1. (CHOOSE d \in Devices : TRUE) \in Devices
  BY IdAssumption
<1>2. RequestType
  BY <1>1 DEF Init, RequestType, Stages, Answers
<1>3. registry \in [Devices -> [key : Keys \cup {NoKey}, vehicle : Binding, state : States,
                               lastSeen : Moments \cup {Never},
                               lastIP : {IPOf[h] : h \in Requests} \cup {NoIP}]]
  <2>1. Unused \in [key : Keys \cup {NoKey}, vehicle : Binding, state : States,
                    lastSeen : Moments \cup {Never},
                    lastIP : {IPOf[h] : h \in Requests} \cup {NoIP}]
    BY DEF Unused, Binding, States
  <2> QED
    BY <2>1 DEF Init
<1>4. now \in Moments /\ edits \in 0 .. MaxEdits /\ faults \in 0 .. MaxFaults
  BY BoundAssumption DEF Init, Moments
<1>5. OtherType
  BY <1>3, <1>4 DEF Init, OtherType
<1> QED
  BY <1>2, <1>5, TypeParts

\* An edit of the registry keeps the types.
LEMMA EditType ==
  ASSUME TypeOK, NEW d \in Devices,
         NEW row \in [key : Keys \cup {NoKey}, vehicle : Binding, state : States,
                      lastSeen : Moments \cup {Never},
                      lastIP : {IPOf[h] : h \in Requests} \cup {NoIP}],
         Edit(d, row), issued' \subseteq Keys
  PROVE  TypeOK'
<1>1. registry' \in [Devices -> [key : Keys \cup {NoKey}, vehicle : Binding, state : States,
                                lastSeen : Moments \cup {Never},
                                lastIP : {IPOf[h] : h \in Requests} \cup {NoIP}]]
  BY DEF Edit, TypeOK
<1>2. \A e \in Devices : registry'[e].vehicle \in Binding
  BY <1>1
<1>3. good' \in [Requests -> SUBSET Binding]
  BY <1>2, GoodType DEF Edit, TypeOK
<1>4. edits' \in 0 .. MaxEdits
  BY BoundAssumption DEF Edit, TypeOK
<1> QED
  BY <1>1, <1>3, <1>4 DEF Edit, TypeOK, tables, relay

\* The rows of a request have the type of rows.
LEMMA RowFacts ==
  ASSUME TypeOK, NEW h \in Requests, NEW i \in DOMAIN pings[h]
  PROVE  /\ pings[h][i] \in RowType
         /\ pings[h][i].vehicle \in Vehicles /\ pings[h][i].rec \in Pings
         /\ Position(pings[h][i]) \in [vehicle : Vehicles, rec : Pings]
<1>1. pings[h] \in Seq(RowType)
  BY DEF TypeOK
<1>2. pings[h][i] \in RowType
  BY <1>1
<1> QED
  BY <1>2 DEF RowType, Position

\* A request keeps the types whatever it does.
LEMMA ServeType ==
  ASSUME TypeOK, NEW h \in Requests, Serve(h) \/ Fail(h)
  PROVE  TypeOK'
<1>0. RequestType /\ OtherType
  BY TypeParts
<1> USE DEF Answers
<1>1. CASE Deny(h)
  BY <1>1, <1>0, AnswerType, TypeParts2 DEF Deny, OtherType, tables, relay
<1>2. CASE Refuse(h)
  BY <1>2, <1>0, AnswerType, TypeParts2 DEF Refuse, OtherType, tables, relay
<1>3. CASE Admit(h)
  <2>1. PICK d \in Devices :
          /\ ~BatchRefused(registry[d].vehicle, now, batch[h])
          /\ device' = [device EXCEPT ![h] = d]
          /\ pings' = [pings EXCEPT ![h] = RowsOf(registry[d].vehicle, now, batch[h])]
    BY <1>3 DEF Admit
  <2>2. RowsOf(registry[d].vehicle, now, batch[h]) \in Seq(RowType)
    BY <2>1, RowsFacts DEF TypeOK
  <2>3. RequestType'
    BY <1>3, <1>0, <2>1, <2>2 DEF Admit, RequestType, Stages
  <2> QED
    BY <1>3, <1>0, <2>3, TypeParts2 DEF Admit, OtherType, tables, relay
<1>4. CASE LookupFails(h)
  <2>1. RequestType' /\ faults' \in 0 .. MaxFaults
    BY <1>4, <1>0, AnswerType, StatementType DEF LookupFails
  <2> QED
    BY <1>4, <1>0, <2>1, TypeParts2 DEF LookupFails, OtherType, tables, relay
<1>5. CASE InsertPings(h)
  <2>1. rows' \subseteq RowType
    BY <1>5, InsertedFacts DEF InsertPings, TypeOK
  <2>2. RequestType'
    BY <1>5, <1>0, GotoType DEF InsertPings, Stages
  <2> QED
    BY <1>5, <1>0, <2>1, <2>2, TypeParts2 DEF InsertPings, OtherType, relay
<1>6. CASE InsertFails(h)
  <2>1. rows' \subseteq RowType
    <3>1. rows \subseteq RowType /\ pings[h] \in Seq(RowType)
      BY DEF TypeOK
    <3>2. Inserted(rows, pings[h]) \subseteq RowType
      BY <3>1, InsertedFacts
    <3> QED
      BY <1>6, <3>1, <3>2 DEF InsertFails
  <2>2. RequestType' /\ faults' \in 0 .. MaxFaults
    BY <1>6, <1>0, AnswerType, StatementType DEF InsertFails
  <2> QED
    BY <1>6, <1>0, <2>1, <2>2, TypeParts2 DEF InsertFails, OtherType, relay
<1>7. CASE Sync(h)
  <2>1. synced' \subseteq [vehicle : Vehicles, rec : Pings]
    BY <1>7, RowFacts DEF Sync, TypeOK
  <2>2. RequestType'
    BY <1>7, <1>0, GotoType DEF Sync, Stages
  <2> QED
    BY <1>7, <1>0, <2>1, <2>2, TypeParts2 DEF Sync, OtherType, relay
<1>8. CASE SyncFails(h)
  <2>1. RequestType' /\ faults' \in 0 .. MaxFaults
    BY <1>8, <1>0, GotoType, StatementType DEF SyncFails, Stages
  <2> QED
    BY <1>8, <1>0, <2>1, TypeParts2 DEF SyncFails, OtherType, tables, relay
<1>9. CASE MarkSeen(h)
  <2>1. registry' \in [Devices -> [key : Keys \cup {NoKey}, vehicle : Binding, state : States,
                                  lastSeen : Moments \cup {Never},
                                  lastIP : {IPOf[r] : r \in Requests} \cup {NoIP}]]
    <3>1. device[h] \in Devices /\ IPOf[h] \in {IPOf[r] : r \in Requests} /\ now \in Moments
      BY DEF TypeOK
    <3>2. CASE registry' = registry
      BY <3>2 DEF TypeOK
    <3> DEFINE row == [registry[device[h]] EXCEPT !.lastSeen = now, !.lastIP = IPOf[h]]
    <3>3. CASE registry' = [registry EXCEPT ![device[h]] = row]
      <4>0. registry[device[h]] \in [key : Keys \cup {NoKey}, vehicle : Binding, state : States,
                                     lastSeen : Moments \cup {Never},
                                     lastIP : {IPOf[r] : r \in Requests} \cup {NoIP}]
        BY <3>1 DEF TypeOK
      <4>1. row \in [key : Keys \cup {NoKey}, vehicle : Binding, state : States,
                     lastSeen : Moments \cup {Never},
                     lastIP : {IPOf[r] : r \in Requests} \cup {NoIP}]
        BY <3>1, <4>0
      <4> HIDE DEF row
      <4> QED
        BY <3>1, <3>3, <4>1 DEF TypeOK
    <3> QED
      BY <1>9, <3>2, <3>3 DEF MarkSeen
  <2>2. heard' \in [Devices -> Moments \cup {Never}]
    BY <1>9 DEF MarkSeen, TypeOK
  <2>3. RequestType'
    BY <1>9, <1>0, GotoType DEF MarkSeen, Stages
  <2> QED
    BY <1>9, <1>0, <2>1, <2>2, <2>3, TypeParts2 DEF MarkSeen, OtherType, tables, relay
<1>10. CASE MarkSeenFails(h)
  <2>1. RequestType' /\ faults' \in 0 .. MaxFaults
    BY <1>10, <1>0, GotoType, StatementType DEF MarkSeenFails, Stages
  <2> QED
    BY <1>10, <1>0, <2>1, TypeParts2 DEF MarkSeenFails, OtherType, tables, relay
<1>11. CASE Publish(h)
  <2>1. live' \subseteq [vehicle : Vehicles, rec : Pings]
    BY <1>11, RowFacts DEF Publish, TypeOK
  <2>2. RequestType'
    BY <1>11, <1>0, AnswerType DEF Publish
  <2> QED
    BY <1>11, <1>0, <2>1, <2>2, TypeParts2 DEF Publish, OtherType, relay
<1> QED
  BY <1>1, <1>2, <1>3, <1>4, <1>5, <1>6, <1>7, <1>8, <1>9, <1>10, <1>11 DEF Serve, Fail

LEMMA TypeNext == TypeOK /\ [Next]_vars => TypeOK'
<1> SUFFICES ASSUME TypeOK, [Next]_vars PROVE TypeOK'
  OBVIOUS
<1>0. RequestType /\ OtherType
  BY TypeParts
<1>1. ASSUME NEW b \in Batches, Offer(b) PROVE TypeOK'
  BY <1>1 DEF Offer, TypeOK, tables, locals
<1>2. ASSUME NEW b \in Batches, NEW h \in Requests, Send(b, h) PROVE TypeOK'
  <2>1. <<>> \in Seq(RowType)
    OBVIOUS
  <2>2. GoodFor(registry, relayKey) \subseteq Binding
    BY GoodType DEF TypeOK
  <2>3. RequestType'
    BY <1>2, <1>0, <2>1, <2>2 DEF Send, Goto, RequestType, Stages, TypeOK
  <2> QED
    BY <1>2, <1>0, <2>3, TypeParts2 DEF Send, OtherType, tables, relay
<1>3. ASSUME NEW h \in Requests, Read(h) PROVE TypeOK'
  <2>1. RequestType'
    BY <1>3, <1>0, AnswerType DEF Read, ReadAccepted, ReadRejected, ReadUnauthorized, Answers
  <2>2. CASE ReadAccepted(h)
    <3>1. forgotten' \subseteq [rec : Pings, vehicle : Binding]
      <4>1. \A i \in DOMAIN pings[h] :
              [rec |-> pings[h][i].rec, vehicle |-> pings[h][i].vehicle]
                \in [rec : Pings, vehicle : Binding]
        BY RowFacts DEF Binding
      <4> QED
        BY <2>2, <4>1 DEF ReadAccepted, TypeOK
    <3> QED
      BY <2>2, <1>0, <2>1, <3>1, TypeParts2 DEF ReadAccepted, OtherType, tables
  <2>3. CASE ReadRejected(h)
    <3>1. Elements(batch[h]) \subseteq Pings
      BY BatchType DEF TypeOK
    <3>2. forgotten' \subseteq [rec : Pings, vehicle : Binding]
      BY <2>3, <3>1 DEF ReadRejected, TypeOK, Binding
    <3> QED
      BY <2>3, <1>0, <2>1, <3>2, TypeParts2 DEF ReadRejected, OtherType, tables
  <2>4. CASE ReadUnauthorized(h)
    BY <2>4, <1>0, <2>1, TypeParts2 DEF ReadUnauthorized, OtherType, tables, relay
  <2> QED
    BY <1>3, <2>2, <2>3, <2>4 DEF Read
<1>4. ASSUME NEW h \in Requests, GiveUp(h) PROVE TypeOK'
  <2>1. CASE Close(h)
    <3>1. RequestType'
      BY <1>0, <2>1, AnswerType DEF Answers
    <3> QED
      BY <1>4, <1>0, <3>1, FaultType, TypeParts2 DEF GiveUp, OtherType, tables, relay
  <2>2. CASE ~Close(h)
    <3>1. RequestType'
      BY <1>4, <1>0, <2>2 DEF GiveUp, RequestType
    <3> QED
      BY <1>4, <1>0, <3>1, FaultType, TypeParts2 DEF GiveUp, OtherType, tables, relay
  <2> QED
    BY <2>1, <2>2
<1>5. ASSUME NEW h \in Requests, Serve(h) \/ Fail(h) PROVE TypeOK'
  BY <1>5, ServeType
<1>6. ASSUME NEW d \in Devices, Configure(d) PROVE TypeOK'
  <2>1. relayKey' \in Keys \cup {NoKey}
    BY <1>6 DEF Configure, TypeOK
  <2> QED
    BY <1>6, <2>1 DEF Configure, TypeOK, tables, locals
<1>7. ASSUME Operate PROVE TypeOK'
  <2>1. PICK d \in Devices :
          \/ \E k \in Keys \cup {NoKey}, v \in Binding : CreateDevice(d, k, v)
          \/ \E v \in Binding, s \in {"active", "inactive"} : UpdateDevice(d, v, s)
          \/ DeleteDevice(d)
          \/ \E k \in Keys : RotateAPIKey(d, k)
    BY <1>7 DEF Operate
  <2> DEFINE Row == [key : Keys \cup {NoKey}, vehicle : Binding, state : States,
                     lastSeen : Moments \cup {Never},
                     lastIP : {IPOf[h] : h \in Requests} \cup {NoIP}]
  <2>2. registry[d] \in Row /\ issued \subseteq Keys
    BY DEF TypeOK
  <2>3. ASSUME NEW k \in Keys \cup {NoKey}, NEW v \in Binding, CreateDevice(d, k, v)
        PROVE  TypeOK'
    <3>1. [key |-> k, vehicle |-> v, state |-> "active", lastSeen |-> Never,
           lastIP |-> NoIP] \in Row
      BY DEF States
    <3>2. issued' \subseteq Keys
      BY <2>2, <2>3 DEF CreateDevice
    <3> QED
      BY <2>3, <3>1, <3>2, EditType DEF CreateDevice
  <2>4. ASSUME NEW v \in Binding, NEW s \in {"active", "inactive"}, UpdateDevice(d, v, s)
        PROVE  TypeOK'
    <3>1. [registry[d] EXCEPT !.vehicle = v, !.state = s] \in Row
      BY <2>2 DEF States
    <3> QED
      BY <2>2, <2>4, <3>1, EditType DEF UpdateDevice
  <2>5. ASSUME DeleteDevice(d) PROVE TypeOK'
    <3>1. [registry[d] EXCEPT !.state = "deleted"] \in Row
      BY <2>2 DEF States
    <3> QED
      BY <2>2, <2>5, <3>1, EditType DEF DeleteDevice
  <2>6. ASSUME NEW k \in Keys, RotateAPIKey(d, k) PROVE TypeOK'
    <3>1. [registry[d] EXCEPT !.key = k] \in Row
      BY <2>2
    <3>2. issued' \subseteq Keys
      BY <2>2, <2>6 DEF RotateAPIKey
    <3> QED
      BY <2>6, <3>1, <3>2, EditType DEF RotateAPIKey
  <2> QED
    BY <2>1, <2>3, <2>4, <2>5, <2>6
<1>8. ASSUME Crash PROVE TypeOK'
  <2>1. <<>> \in Seq(RowType)
    OBVIOUS
  <2>2. RequestType'
    BY <1>8, <1>0, <2>1 DEF Crash, RequestType, Stages
  <2> QED
    BY <1>8, <1>0, <2>2, FaultType, TypeParts2 DEF Crash, OtherType, tables, relay
<1>9. ASSUME Tick PROVE TypeOK'
  <2>1. now' \in Moments
    BY <1>9, BoundAssumption DEF Tick, TypeOK, Moments
  <2> QED
    BY <1>9, <2>1 DEF Tick, TypeOK, tables, relay, locals
<1>10. ASSUME UNCHANGED vars PROVE TypeOK'
  BY <1>10 DEF vars, TypeOK, tables, relay, locals
<1> QED
  BY <1>1, <1>2, <1>3, <1>4, <1>5, <1>6, <1>7, <1>8, <1>9, <1>10 DEF Next, Post

-----------------------------------------------------------------------------
(* What a step does to requests, tables and the registry *)

\* A request that is not part of the step.
Same(g) ==
  /\ stage'[g] = stage[g] /\ batch'[g] = batch[g] /\ key'[g] = key[g]
  /\ device'[g] = device[g] /\ pings'[g] = pings[g] /\ gone'[g] = gone[g]
  /\ good[g] \subseteq good'[g]

\* A request that is over after the step.
Over(g) == stage'[g] = "idle" /\ batch'[g] = <<>>

\* A request that is answered.
Answered(g, a) ==
  /\ stage'[g] = a /\ ~gone[g] /\ batch'[g] = batch[g] /\ pings'[g] = pings[g]
  /\ gone'[g] = gone[g]

LEMMA AnswerFacts ==
  ASSUME TypeOK, NEW h \in Requests, NEW a, Close(h) \/ Answer(h, a)
  PROVE  /\ \A g \in Requests \ {h} : Same(g)
         /\ Over(h) \/ (Answer(h, a) /\ Answered(h, a))
<1>1. CASE Close(h)
  BY <1>1 DEF Close, TypeOK, Same, Over
<1>2. CASE ~gone[h] /\ stage' = [stage EXCEPT ![h] = a] /\ UNCHANGED locals
  BY <1>2 DEF TypeOK, Same, Answered, Answer, locals
<1> QED
  BY <1>1, <1>2 DEF Answer

LEMMA GotoFacts ==
  ASSUME TypeOK, NEW h \in Requests, NEW a, NEW b, Goto(h, a, b), UNCHANGED locals
  PROVE  \A g \in Requests \ {h} : Same(g)
BY DEF Goto, locals, TypeOK, Same

\* A step of one request leaves the others alone.
LEMMA OthersStay ==
  ASSUME TypeOK, NEW h \in Requests,
         Serve(h) \/ Fail(h) \/ Read(h) \/ GiveUp(h) \/ \E b \in Batches : Send(b, h)
  PROVE  \A g \in Requests \ {h} : Same(g)
<1>1. CASE Deny(h) \/ Refuse(h) \/ LookupFails(h) \/ InsertFails(h) \/ Publish(h) \/ Read(h)
  BY <1>1, AnswerFacts
  DEF Deny, Refuse, LookupFails, InsertFails, Publish, Read, ReadAccepted, ReadRejected,
      ReadUnauthorized
<1>2. CASE Admit(h)
  BY <1>2 DEF Admit, TypeOK, Same
<1>3. CASE \/ InsertPings(h) \/ Sync(h) \/ SyncFails(h) \/ MarkSeen(h) \/ MarkSeenFails(h)
  BY <1>3, GotoFacts DEF InsertPings, Sync, SyncFails, MarkSeen, MarkSeenFails
<1>4. CASE GiveUp(h)
  <2>1. CASE Close(h)
    BY <2>1, AnswerFacts
  <2>2. CASE /\ gone' = [gone EXCEPT ![h] = TRUE]
             /\ UNCHANGED <<stage, batch, key, device, pings, good>>
    BY <2>2 DEF TypeOK, Same
  <2> QED
    BY <1>4, <2>1, <2>2 DEF GiveUp
<1>5. CASE \E b \in Batches : Send(b, h)
  BY <1>5 DEF Send, Goto, TypeOK, Same
<1> QED
  BY <1>1, <1>2, <1>3, <1>4, <1>5 DEF Serve, Fail

\* Operators, the clock and the relay's log leave requests alone.
LEMMA OutsideStay ==
  ASSUME TypeOK,
         \/ \E b \in Batches : Offer(b)
         \/ \E d \in Devices : Configure(d)
         \/ Operate \/ Tick \/ UNCHANGED vars
  PROVE  \A g \in Requests : Same(g)
<1>1. CASE Operate
  <2>1. PICK d, row : d \in Devices /\ Edit(d, row)
    BY <1>1 DEF Operate, CreateDevice, UpdateDevice, DeleteDevice, RotateAPIKey
  <2> QED
    BY <2>1 DEF Edit, TypeOK, Same
<1>2. CASE UNCHANGED <<stage, batch, key, device, pings, gone, good>>
  BY <1>2 DEF Same
<1> QED
  BY <1>1, <1>2 DEF Offer, Configure, Tick, vars, locals

LEMMA CrashFacts ==
  ASSUME Crash, NEW g \in Requests
  PROVE  Over(g) /\ pings'[g] = <<>> /\ gone'[g] = FALSE
BY DEF Crash, Over

\* Either a request is not part of a step, or the step is its own, or it is over.
LEMMA Moves ==
  ASSUME TypeOK, [Next]_vars, NEW g \in Requests
  PROVE  \/ Same(g) \/ Over(g)
         \/ Serve(g) \/ Fail(g) \/ Read(g) \/ GiveUp(g)
         \/ \E b \in Batches : Send(b, g)
<1>1. ASSUME NEW h \in Requests,
             Serve(h) \/ Fail(h) \/ Read(h) \/ GiveUp(h) \/ \E b \in Batches : Send(b, h)
      PROVE  Same(g) \/ g = h
  BY <1>1, OthersStay
<1>2. CASE Crash
  BY <1>2, CrashFacts
<1>3. CASE \/ \E b \in Batches : Offer(b)
           \/ \E d \in Devices : Configure(d)
           \/ Operate \/ Tick \/ UNCHANGED vars
  BY <1>3, OutsideStay
<1> QED
  BY <1>1, <1>2, <1>3 DEF Next, Post

\* The tables only grow.
LEMMA TablesGrow ==
  ASSUME TypeOK, [Next]_vars
  PROVE  /\ rows \subseteq rows' /\ live \subseteq live' /\ synced \subseteq synced'
<1>1. ASSUME NEW h \in Requests, InsertPings(h) \/ InsertFails(h)
      PROVE  rows \subseteq rows' /\ live \subseteq live' /\ synced \subseteq synced'
  BY <1>1, InsertedFacts DEF InsertPings, InsertFails, TypeOK
<1>2. ASSUME NEW h \in Requests, Publish(h) \/ Sync(h)
      PROVE  rows \subseteq rows' /\ live \subseteq live' /\ synced \subseteq synced'
  BY <1>2 DEF Publish, Sync
<1>3. CASE UNCHANGED tables
  BY <1>3 DEF tables
<1> QED
  BY <1>1, <1>2, <1>3
  DEF Next, vars, Post, Offer, Send, Read, ReadAccepted, ReadRejected, ReadUnauthorized,
      GiveUp, Serve, Fail, Deny, Refuse, Admit, LookupFails, SyncFails, MarkSeen,
      MarkSeenFails, Configure, Operate, CreateDevice, UpdateDevice, DeleteDevice,
      RotateAPIKey, Edit, Crash, Tick

\* A device in use does not become unused, and what a step makes a key good for is
\* witnessed by every request under way.
LEMMA RegistryNext ==
  ASSUME TypeOK, [Next]_vars
  PROVE  /\ \A d \in Devices : registry[d].state # "unused" => registry'[d].state # "unused"
         /\ \/ \A k : GoodFor(registry', k) = GoodFor(registry, k)
            \/ \A h \in Requests :
                 Same(h) /\ GoodFor(registry', key[h]) \subseteq good'[h]
<1>1. CASE registry' = registry
  BY <1>1
<1>2. ASSUME NEW h \in Requests, MarkSeen(h), registry' # registry
      PROVE  /\ \A d \in Devices : registry[d].state # "unused" => registry'[d].state # "unused"
             /\ \A k : GoodFor(registry', k) = GoodFor(registry, k)
  <2>1. registry' = [registry EXCEPT ![device[h]] =
                       [@ EXCEPT !.lastSeen = now, !.lastIP = IPOf[h]]]
    BY <1>2 DEF MarkSeen
  <2>2. \A d \in Devices : /\ registry'[d].state = registry[d].state
                           /\ registry'[d].key = registry[d].key
                           /\ registry'[d].vehicle = registry[d].vehicle
    BY <2>1 DEF TypeOK
  <2> QED
    BY <2>2 DEF GoodFor
<1>3. CASE Operate
  <2>1. PICK d, row : d \in Devices /\ Edit(d, row) /\ row.state # "unused"
    <3>1. PICK d \in Devices :
            \/ \E k \in Keys \cup {NoKey}, v \in Binding : CreateDevice(d, k, v)
            \/ \E v \in Binding, s \in {"active", "inactive"} : UpdateDevice(d, v, s)
            \/ DeleteDevice(d)
            \/ \E k \in Keys : RotateAPIKey(d, k)
      BY <1>3 DEF Operate
    <3>2. registry[d] \in [key : Keys \cup {NoKey}, vehicle : Binding, state : States,
                           lastSeen : Moments \cup {Never},
                           lastIP : {IPOf[h] : h \in Requests} \cup {NoIP}]
      BY DEF TypeOK
    <3>3. ASSUME NEW k \in Keys \cup {NoKey}, NEW v \in Binding, CreateDevice(d, k, v)
          PROVE  \E row : Edit(d, row) /\ row.state # "unused"
      BY <3>3 DEF CreateDevice
    <3>4. ASSUME NEW v \in Binding, NEW s \in {"active", "inactive"}, UpdateDevice(d, v, s)
          PROVE  \E row : Edit(d, row) /\ row.state # "unused"
      <4>1. [registry[d] EXCEPT !.vehicle = v, !.state = s].state = s
        BY <3>2
      <4> QED
        BY <3>4, <4>1 DEF UpdateDevice
    <3>5. ASSUME DeleteDevice(d)
          PROVE  \E row : Edit(d, row) /\ row.state # "unused"
      BY <3>2, <3>5 DEF DeleteDevice
    <3>6. ASSUME NEW k \in Keys, RotateAPIKey(d, k)
          PROVE  \E row : Edit(d, row) /\ row.state # "unused"
      <4>1. [registry[d] EXCEPT !.key = k].state = registry[d].state
        BY <3>2
      <4> QED
        BY <3>6, <4>1 DEF RotateAPIKey
    <3> QED
      BY <3>1, <3>3, <3>4, <3>5, <3>6
  <2>2. \A e \in Devices : registry[e].state # "unused" => registry'[e].state # "unused"
    BY <2>1 DEF Edit, TypeOK
  <2>3. \A h \in Requests : GoodFor(registry', key[h]) \subseteq good'[h]
    BY <2>1 DEF Edit, TypeOK
  <2> QED
    BY <1>3, <2>2, <2>3, OutsideStay
<1> QED
  BY <1>1, <1>2, <1>3
  DEF Next, vars, Post, Offer, Send, Read, ReadAccepted, ReadRejected, ReadUnauthorized,
      GiveUp, Serve, Fail, Deny, Refuse, Admit, LookupFails, InsertPings, InsertFails,
      Sync, SyncFails, MarkSeenFails, Publish, Configure, Crash, Tick

-----------------------------------------------------------------------------
(* The invariant is preserved *)

\* A request that stays where it was, or is not at work, has done what it had.
LEMMA WorkFrame ==
  ASSUME NEW g \in Requests, Work(g), rows \subseteq rows', live \subseteq live',
         \/ stage'[g] \notin Busy \cup {"insert"}
         \/ /\ stage'[g] = stage[g] \/ {stage[g], stage'[g]} \subseteq {"sync", "seen", "publish"}
            /\ batch'[g] = batch[g] /\ pings'[g] = pings[g] /\ good[g] \subseteq good'[g]
  PROVE  Work(g)'
<1>1. CASE stage'[g] \notin Busy \cup {"insert"}
  BY <1>1 DEF Work, Busy
<1>2. CASE /\ stage'[g] = stage[g] \/ {stage[g], stage'[g]} \subseteq {"sync", "seen", "publish"}
           /\ batch'[g] = batch[g] /\ pings'[g] = pings[g] /\ good[g] \subseteq good'[g]
  BY <1>2 DEF Work, Busy, Made, KeyIn, Permitted
<1> QED
  BY <1>1, <1>2

LEMMA WorkNext ==
  ASSUME IInv, [Next]_vars, NEW g \in Requests
  PROVE  Work(g)'
<1>0. TypeOK /\ Work(g) /\ Witnessed(g) /\ rows \subseteq rows' /\ live \subseteq live'
  BY TablesGrow DEF IInv, RequestInv
<1> USE DEF Answers
<1>1. CASE Same(g) \/ Over(g)
  BY <1>0, <1>1, WorkFrame DEF Same, Over, Busy
<1>2. CASE Deny(g) \/ Refuse(g) \/ LookupFails(g) \/ InsertFails(g)
  <2>1. Over(g) \/ Answered(g, "unauthorized") \/ Answered(g, "rejected")
    BY <1>0, <1>2, AnswerFacts DEF Deny, Refuse, LookupFails, InsertFails
  <2>2. stage'[g] \notin Busy \cup {"insert"}
    BY <2>1 DEF Over, Answered, Busy
  <2> QED
    BY <1>0, <2>2, WorkFrame
<1>3. CASE Admit(g)
  <2>1. PICK d \in Devices :
          /\ Authenticated(d, g) /\ ~BatchRefused(registry[d].vehicle, now, batch[g])
          /\ pings' = [pings EXCEPT ![g] = RowsOf(registry[d].vehicle, now, batch[g])]
    BY <1>3 DEF Admit
  <2> DEFINE v == registry[d].vehicle
  <2>2. /\ v \in Binding /\ now \in Moments /\ batch[g] \in Batches \cup {<<>>}
        /\ pings'[g] = RowsOf(v, now, batch[g]) /\ batch'[g] = batch[g] /\ good'[g] = good[g]
        /\ stage'[g] = "insert"
    BY <1>0, <1>3, <2>1 DEF Admit, TypeOK
  <2>3. v \in good[g]
    BY <1>0, <2>1 DEF Authenticated, HasKey, Witnessed, GoodFor
  <2>4. /\ DOMAIN pings'[g] = DOMAIN batch[g]
        /\ \A i \in DOMAIN batch[g] :
              /\ pings'[g][i].rec = batch[g][i]
              /\ pings'[g][i].ts \in TimesOf[batch[g][i]]
              /\ v = NoVehicle \/ v = pings'[g][i].vehicle
    BY <2>1, <2>2, RowsFacts
  <2> QED
    BY <2>2, <2>3, <2>4 DEF Work, Made, Permitted, Busy
<1>4. CASE InsertPings(g)
  <2>1. pings[g] \in Seq(RowType) /\ rows \subseteq RowType
    BY <1>0 DEF TypeOK
  <2>2. \A i \in DOMAIN pings[g] : KeyIn(rows', pings[g][i])
    BY <1>4, <2>1, InsertedFacts DEF InsertPings
  <2>3. stage[g] = "insert" /\ stage'[g] = "sync" /\ batch'[g] = batch[g] /\ pings'[g] = pings[g]
    BY <1>0, <1>4 DEF InsertPings, Goto, locals, TypeOK
  <2> QED
    BY <1>0, <2>2, <2>3 DEF Work, Made, Busy
<1>5. CASE Sync(g) \/ SyncFails(g) \/ MarkSeen(g) \/ MarkSeenFails(g)
  <2>1. /\ {stage[g], stage'[g]} \subseteq {"sync", "seen", "publish"}
        /\ batch'[g] = batch[g] /\ pings'[g] = pings[g] /\ good'[g] = good[g]
    BY <1>0, <1>5 DEF Sync, SyncFails, MarkSeen, MarkSeenFails, Goto, locals, TypeOK
  <2> QED
    BY <1>0, <2>1, WorkFrame
<1>6. CASE Publish(g)
  <2>1. Over(g) \/ Answered(g, "accepted")
    BY <1>0, <1>6, AnswerFacts DEF Publish
  <2>2. CASE Over(g)
    BY <1>0, <2>2, WorkFrame DEF Over, Busy
  <2>3. CASE Answered(g, "accepted")
    <3>1. \A i \in DOMAIN pings[g] : Position(pings[g][i]) \in live'
      BY <1>6 DEF Publish
    <3> QED
      BY <1>0, <1>6, <2>3, <3>1 DEF Publish, Answered, Work, Made, Busy, KeyIn
  <2> QED
    BY <2>1, <2>2, <2>3
<1>7. CASE Read(g)
  <2>1. stage'[g] = "idle"
    BY <1>0, <1>7 DEF Read, ReadAccepted, ReadRejected, ReadUnauthorized, Close, TypeOK
  <2> QED
    BY <1>0, <2>1, WorkFrame DEF Busy
<1>8. CASE GiveUp(g)
  BY <1>0, <1>8, WorkFrame DEF GiveUp, Close, TypeOK, Busy
<1>9. CASE \E b \in Batches : Send(b, g)
  BY <1>0, <1>9, WorkFrame DEF Send, Goto, TypeOK, Busy
<1> QED
  BY <1>0, <1>1, <1>2, <1>3, <1>4, <1>5, <1>6, <1>7, <1>8, <1>9, Moves DEF Serve, Fail

LEMMA WitnessedNext ==
  ASSUME IInv, [Next]_vars, NEW g \in Requests
  PROVE  Witnessed(g)'
<1>0. TypeOK /\ Witnessed(g) /\ TypeOK'
  BY TypeNext DEF IInv, RequestInv
<1>1. CASE stage'[g] = "authenticate"
  <2>1. CASE Same(g)
    <3>1. GoodFor(registry, key[g]) \subseteq good[g]
      BY <1>0, <1>1, <2>1 DEF Same, Witnessed
    <3> QED
      BY <1>0, <1>1, <2>1, <3>1, RegistryNext DEF Same, Witnessed
  <2>2. CASE \E b \in Batches : Send(b, g)
    <3>1. registry' = registry /\ key'[g] = relayKey /\ good'[g] = GoodFor(registry, relayKey)
      BY <1>0, <2>2 DEF Send, TypeOK
    <3> QED
      BY <1>1, <3>1 DEF Witnessed
  <2>3. CASE GiveUp(g)
    <3>1. /\ stage[g] = "authenticate" /\ key'[g] = key[g] /\ good'[g] = good[g]
          /\ registry' = registry
      BY <1>0, <1>1, <2>3 DEF GiveUp, Close, TypeOK
    <3> QED
      BY <1>0, <1>1, <3>1 DEF Witnessed
  <2>4. ~Over(g) /\ ~Serve(g) /\ ~Fail(g) /\ ~Read(g)
    BY <1>0, <1>1
    DEF Over, Serve, Fail, Deny, Refuse, Admit, LookupFails, InsertPings, InsertFails, Sync,
        SyncFails, MarkSeen, MarkSeenFails, Publish, Goto, Answer, Close, TypeOK, Read,
        ReadAccepted, ReadRejected, ReadUnauthorized
  <2> QED
    BY <1>0, <2>1, <2>2, <2>3, <2>4, Moves
<1>2. CASE stage'[g] \in {"insert", "sync", "seen"}
  <2>1. CASE Admit(g)
    <3>1. PICK d \in Devices : Authenticated(d, g) /\ device' = [device EXCEPT ![g] = d]
      BY <2>1 DEF Admit
    <3>2. registry[d].state = "active" /\ device'[g] = d /\ registry' = registry
      BY <1>0, <2>1, <3>1 DEF Authenticated, Admit, TypeOK
    <3> QED
      BY <1>2, <3>2 DEF Witnessed
  <2>2. CASE ~Admit(g)
    <3>1. stage[g] \in {"insert", "sync", "seen"} /\ device'[g] = device[g]
      <4>1. CASE Same(g)
        BY <1>2, <4>1 DEF Same
      <4>2. CASE Serve(g) \/ Fail(g) \/ GiveUp(g)
        BY <1>0, <1>2, <2>2, <4>2
        DEF Serve, Fail, Deny, Refuse, LookupFails, InsertPings, InsertFails, Sync,
            SyncFails, MarkSeen, MarkSeenFails, Publish, Goto, Answer, Close, TypeOK,
            GiveUp, locals
      <4>3. ~Over(g) /\ ~Read(g) /\ ~\E b \in Batches : Send(b, g)
        BY <1>0, <1>2
        DEF Over, Read, ReadAccepted, ReadRejected, ReadUnauthorized, Close, Send, Goto, TypeOK
      <4> QED
        BY <1>0, <4>1, <4>2, <4>3, Moves
    <3>2. registry[device[g]].state # "unused" /\ device[g] \in Devices
      BY <1>0, <3>1 DEF Witnessed, TypeOK
    <3> QED
      BY <1>0, <1>2, <3>1, <3>2, RegistryNext DEF Witnessed
  <2> QED
    BY <2>1, <2>2
<1> QED
  BY <1>1, <1>2 DEF Witnessed

\* The batch of an answer that is read leaves the buffer, and its pings, which no
\* other batch has, are forgotten.
LEMMA Settling ==
  ASSUME IInv, NEW h \in Requests, ReadAccepted(h) \/ ReadRejected(h)
  PROVE  /\ batch[h] \in held /\ held' = held \ {batch[h]}
         /\ forgotten \subseteq forgotten'
         /\ {f.rec : f \in forgotten' \ forgotten} = Elements(batch[h])
         /\ Buffered \ Buffered' = Elements(batch[h])
         /\ Buffered' \subseteq Buffered
<1> DEFINE b == batch[h]
<1>1. TypeOK /\ b \in held /\ held \subseteq Batches /\ Work(h) /\ held' = held \ {b}
  BY DEF IInv, RequestInv, Duty, ReadAccepted, ReadRejected, TypeOK
<1>2. forgotten \subseteq forgotten' /\ {f.rec : f \in forgotten' \ forgotten} = Elements(b)
  <2>1. \A f \in forgotten : f.rec \notin Elements(b)
    BY <1>1 DEF IInv, Buffered, Done
  <2>2. CASE ReadAccepted(h)
    <3> DEFINE new == {[rec |-> pings[h][i].rec, vehicle |-> pings[h][i].vehicle] :
                         i \in DOMAIN pings[h]}
    <3>1. DOMAIN pings[h] = DOMAIN b /\ \A i \in DOMAIN b : pings[h][i].rec = b[i]
      BY <1>1, <2>2 DEF ReadAccepted, Work, Made, Busy
    <3>2. forgotten' = forgotten \cup new
      BY <2>2 DEF ReadAccepted
    <3>3. \A f \in new : f.rec \in Elements(b)
      BY <3>1 DEF Elements
    <3>4. ASSUME NEW p \in Elements(b)
          PROVE  p \in {f.rec : f \in forgotten' \ forgotten}
      <4>1. PICK i \in DOMAIN b : p = b[i]
        BY DEF Elements
      <4>2. [rec |-> pings[h][i].rec, vehicle |-> pings[h][i].vehicle] \in new
        BY <3>1
      <4>3. PICK f \in new : f.rec = p
        BY <3>1, <4>1, <4>2
      <4> QED
        BY <2>1, <3>2, <4>3
    <3>5. forgotten' \ forgotten \subseteq new
      BY <3>2
    <3> QED
      BY <3>2, <3>3, <3>4, <3>5
  <2>3. CASE ReadRejected(h)
    <3> DEFINE new == {[rec |-> p, vehicle |-> NoVehicle] : p \in Elements(b)}
    <3>1. forgotten' = forgotten \cup new
      BY <2>3 DEF ReadRejected
    <3>2. \A f \in new : f.rec \in Elements(b)
      OBVIOUS
    <3>3. ASSUME NEW p \in Elements(b)
          PROVE  p \in {f.rec : f \in forgotten' \ forgotten}
      <4>1. [rec |-> p, vehicle |-> NoVehicle] \in new
        OBVIOUS
      <4>2. PICK f \in new : f.rec = p
        BY <4>1
      <4> QED
        BY <2>1, <3>1, <4>2
    <3>4. forgotten' \ forgotten \subseteq new
      BY <3>1
    <3> QED
      BY <3>1, <3>2, <3>3, <3>4
  <2> QED
    BY <2>2, <2>3
<1>3. ASSUME NEW c \in held, c # b PROVE Elements(c) \cap Elements(b) = {}
  BY <1>1, <1>3, BatchAssumption DEF Elements
<1>4. Buffered' \subseteq Buffered /\ Buffered \ Buffered' = Elements(b)
  BY <1>1, <1>3 DEF Buffered
<1> QED
  BY <1>1, <1>2, <1>4

\* The relay's buffer changes when it takes on a batch or reads a verdict on one.
LEMMA BufferSteps ==
  ASSUME [Next]_vars
  PROVE  \/ \E b \in Batches : Offer(b)
         \/ \E h \in Requests : ReadAccepted(h) \/ ReadRejected(h)
         \/ UNCHANGED <<held, forgotten>>
BY DEF Next, vars, Post, Send, Read, ReadUnauthorized, GiveUp, Serve, Fail, Deny, Refuse,
       Admit, LookupFails, InsertPings, InsertFails, Sync, SyncFails, MarkSeen,
       MarkSeenFails, Publish, Configure, Operate, CreateDevice, UpdateDevice,
       DeleteDevice, RotateAPIKey, Edit, Crash, Tick, relay

LEMMA LoggedNext ==
  ASSUME IInv, [Next]_vars
  PROVE  Logged \subseteq Logged' /\ (Buffered \cap Done = {})'
<1>0. Buffered \cap Done = {}
  BY DEF IInv
<1>1. ASSUME NEW b \in Batches, Offer(b)
      PROVE  Logged \subseteq Logged' /\ (Buffered \cap Done = {})'
  <2>1. Buffered' = Buffered \cup Elements(b) /\ Done' = Done
    BY <1>1 DEF Offer, Buffered, Done
  <2>2. Elements(b) \cap Done = {}
    BY <1>1 DEF Offer
  <2> QED
    BY <1>0, <2>1, <2>2 DEF Logged
<1>2. ASSUME NEW h \in Requests, ReadAccepted(h) \/ ReadRejected(h)
      PROVE  Logged \subseteq Logged' /\ (Buffered \cap Done = {})'
  <2>1. Done' = Done \cup {f.rec : f \in forgotten' \ forgotten}
    BY <1>2, Settling DEF Done
  <2> QED
    BY <1>0, <1>2, <2>1, Settling DEF Logged
<1>3. CASE UNCHANGED <<held, forgotten>>
  BY <1>0, <1>3 DEF Logged, Buffered, Done
<1> QED
  BY <1>1, <1>2, <1>3, BufferSteps

\* Two requests the relay waits for never have the same batch.
LEMMA SingleNext ==
  ASSUME IInv, [Next]_vars, NEW g \in Requests, NEW h \in Requests,
         Waiting(g)', Waiting(h)', batch'[g] = batch'[h]
  PROVE  g = h
<1>0. TypeOK /\ (Waiting(g) /\ Waiting(h) /\ batch[g] = batch[h] => g = h)
  BY DEF IInv, RequestInv
<1>1. ASSUME NEW r \in Requests, Waiting(r)'
      PROVE  \/ Waiting(r) /\ batch'[r] = batch[r]
             \/ \E b \in Batches : Send(b, r)
  <2>1. CASE Same(r)
    BY <1>1, <2>1 DEF Same, Waiting
  <2>2. CASE Serve(r) \/ Fail(r)
    BY <1>0, <1>1, <2>2
    DEF Serve, Fail, Deny, Refuse, Admit, LookupFails, InsertPings, InsertFails, Sync,
        SyncFails, MarkSeen, MarkSeenFails, Publish, Goto, Answer, Close, TypeOK, locals,
        Waiting, Authenticated
  <2>3. ~Over(r) /\ ~Read(r) /\ ~GiveUp(r)
    BY <1>0, <1>1
    DEF Over, Read, ReadAccepted, ReadRejected, ReadUnauthorized, GiveUp, Close, TypeOK, Waiting
  <2> QED
    BY <1>0, <2>1, <2>2, <2>3, Moves
<1>2. ASSUME NEW r \in Requests, NEW q \in Requests, q # r, NEW b \in Batches, Send(b, r),
             Waiting(q)', batch'[q] = batch'[r]
      PROVE  FALSE
  <2>1. Same(q)
    BY <1>0, <1>2, OthersStay
  <2>2. batch[q] = b /\ Waiting(q)
    BY <1>0, <1>2, <2>1 DEF Same, Send, TypeOK, Waiting
  <2> QED
    BY <1>2, <2>2 DEF Send, Asking, Waiting
<1> QED
  BY <1>0, <1>1, <1>2

LEMMA DutyNext ==
  ASSUME IInv, [Next]_vars, NEW g \in Requests
  PROVE  Duty(g)'
<1>0. TypeOK /\ Duty(g) /\ Logged \subseteq Logged'
  BY LoggedNext DEF IInv, RequestInv
<1>1. Elements(batch'[g]) \subseteq Logged'
  <2>1. CASE batch'[g] = batch[g] \/ batch'[g] = <<>>
    BY <1>0, <2>1 DEF Duty, Elements
  <2>2. ASSUME NEW b \in Batches, Send(b, g) PROVE Elements(batch'[g]) \subseteq Logged'
    <3>1. batch'[g] = b /\ b \in held
      BY <1>0, <2>2 DEF Send, TypeOK
    <3>2. Elements(b) \subseteq Logged
      BY <3>1 DEF Logged, Buffered
    <3> QED
      BY <1>0, <3>1, <3>2
  <2>3. CASE Serve(g) \/ Fail(g) \/ Read(g) \/ GiveUp(g)
    <3>1. batch'[g] = batch[g] \/ batch'[g] = <<>>
      BY <1>0, <2>3
      DEF Serve, Fail, Deny, Refuse, Admit, LookupFails, InsertPings, InsertFails, Sync,
          SyncFails, MarkSeen, MarkSeenFails, Publish, Answer, Close, TypeOK, locals,
          Read, ReadAccepted, ReadRejected, ReadUnauthorized, GiveUp
    <3> QED
      BY <2>1, <3>1
  <2> QED
    BY <1>0, <2>1, <2>2, <2>3, Moves DEF Same, Over
<1>2. ASSUME Waiting(g)' PROVE batch'[g] \in held'
  <2>1. CASE \E b \in Batches : Send(b, g)
    BY <1>0, <2>1 DEF Send, TypeOK, relay
  <2>2. CASE Waiting(g) /\ batch'[g] = batch[g]
    <3>1. batch[g] \in held
      BY <1>0, <2>2 DEF Duty, Waiting
    <3>2. ASSUME NEW h \in Requests, ReadAccepted(h) \/ ReadRejected(h)
          PROVE  batch[g] # batch[h]
      <4>1. Waiting(h) /\ stage'[h] = "idle"
        BY <1>0, <3>2 DEF ReadAccepted, ReadRejected, Waiting, Close, TypeOK
      <4>2. g # h
        BY <1>2, <4>1 DEF Waiting
      <4> QED
        BY <2>2, <4>1, <4>2 DEF IInv, RequestInv
    <3> QED
      BY <2>2, <3>1, <3>2, BufferSteps, Settling DEF Offer
  <2>3. CASE Same(g)
    BY <1>2, <2>2, <2>3 DEF Same, Waiting
  <2>4. CASE Serve(g) \/ Fail(g)
    <3>1. Waiting(g) /\ batch'[g] = batch[g]
      BY <1>0, <1>2, <2>4
      DEF Serve, Fail, Deny, Refuse, Admit, LookupFails, InsertPings, InsertFails, Sync,
          SyncFails, MarkSeen, MarkSeenFails, Publish, Goto, Answer, Close, TypeOK, locals,
          Waiting, Authenticated
    <3> QED
      BY <2>2, <3>1
  <2>5. ~Over(g) /\ ~Read(g) /\ ~GiveUp(g)
    BY <1>0, <1>2
    DEF Over, Read, ReadAccepted, ReadRejected, ReadUnauthorized, GiveUp, Close, TypeOK, Waiting
  <2> QED
    BY <1>0, <2>1, <2>3, <2>4, <2>5, Moves
<1> QED
  BY <1>1, <1>2 DEF Duty, Waiting

LEMMA SeenNext ==
  ASSUME IInv, [Next]_vars
  PROVE  SeenInv'
<1>0. TypeOK /\ SeenInv /\ Never \notin Int /\ Interval \in Nat
  BY IdAssumption, BoundAssumption DEF IInv
<1> DEFINE Seen(d) ==
      /\ heard[d] # Never /\ registry[d].state # "deleted" =>
           /\ registry[d].lastSeen # Never
           /\ registry[d].lastSeen \in heard[d] - Interval .. heard[d]
      /\ heard[d] # Never => heard[d] <= now /\ registry[d].state # "unused"
      /\ registry[d].lastSeen # Never => registry[d].lastSeen <= now
<1>1. \A d \in Devices : Seen(d)
  BY <1>0 DEF SeenInv, LastSeenIsFresh
<1>2. /\ now \in Int
      /\ \A d \in Devices : heard[d] \in Int \cup {Never} /\ registry[d].lastSeen \in Int \cup {Never}
  BY <1>0 DEF TypeOK, Moments
<1>3. SUFFICES ASSUME NEW d \in Devices PROVE Seen(d)'
  BY DEF SeenInv, LastSeenIsFresh
<1>4. ASSUME NEW h \in Requests, MarkSeen(h) PROVE Seen(d)'
  <2>1. CASE d # device[h]
    <3>1. registry'[d] = registry[d] /\ heard'[d] = heard[d] /\ now' = now
      BY <1>0, <1>4, <2>1 DEF MarkSeen, TypeOK
    <3> QED
      BY <1>1, <3>1
  <2>2. CASE d = device[h]
    <3>1. heard'[d] = now /\ now' = now /\ registry[d].state # "unused"
      BY <1>0, <1>4, <2>2 DEF MarkSeen, TypeOK, Goto, IInv, RequestInv, Witnessed
    <3>2. CASE registry[d].state # "deleted" /\ Due(d, IPOf[h])
      <4>1. registry'[d] = [registry[d] EXCEPT !.lastSeen = now, !.lastIP = IPOf[h]]
        BY <1>0, <1>4, <2>2, <3>2 DEF MarkSeen, TypeOK
      <4>2. registry'[d].lastSeen = now /\ registry'[d].state = registry[d].state
        BY <1>0, <4>1 DEF TypeOK
      <4>3. now \in now - Interval .. now
        BY <1>0, <1>2
      <4> QED
        BY <1>0, <1>2, <3>1, <4>2, <4>3
    <3>3. CASE ~(registry[d].state # "deleted" /\ Due(d, IPOf[h]))
      <4>1. registry' = registry
        BY <1>4, <2>2, <3>3 DEF MarkSeen
      <4>2. ASSUME registry[d].state # "deleted"
            PROVE  /\ registry[d].lastSeen # Never
                   /\ registry[d].lastSeen \in now - Interval .. now
        <5>1. registry[d].lastSeen # Never /\ ~(registry[d].lastSeen < now - Interval)
          BY <3>3, <4>2 DEF Due
        <5>2. registry[d].lastSeen <= now
          BY <1>1, <5>1
        <5> QED
          BY <1>0, <1>2, <5>1, <5>2
      <4> QED
        BY <1>1, <1>2, <3>1, <4>1, <4>2
    <3> QED
      BY <3>2, <3>3
  <2> QED
    BY <2>1, <2>2
<1>5. CASE Operate
  <2>1. PICK e \in Devices :
          \/ \E k \in Keys \cup {NoKey}, v \in Binding : CreateDevice(e, k, v)
          \/ \E v \in Binding, s \in {"active", "inactive"} : UpdateDevice(e, v, s)
          \/ DeleteDevice(e)
          \/ \E k \in Keys : RotateAPIKey(e, k)
    BY <1>5 DEF Operate
  <2>2. heard' = heard /\ now' = now /\ (d # e => registry'[d] = registry[d])
    BY <1>0, <2>1 DEF CreateDevice, UpdateDevice, DeleteDevice, RotateAPIKey, Edit, TypeOK
  <2>3. CASE d # e
    BY <1>1, <2>2, <2>3
  <2>4. CASE d = e /\ registry[d].state = "unused"
    <3>1. registry'[d].lastSeen = Never /\ registry'[d].state = "active"
      BY <1>0, <2>1, <2>4
      DEF CreateDevice, UpdateDevice, DeleteDevice, RotateAPIKey, Edit, TypeOK
    <3>2. heard[d] = Never
      BY <1>1, <2>4
    <3> QED
      BY <2>2, <3>1, <3>2
  <2>5. CASE d = e /\ registry[d].state # "unused"
    <3>0. registry[d] \in [key : Keys \cup {NoKey}, vehicle : Binding, state : States,
                           lastSeen : Moments \cup {Never},
                           lastIP : {IPOf[h] : h \in Requests} \cup {NoIP}]
      BY <1>0 DEF TypeOK
    <3>1. /\ registry[d].state \in {"active", "inactive"}
          /\ registry'[d].lastSeen = registry[d].lastSeen
          /\ registry'[d].state \in {"active", "inactive", "deleted"}
      <4>1. ASSUME NEW v \in Binding, NEW s \in {"active", "inactive"}, UpdateDevice(d, v, s)
            PROVE  <3>1
        <5>1. registry'[d] = [registry[d] EXCEPT !.vehicle = v, !.state = s]
          BY <1>0, <4>1 DEF UpdateDevice, Edit, TypeOK
        <5> QED
          BY <3>0, <4>1, <5>1 DEF UpdateDevice
      <4>2. ASSUME DeleteDevice(d) PROVE <3>1
        <5>1. registry'[d] = [registry[d] EXCEPT !.state = "deleted"]
          BY <1>0, <4>2 DEF DeleteDevice, Edit, TypeOK
        <5> QED
          BY <3>0, <4>2, <5>1 DEF DeleteDevice
      <4>3. ASSUME NEW k \in Keys, RotateAPIKey(d, k) PROVE <3>1
        <5>1. registry'[d] = [registry[d] EXCEPT !.key = k]
          BY <1>0, <4>3 DEF RotateAPIKey, Edit, TypeOK
        <5> QED
          BY <3>0, <4>3, <5>1 DEF RotateAPIKey
      <4> QED
        BY <2>1, <2>5, <4>1, <4>2, <4>3 DEF CreateDevice
    <3> QED
      BY <1>1, <2>2, <3>1
  <2> QED
    BY <2>3, <2>4, <2>5
<1>6. CASE Tick
  <2>1. registry' = registry /\ heard' = heard /\ now' = now + 1
    BY <1>6 DEF Tick
  <2> QED
    BY <1>1, <1>2, <2>1
<1>7. CASE UNCHANGED <<registry, heard, now>>
  BY <1>1, <1>7
<1> QED
  BY <1>4, <1>5, <1>6, <1>7
  DEF Next, vars, Post, Offer, Send, Read, ReadAccepted, ReadRejected, ReadUnauthorized,
      GiveUp, Serve, Fail, Deny, Refuse, Admit, LookupFails, InsertPings, InsertFails,
      Sync, SyncFails, MarkSeenFails, Publish, Configure, Crash

LEMMA Invariance == Spec => []IInv
<1>1. Init => IInv
  <2> SUFFICES ASSUME Init PROVE IInv
    OBVIOUS
  <2>1. RequestInv
    BY DEF Init, RequestInv, Work, Duty, Witnessed, Waiting, Busy, Elements
  <2>2. SeenInv
    BY DEF Init, SeenInv, LastSeenIsFresh, Unused
  <2>3. Buffered \cap Done = {}
    BY DEF Init, Buffered, Done
  <2> QED
    BY <2>1, <2>2, <2>3, TypeInit DEF IInv
<1>2. IInv /\ [Next]_vars => IInv'
  <2> SUFFICES ASSUME IInv, [Next]_vars PROVE IInv'
    OBVIOUS
  <2>1. TypeOK'
    BY TypeNext DEF IInv
  <2>2. RequestInv'
    BY WorkNext, DutyNext, WitnessedNext, SingleNext DEF RequestInv
  <2> QED
    BY <2>1, <2>2, SeenNext, LoggedNext DEF IInv
<1> QED
  BY <1>1, <1>2, PTL DEF Spec

-----------------------------------------------------------------------------
(* What follows *)

\* Every variable keeps its type.
THEOREM TypeCorrect == Spec => []TypeOK
<1>1. IInv => TypeOK
  BY DEF IInv
<1> QED
  BY <1>1, Invariance, PTL

\* However requests overlap with edits of the registry, no row gets into the table
\* but by a request whose key was, at some moment since the request was sent, that
\* of an active device bound to the row's vehicle or to none.
THEOREM OnlyPermittedWrites == Spec => WritesArePermitted
<1>1. IInv /\ [Next]_vars =>
        [\A row \in rows' \ rows :
           \E h \in Requests : row \in Elements(pings[h]) /\ Permitted(h, row)]_vars
  <2> SUFFICES ASSUME IInv, Next, NEW row \in rows' \ rows
               PROVE  \E h \in Requests : row \in Elements(pings[h]) /\ Permitted(h, row)
    OBVIOUS
  <2>1. PICK h \in Requests : InsertPings(h) \/ InsertFails(h)
    BY DEF Next, Post, Offer, Send, Read, ReadAccepted, ReadRejected, ReadUnauthorized,
       GiveUp, Serve, Fail, Deny, Refuse, Admit, LookupFails, Sync, SyncFails, MarkSeen,
       MarkSeenFails, Publish, Configure, Operate, CreateDevice, UpdateDevice,
       DeleteDevice, RotateAPIKey, Edit, Crash, Tick, tables
  <2>2. stage[h] = "insert" /\ rows' \in {rows, Inserted(rows, pings[h])}
    BY <2>1 DEF InsertPings, InsertFails, Goto
  <2>3. pings[h] \in Seq(RowType) /\ rows \subseteq RowType /\ Work(h)
    BY DEF IInv, RequestInv, TypeOK
  <2>4. \A r \in Inserted(rows, pings[h]) \ rows : \E i \in DOMAIN pings[h] : r = pings[h][i]
    BY InsertedRows
  <2>5. PICK i \in DOMAIN pings[h] : row = pings[h][i]
    BY <2>2, <2>4
  <2> QED
    BY <2>2, <2>3, <2>5 DEF Work, Elements
<1> QED
  BY <1>1, Invariance, PTL DEF Spec, WritesArePermitted

\* However requests of one device overlap, fail and are throttled, last_seen is
\* never more than the throttle's interval behind the moment it was last heard.
THEOREM LastSeenKeepsUp == Spec => []LastSeenIsFresh
<1>1. IInv => LastSeenIsFresh
  BY DEF IInv, SeenInv
<1> QED
  BY <1>1, Invariance, PTL

-----------------------------------------------------------------------------
(* The contract *)

Shown == live \cup synced

LEMMA KnownIsLogged == Contract!Known = Logged
BY DEF Contract!Known, Logged, Done

\* A row with the key of a request's ping is what the contract calls in the table.
LEMMA KeyOfRow ==
  ASSUME NEW h \in Requests, Made(h), NEW i \in DOMAIN pings[h], KeyIn(rows, pings[h][i])
  PROVE  Contract!InTable(pings[h][i].vehicle, pings[h][i].rec)
<1>1. PICK r \in rows : r.vehicle = pings[h][i].vehicle /\ r.ts = pings[h][i].ts
  BY DEF KeyIn, SameKey
<1>2. [vehicle |-> pings[h][i].vehicle, ts |-> pings[h][i].ts] \in StoredKeys
  BY <1>1 DEF StoredKeys
<1>3. pings[h][i].ts \in TimesOf[pings[h][i].rec]
  BY DEF Made
<1> QED
  BY <1>2, <1>3 DEF Contract!InTable

\* The ping of a row was logged, and the row's time is one it may be stored at.
LEMMA MadeFacts ==
  ASSUME IInv, NEW h \in Requests, Made(h), NEW i \in DOMAIN pings[h]
  PROVE  /\ pings[h][i].rec \in Logged /\ pings[h][i].rec \in Pings
         /\ pings[h][i].vehicle \in Vehicles /\ pings[h][i].ts \in TimesOf[pings[h][i].rec]
         /\ pings[h][i].rec \in Elements(batch[h])
<1>1. pings[h][i].rec = batch[h][i] /\ i \in DOMAIN batch[h]
  BY DEF Made
<1>2. pings[h][i].rec \in Elements(batch[h]) /\ Elements(batch[h]) \subseteq Logged
  BY <1>1 DEF Elements, IInv, RequestInv, Duty
<1>3. pings[h][i].rec \in Pings /\ pings[h][i].vehicle \in Vehicles
  BY RowFacts DEF IInv
<1> QED
  BY <1>1, <1>2, <1>3 DEF Made

\* The INSERTs are a Store of the contract.
LEMMA InsertIsStore ==
  ASSUME IInv, NEW h \in Requests, stage[h] = "insert", rows' = Inserted(rows, pings[h]),
         UNCHANGED <<held, live, synced, forgotten>>
  PROVE  Contract!Next
<1>1. pings[h] \in Seq(RowType) /\ rows \subseteq RowType /\ Made(h)
  BY DEF IInv, RequestInv, TypeOK, Work
<1>2. rows \subseteq rows' /\ \A row \in rows' \ rows : \E i \in DOMAIN pings[h] : row = pings[h][i]
  <2>1. rows \subseteq Inserted(rows, pings[h])
    BY <1>1, InsertedFacts
  <2> QED
    BY <2>1, InsertedRows
<1>3. StoredKeys \subseteq StoredKeys'
  BY <1>2 DEF StoredKeys
<1>4. ASSUME NEW k \in StoredKeys' \ StoredKeys
      PROVE  /\ k.vehicle \in Vehicles
             /\ \E r \in Logged \cap Pings : k.ts \in TimesOf[r]
  <2>1. PICK row \in rows' : k = [vehicle |-> row.vehicle, ts |-> row.ts]
    BY <1>4 DEF StoredKeys
  <2>2. row \notin rows
    BY <1>4, <2>1 DEF StoredKeys
  <2>3. PICK i \in DOMAIN pings[h] : row = pings[h][i]
    BY <1>2, <2>2
  <2>4. k.vehicle = pings[h][i].vehicle /\ k.ts = pings[h][i].ts
    BY <2>1, <2>3
  <2> QED
    BY <1>1, <2>4, MadeFacts
<1>5. Buffered' = Buffered
  BY DEF Buffered
<1>6. Contract!Store
  BY <1>3, <1>4, <1>5, KnownIsLogged DEF Contract!Store
<1> QED
  BY <1>6 DEF Contract!Next

\* What a step shows of a stored batch is a Show of the contract.
LEMMA ShowsStored ==
  ASSUME IInv, NEW h \in Requests, stage[h] \in Busy, Shown \subseteq Shown',
         \A p \in Shown' \ Shown : \E i \in DOMAIN pings[h] : p = Position(pings[h][i]),
         UNCHANGED <<held, rows, forgotten>>
  PROVE  Contract!Next
<1>1. Made(h) /\ \A i \in DOMAIN pings[h] : KeyIn(rows, pings[h][i])
  BY DEF IInv, RequestInv, Work
<1>2. ASSUME NEW p \in Shown' \ Shown
      PROVE  p.rec \in Logged /\ Contract!InTable(p.vehicle, p.rec)
  <2>1. PICK i \in DOMAIN pings[h] : p = Position(pings[h][i])
    OBVIOUS
  <2>2. p.rec = pings[h][i].rec /\ p.vehicle = pings[h][i].vehicle
    BY <2>1 DEF Position
  <2> QED
    BY <1>1, <2>2, MadeFacts, KeyOfRow
<1>3. Buffered' = Buffered /\ StoredKeys' = StoredKeys
  BY DEF Buffered, StoredKeys
<1>4. Contract!Show
  BY <1>2, <1>3, KnownIsLogged DEF Contract!Show, Shown
<1> QED
  BY <1>4 DEF Contract!Next

\* A verdict that is read is a Forget of the contract.
LEMMA ReadIsForget ==
  ASSUME IInv, NEW h \in Requests, ReadAccepted(h) \/ ReadRejected(h)
  PROVE  Contract!Next
<1>1. /\ Buffered' \subseteq Buffered /\ forgotten \subseteq forgotten'
      /\ {f.rec : f \in forgotten' \ forgotten} = Buffered \ Buffered'
  BY Settling
<1>2. UNCHANGED <<rows, live, synced>>
  BY DEF ReadAccepted, ReadRejected, tables
<1>3. ASSUME NEW f \in forgotten' \ forgotten, f.vehicle # NoVehicle
      PROVE  /\ Contract!InTable(f.vehicle, f.rec)
             /\ [vehicle |-> f.vehicle, rec |-> f.rec] \in live
  <2>1. CASE ReadRejected(h)
    BY <1>3, <2>1 DEF ReadRejected
  <2>2. CASE ReadAccepted(h)
    <3>1. PICK i \in DOMAIN pings[h] :
            f = [rec |-> pings[h][i].rec, vehicle |-> pings[h][i].vehicle]
      BY <1>3, <2>2 DEF ReadAccepted
    <3>2. f.rec = pings[h][i].rec /\ f.vehicle = pings[h][i].vehicle
      BY <3>1
    <3>3. Made(h) /\ KeyIn(rows, pings[h][i]) /\ Position(pings[h][i]) \in live
      BY <2>2 DEF IInv, RequestInv, Work, Busy, ReadAccepted
    <3> QED
      BY <3>2, <3>3, KeyOfRow DEF Position
  <2> QED
    BY <2>1, <2>2
<1>4. Contract!Forget
  BY <1>1, <1>2, <1>3 DEF Contract!Forget, StoredKeys
<1> QED
  BY <1>4 DEF Contract!Next

LEMMA StepRefines == IInv /\ [Next]_vars => [Contract!Next]_(Contract!vars)
<1> SUFFICES ASSUME IInv, [Next]_vars PROVE [Contract!Next]_(Contract!vars)
  OBVIOUS
<1>1. ASSUME NEW b \in Batches, Offer(b) PROVE Contract!Next
  <2>1. Buffered' = Buffered \cup Elements(b) /\ Elements(b) \cap Done = {}
    BY <1>1 DEF Offer, Buffered
  <2>2. (Buffered' \ Buffered) \cap Logged = {}
    BY <2>1 DEF Logged
  <2>3. Contract!Log
    BY <1>1, <2>1, <2>2, KnownIsLogged DEF Contract!Log, Offer, tables, StoredKeys
  <2> QED
    BY <2>3 DEF Contract!Next
<1>2. ASSUME NEW h \in Requests, ReadAccepted(h) \/ ReadRejected(h) PROVE Contract!Next
  BY <1>2, ReadIsForget
<1>3. CASE UNCHANGED <<held, rows, live, synced, forgotten>>
  BY <1>3 DEF Contract!vars, StoredKeys, Buffered
<1>4. ASSUME NEW h \in Requests, InsertPings(h) PROVE Contract!Next
  BY <1>4, InsertIsStore DEF InsertPings, Goto, relay
<1>5. ASSUME NEW h \in Requests, InsertFails(h) PROVE [Contract!Next]_(Contract!vars)
  <2>1. CASE rows' = Inserted(rows, pings[h])
    BY <1>5, <2>1, InsertIsStore DEF InsertFails, relay
  <2>2. CASE rows' = rows
    BY <1>5, <2>2, <1>3 DEF InsertFails, relay
  <2> QED
    BY <1>5, <2>1, <2>2 DEF InsertFails
<1>6. ASSUME NEW h \in Requests, Sync(h) PROVE Contract!Next
  BY <1>6, ShowsStored DEF Sync, Goto, Busy, Shown, relay
<1>7. ASSUME NEW h \in Requests, Publish(h) PROVE Contract!Next
  BY <1>7, ShowsStored DEF Publish, Busy, Shown, relay
<1> QED
  BY <1>1, <1>2, <1>3, <1>4, <1>5, <1>6, <1>7
  DEF Next, vars, Post, Send, Read, ReadUnauthorized, GiveUp, Serve, Fail, Deny, Refuse,
      Admit, LookupFails, SyncFails, MarkSeen, MarkSeenFails, Configure, Operate,
      CreateDevice, UpdateDevice, DeleteDevice, RotateAPIKey, Edit, Crash, Tick, relay, tables

\* The HTTP ingest implements the store-and-forward contract: with any number of
\* overlapping requests, retries, cancelled statements, crashes and edits of the
\* registry, a ping that was accepted can be found under its vehicle and was
\* shown, and nothing was shown that cannot be found.
THEOREM Refinement == Spec => ContractSpec
<1>1. Init => Contract!Init
  BY DEF Init, Contract!Init, StoredKeys, Buffered
<1>2. IInv /\ [Next]_vars => [Contract!Next]_(Contract!vars)
  BY StepRefines
<1> QED
  BY <1>1, <1>2, Invariance, PTL DEF Spec, ContractSpec, Contract!Spec

=============================================================================
