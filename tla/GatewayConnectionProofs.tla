----------------------- MODULE GatewayConnectionProofs -----------------------
(***************************************************************************)
(* Proofs about GatewayConnection, for any number of records, vehicles and *)
(* connections: nothing a tracker deletes is missing from the tables, and  *)
(* the gateway implements StoreAndForward.                                 *)
(***************************************************************************)
EXTENDS GatewayConnection, FiniteSetTheorems, TLAPS

-----------------------------------------------------------------------------
(* Types *)

\* Every batch of INSERTs keeps what is there, leaves rows of the vehicle for
\* pings of the packet only, and leaves a row for each of them.
LEMMA InsertedFacts ==
  ASSUME NEW c, NEW T, T \in Inserted(c), packet[c] \subseteq Records
  PROVE  /\ rows \subseteq T
         /\ \A r \in Pings(packet[c]) : HasRow(T, vehicle[c], r)
         /\ \E F \in SUBSET Pings(packet[c]) :
              T = rows \cup {RowOf(vehicle[c], r) : r \in F}
<1> DEFINE v   == vehicle[c]
           new == {r \in Pings(packet[c]) : ~HasRow(rows, v, r)}
<1>1. PICK F \in SUBSET new :
        /\ \A ts \in {TsOf[r] : r \in new} :
             \E r \in F : \A q \in F : (TsOf[q] = ts) <=> (q = r)
        /\ T = rows \cup {RowOf(v, r) : r \in F}
  BY DEF Inserted
<1>2. ASSUME NEW r \in Pings(packet[c])
      PROVE  HasRow(T, v, r)
  <2>1. CASE HasRow(rows, v, r)
    BY <2>1, <1>1 DEF HasRow
  <2>2. CASE ~HasRow(rows, v, r)
    <3>1. r \in new
      BY <2>2
    <3>2. PICK q \in F : TsOf[q] = TsOf[r]
      BY <3>1, <1>1
    <3>3. RowOf(v, q) \in T
      BY <1>1
    <3> QED
      BY <3>2, <3>3 DEF HasRow, RowOf
  <2> QED
    BY <2>1, <2>2
<1> QED
  BY <1>1, <1>2

LEMMA TypeInit == Init => TypeOK
<1> SUFFICES ASSUME Init PROVE TypeOK
  OBVIOUS
<1>1. device \in [vehicle : Binding, active : BOOLEAN]
  BY DEF Init, Binding
<1>2. edits \in 0 .. MaxEdits /\ faults \in 0 .. MaxFaults
  BY BoundAssumption DEF Init
<1>3. /\ rows \subseteq [vehicle : Vehicles, ts : Times, rec : Usable]
      /\ live \subseteq [vehicle : Vehicles, rec : Usable]
      /\ forgotten \subseteq [rec : Records, vehicle : Binding]
      /\ held \subseteq Records /\ sent \subseteq held
      /\ link \in Conns \cup {NoConn}
  BY DEF Init
<1>4. /\ pc \in [Conns -> Stages] /\ vehicle \in [Conns -> Binding]
      /\ inbox \in [Conns -> SUBSET Records] /\ packet \in [Conns -> SUBSET Records]
      /\ late \in [Conns -> BOOLEAN] /\ reply \in [Conns -> Nat]
  BY DEF Init, Stages, Binding
<1> QED
  BY <1>1, <1>2, <1>3, <1>4 DEF TypeOK

\* Inserting the pings of a bound connection keeps the table's type.
LEMMA InsertType ==
  ASSUME TypeOK, NEW c \in Conns, NEW T, T \in Inserted(c), vehicle[c] # NoVehicle
  PROVE  T \subseteq [vehicle : Vehicles, ts : Times, rec : Usable]
<1>1. packet[c] \subseteq Records /\ vehicle[c] \in Vehicles
  BY DEF TypeOK, Binding
<1>2. PICK F \in SUBSET Pings(packet[c]) : T = rows \cup {RowOf(vehicle[c], r) : r \in F}
  BY <1>1, InsertedFacts
<1> QED
  BY <1>1, <1>2, RecordAssumption DEF TypeOK, Pings, RowOf

-----------------------------------------------------------------------------
(* The inductive invariant *)

Stored(T, v, R) == \A r \in R \cap Usable : HasRow(T, v, r)

Shown(L, v, R) == \A r \in R \cap Usable : [vehicle |-> v, rec |-> r] \in L

\* Nothing is lost if a tracker deletes R on a connection bound to v.
Settled(T, L, v, R) == v = NoVehicle \/ (Stored(T, v, R) /\ Shown(L, v, R))

Working == {"insert", "publish", "command", "ack"}

\* How far a goroutine is with its packet tells what the tables have of it.
Progress(c) ==
  /\ pc[c] \in {"insert", "publish"} => vehicle[c] # NoVehicle
  /\ pc[c] = "publish" => Stored(rows, vehicle[c], packet[c])
  /\ pc[c] \in {"command", "ack"} => Settled(rows, live, vehicle[c], packet[c])

\* On the connection the tracker uses, its one outstanding packet is on the way,
\* being worked on, or answered; and it is settled once it is answered.
Exchange(c) ==
  /\ pc[c] \in Working => packet[c] = sent /\ sent # {} /\ reply[c] = 0
  /\ inbox[c] # {} => inbox[c] = sent /\ reply[c] = 0 /\ pc[c] = "reading"
  /\ reply[c] # 0 => /\ pc[c] \in {"reading", "free"}
                     /\ sent # {} /\ inbox[c] = {}
                     /\ Settled(rows, live, vehicle[c], sent)

Logged == held \cup {f.rec : f \in forgotten}

ConnInv ==
  /\ link = NoConn => sent = {}
  /\ \A c \in Conns : Progress(c)
  /\ \A c \in Conns : link = c => Exchange(c)
  /\ \A c \in Conns : inbox[c] \subseteq Logged /\ packet[c] \subseteq Logged

\* A position shown live can be found in the vehicle's track.
PublishedIsStored == \A p \in live : HasRow(rows, p.vehicle, p.rec)

\* What a tracker deleted was settled, and it does not hold it any more.
HistoryInv ==
  /\ \A f \in forgotten : Settled(rows, live, f.vehicle, {f.rec})
  /\ \A f \in forgotten : f.rec \notin held
  /\ PublishedIsStored

IInv == TypeOK /\ ConnInv /\ HistoryInv

-----------------------------------------------------------------------------
(* Types are preserved *)

LEMMA FaultType == TypeOK /\ Fault => faults' \in 0 .. MaxFaults
BY BoundAssumption DEF TypeOK, Fault

\* A counted packet has a count.
LEMMA CountType == ASSUME NEW R \in SUBSET Records PROVE Cardinality(R) \in Nat
BY RecordAssumption, FS_Subset, FS_CardinalityType

LEMMA TypeNext == TypeOK /\ ConnInv /\ [Next]_vars => TypeOK'
<1> SUFFICES ASSUME TypeOK, ConnInv, [Next]_vars PROVE TypeOK'
  OBVIOUS
<1> USE DEF TypeOK, Stages, Goto
<1>1. ASSUME NEW r \in Records, Log(r) PROVE TypeOK'
  BY <1>1 DEF Log, gateway, tables, bounds
<1>2. ASSUME Dial PROVE TypeOK'
  BY <1>2 DEF Dial, Connect, tables, bounds
<1>3. ASSUME NEW c \in Conns, NEW R \in SUBSET held, Send(c, R) PROVE TypeOK'
  BY <1>3 DEF Send, tables, bounds
<1>4. ASSUME NEW c \in Conns, Receive(c) PROVE TypeOK'
  BY <1>4 DEF Receive, tables, bounds
<1>5. ASSUME NEW c \in Conns, Abandon(c) PROVE TypeOK'
  BY <1>5 DEF Abandon, tables, gateway, bounds
<1>6. ASSUME NEW c \in Conns, Handshake(c) PROVE TypeOK'
  BY <1>6 DEF Handshake, Close, tables, tracker, bounds, Binding
<1>7. ASSUME NEW c \in Conns, Read(c) PROVE TypeOK'
  BY <1>7 DEF Read, tables, tracker, bounds
<1>8. ASSUME NEW c \in Conns, HangUp(c) PROVE TypeOK'
  BY <1>8 DEF HangUp, Close, tables, tracker, bounds
<1>9. ASSUME NEW c \in Conns, InsertPings(c) PROVE TypeOK'
  <2>1. rows' \subseteq [vehicle : Vehicles, ts : Times, rec : Usable]
    BY <1>9, InsertType DEF InsertPings, ConnInv, Progress
  <2> QED
    BY <1>9, <2>1 DEF InsertPings, tracker, bounds
<1>10. ASSUME NEW c \in Conns, InsertFails(c) PROVE TypeOK'
  <2>1. rows' \subseteq [vehicle : Vehicles, ts : Times, rec : Usable]
    BY <1>10, InsertType DEF InsertFails, ConnInv, Progress
  <2> QED
    BY <1>10, <2>1, FaultType DEF InsertFails, Close, tracker
<1>11. ASSUME NEW c \in Conns, Publish(c) PROVE TypeOK'
  <2>1. vehicle[c] \in Vehicles
    BY <1>11 DEF Publish, ConnInv, Progress, Binding
  <2>2. live' \subseteq [vehicle : Vehicles, rec : Usable]
    BY <1>11, <2>1 DEF Publish, Pings
  <2> QED
    BY <1>11, <2>2 DEF Publish, tracker, bounds
<1>12. ASSUME NEW c \in Conns, DeliverPendingCommand(c) PROVE TypeOK'
  BY <1>12 DEF DeliverPendingCommand, tables, tracker, bounds
<1>13. ASSUME NEW c \in Conns, WriteACK(c) PROVE TypeOK'
  <2>1. Cardinality(packet[c]) \in Nat
    BY CountType
  <2> QED
    BY <1>13, <2>1 DEF WriteACK, tables, tracker, bounds
<1>14. ASSUME NEW c \in Conns, Cut(c) PROVE TypeOK'
  BY <1>14, FaultType DEF Cut, tables
<1>15. ASSUME NEW c \in Conns, CommandWriteFails(c) PROVE TypeOK'
  BY <1>15, FaultType DEF CommandWriteFails, tables, tracker
<1>16. ASSUME NEW v \in Vehicles \cup {NoVehicle}, NEW a \in BOOLEAN, UpdateDevice(v, a)
       PROVE  TypeOK'
  BY <1>16, BoundAssumption DEF UpdateDevice, tables, tracker, gateway, Binding
<1>17. ASSUME Crash PROVE TypeOK'
  BY <1>17, FaultType DEF Crash, tables, tracker
<1>18. ASSUME UNCHANGED vars PROVE TypeOK'
  BY <1>18 DEF vars, tables, tracker, gateway, bounds
<1> QED
  BY <1>1, <1>2, <1>3, <1>4, <1>5, <1>6, <1>7, <1>8, <1>9, <1>10, <1>11, <1>12,
     <1>13, <1>14, <1>15, <1>16, <1>17, <1>18 DEF Next, Report, Serve


-----------------------------------------------------------------------------
(* Nothing is lost *)

\* The tables only grow.
LEMMA TablesGrow ==
  TypeOK /\ ConnInv /\ [Next]_vars => rows \subseteq rows' /\ live \subseteq live'
<1> SUFFICES ASSUME TypeOK, ConnInv, [Next]_vars
             PROVE  rows \subseteq rows' /\ live \subseteq live'
  OBVIOUS
<1>1. ASSUME NEW c \in Conns, InsertPings(c) \/ InsertFails(c)
      PROVE  rows \subseteq rows' /\ live \subseteq live'
  BY <1>1, InsertedFacts DEF InsertPings, InsertFails, TypeOK
<1>2. ASSUME NEW c \in Conns, Publish(c)
      PROVE  rows \subseteq rows' /\ live \subseteq live'
  BY <1>2 DEF Publish
<1>3. CASE UNCHANGED tables
  BY <1>3 DEF tables
<1> QED
  BY <1>1, <1>2, <1>3
  DEF Next, vars, Report, Serve, Log, Dial, Connect, Send, Receive, Abandon, Handshake,
      Read, HangUp, DeliverPendingCommand, WriteACK, Cut, CommandWriteFails,
      UpdateDevice, Crash

\* What the tables have, they keep.
LEMMA SettledGrows ==
  ASSUME NEW T, NEW T2, T \subseteq T2, NEW L, NEW L2, L \subseteq L2, NEW v, NEW R
  PROVE  /\ Stored(T, v, R) => Stored(T2, v, R)
         /\ Settled(T, L, v, R) => Settled(T2, L2, v, R)
BY DEF Settled, Stored, Shown, HasRow

\* A goroutine whose step is that of another, or none, stays where it was.
LEMMA ProgressFrame ==
  ASSUME TypeOK, NEW c \in Conns, Progress(c),
         rows \subseteq rows', live \subseteq live',
         pc'[c] = pc[c] \/ pc'[c] \in {"free", "handshake", "reading"},
         vehicle'[c] = vehicle[c] \/ pc'[c] = "reading",
         packet'[c] = packet[c] \/ pc'[c] \in {"free", "handshake", "reading"}
  PROVE  Progress(c)'
<1>1. CASE pc'[c] \in {"free", "handshake", "reading"}
  BY <1>1 DEF Progress
<1>2. CASE pc'[c] \notin {"free", "handshake", "reading"}
  <2>1. pc'[c] = pc[c] /\ vehicle'[c] = vehicle[c] /\ packet'[c] = packet[c]
    BY <1>2
  <2>2. /\ Stored(rows, vehicle[c], packet[c]) => Stored(rows', vehicle[c], packet[c])
        /\ Settled(rows, live, vehicle[c], packet[c])
             => Settled(rows', live', vehicle[c], packet[c])
    BY SettledGrows
  <2> QED
    BY <2>1, <2>2 DEF Progress
<1> QED
  BY <1>1, <1>2

LEMMA ProgressNext ==
  ASSUME TypeOK, ConnInv, [Next]_vars, NEW c \in Conns
  PROVE  Progress(c)'
<1> USE DEF Goto, TypeOK
<1>0. Progress(c) /\ rows \subseteq rows' /\ live \subseteq live'
  BY TablesGrow DEF ConnInv
<1>1. ASSUME NEW r \in Records, Log(r) PROVE Progress(c)'
  BY <1>1, <1>0, ProgressFrame DEF Log, gateway
<1>2. ASSUME Dial PROVE Progress(c)'
  BY <1>2, <1>0, ProgressFrame DEF Dial, Connect
<1>3. ASSUME NEW d \in Conns, \/ \E R \in SUBSET held : Send(d, R)
                             \/ Receive(d) \/ Abandon(d) \/ Cut(d)
      PROVE  Progress(c)'
  BY <1>3, <1>0, ProgressFrame DEF Send, Receive, Abandon, Cut, gateway
<1>4. ASSUME NEW d \in Conns, Handshake(d) \/ HangUp(d) PROVE Progress(c)'
  BY <1>4, <1>0, ProgressFrame DEF Handshake, HangUp, Close
<1>5. ASSUME NEW d \in Conns, Read(d) PROVE Progress(c)'
  <2>1. CASE c = d
    <3>1. pc'[c] = "ack" => Settled(rows', live', vehicle[c], inbox[c])
      BY <1>5, <2>1 DEF Read, Settled, Stored, Shown, Pings
    <3> QED
      BY <1>5, <2>1, <3>1 DEF Read, Progress
  <2>2. CASE c # d
    BY <1>5, <2>2, <1>0, ProgressFrame DEF Read
  <2> QED
    BY <2>1, <2>2
<1>6. ASSUME NEW d \in Conns, InsertPings(d) PROVE Progress(c)'
  <2>1. CASE c = d
    <3>1. Stored(rows', vehicle[c], packet[c])
      BY <1>6, <2>1, InsertedFacts DEF InsertPings, Stored, Pings
    <3> QED
      BY <1>6, <2>1, <3>1, <1>0 DEF InsertPings, Progress
  <2>2. CASE c # d
    BY <1>6, <2>2, <1>0, ProgressFrame DEF InsertPings
  <2> QED
    BY <2>1, <2>2
<1>7. ASSUME NEW d \in Conns, InsertFails(d) PROVE Progress(c)'
  BY <1>7, <1>0, ProgressFrame DEF InsertFails, Close
<1>8. ASSUME NEW d \in Conns, Publish(d) PROVE Progress(c)'
  <2>1. CASE c = d
    <3>1. Settled(rows', live', vehicle[c], packet[c])
      BY <1>8, <2>1, <1>0 DEF Publish, Progress, Settled, Shown, Pings
    <3> QED
      BY <1>8, <2>1, <3>1 DEF Publish, Progress
  <2>2. CASE c # d
    BY <1>8, <2>2, <1>0, ProgressFrame DEF Publish
  <2> QED
    BY <2>1, <2>2
<1>9. ASSUME NEW d \in Conns, DeliverPendingCommand(d) \/ CommandWriteFails(d)
      PROVE  Progress(c)'
  <2>1. CASE c = d
    BY <1>9, <2>1, <1>0 DEF DeliverPendingCommand, CommandWriteFails, tables, tracker, Progress
  <2>2. CASE c # d
    BY <1>9, <2>2, <1>0, ProgressFrame DEF DeliverPendingCommand, CommandWriteFails
  <2> QED
    BY <2>1, <2>2
<1>10. ASSUME NEW d \in Conns, WriteACK(d) PROVE Progress(c)'
  BY <1>10, <1>0, ProgressFrame DEF WriteACK
<1>11. ASSUME NEW v \in Vehicles \cup {NoVehicle}, NEW a \in BOOLEAN, UpdateDevice(v, a)
       PROVE  Progress(c)'
  BY <1>11, <1>0, ProgressFrame DEF UpdateDevice, gateway
<1>12. ASSUME Crash PROVE Progress(c)'
  BY <1>12, <1>0, ProgressFrame DEF Crash
<1>13. ASSUME UNCHANGED vars PROVE Progress(c)'
  BY <1>13, <1>0, ProgressFrame DEF vars, gateway
<1> QED
  BY <1>1, <1>2, <1>3, <1>4, <1>5, <1>6, <1>7, <1>8, <1>9, <1>10, <1>11, <1>12, <1>13
  DEF Next, Report, Serve

\* A step that leaves the tracker, its link and this connection alone.
LEMMA ExchangeFrame ==
  ASSUME NEW c \in Conns, Exchange(c),
         rows \subseteq rows', live \subseteq live', sent' = sent,
         pc'[c] = pc[c], vehicle'[c] = vehicle[c], packet'[c] = packet[c],
         inbox'[c] = inbox[c], reply'[c] = reply[c]
  PROVE  Exchange(c)'
<1>1. Settled(rows, live, vehicle[c], sent) => Settled(rows', live', vehicle[c], sent)
  BY SettledGrows
<1> QED
  BY <1>1 DEF Exchange

LEMMA ExchangeNext ==
  ASSUME TypeOK, ConnInv, [Next]_vars, NEW c \in Conns, link' = c
  PROVE  Exchange(c)'
<1> USE DEF Goto, TypeOK
<1>0. /\ link = c => Exchange(c)
      /\ link = NoConn => sent = {}
      /\ rows \subseteq rows' /\ live \subseteq live'
      /\ c # NoConn
      /\ Progress(c)
  BY TablesGrow, IdAssumption DEF ConnInv
<1>1. ASSUME NEW r \in Records, Log(r) PROVE Exchange(c)'
  BY <1>1, <1>0, ExchangeFrame DEF Log, gateway
<1>2. ASSUME Dial PROVE Exchange(c)'
  <2>1. PICK d \in Conns : Connect(d)
    BY <1>2 DEF Dial
  <2>2. c = d
    BY <2>1 DEF Connect
  <2> QED
    BY <2>1, <2>2, <1>0 DEF Connect, Exchange, Working
<1>3. ASSUME NEW d \in Conns, NEW R \in SUBSET held, Send(d, R) PROVE Exchange(c)'
  <2>1. c = d /\ sent = {} /\ reply[c] = 0 /\ pc[c] = "reading"
    BY <1>3, <1>0 DEF Send, Exchange, Working, Stages
  <2> QED
    BY <1>3, <2>1, <1>0 DEF Send, Exchange, Working
<1>4. ASSUME NEW d \in Conns, Receive(d) PROVE Exchange(c)'
  <2>1. c = d /\ reply'[c] = 0 /\ pc[c] \in {"reading", "free"} /\ inbox[c] = {}
    BY <1>4, <1>0 DEF Receive, Exchange
  <2> QED
    BY <1>4, <2>1 DEF Receive, Exchange, Working
<1>5. ASSUME NEW d \in Conns, Abandon(d) \/ Cut(d) PROVE Exchange(c)'
  BY <1>5, <1>0 DEF Abandon, Cut
<1>6. ASSUME NEW d \in Conns, Handshake(d) PROVE Exchange(c)'
  <2>1. CASE c = d
    <3>1. reply[c] = 0 /\ inbox[c] = {}
      BY <1>6, <2>1, <1>0 DEF Handshake, tracker, Exchange
    <3> QED
      BY <1>6, <2>1, <3>1 DEF Handshake, Close, Exchange, Working
  <2>2. CASE c # d
    BY <1>6, <2>2, <1>0, ExchangeFrame DEF Handshake, Close, tracker, tables
  <2> QED
    BY <2>1, <2>2
<1>7. ASSUME NEW d \in Conns, Read(d) PROVE Exchange(c)'
  <2>1. CASE c = d
    <3>1. inbox[c] # {} /\ inbox[c] = sent /\ reply[c] = 0
      BY <1>7, <2>1, <1>0 DEF Read, tracker, Exchange
    <3> QED
      BY <1>7, <2>1, <3>1 DEF Read, tracker, Exchange, Working
  <2>2. CASE c # d
    BY <1>7, <2>2, <1>0, ExchangeFrame DEF Read, tracker, tables
  <2> QED
    BY <2>1, <2>2
<1>8. ASSUME NEW d \in Conns, HangUp(d) \/ InsertFails(d) PROVE Exchange(c)'
  <2>1. CASE c = d
    <3>1. Settled(rows, live, vehicle[c], sent) => Settled(rows', live', vehicle[c], sent)
      BY <1>0, SettledGrows
    <3> QED
      BY <1>8, <2>1, <3>1, <1>0
      DEF HangUp, InsertFails, Close, tracker, tables, Exchange, Working
  <2>2. CASE c # d
    BY <1>8, <2>2, <1>0, ExchangeFrame DEF HangUp, InsertFails, Close, tracker, tables
  <2> QED
    BY <2>1, <2>2
<1>9. ASSUME NEW d \in Conns, \/ InsertPings(d) \/ Publish(d)
                             \/ DeliverPendingCommand(d) \/ CommandWriteFails(d)
      PROVE  Exchange(c)'
  <2>1. CASE c = d
    BY <1>9, <2>1, <1>0
    DEF InsertPings, Publish, DeliverPendingCommand, CommandWriteFails,
        tracker, tables, Exchange, Working
  <2>2. CASE c # d
    BY <1>9, <2>2, <1>0, ExchangeFrame
    DEF InsertPings, Publish, DeliverPendingCommand, CommandWriteFails, tracker, tables
  <2> QED
    BY <2>1, <2>2
<1>10. ASSUME NEW d \in Conns, WriteACK(d) PROVE Exchange(c)'
  <2>1. CASE c = d
    <3>1. packet[c] = sent /\ sent # {} /\ inbox[c] = {}
      BY <1>10, <2>1, <1>0 DEF WriteACK, tracker, Exchange, Working
    <3>2. Settled(rows, live, vehicle[c], sent)
      BY <1>10, <2>1, <3>1, <1>0 DEF WriteACK, Progress
    <3> QED
      BY <1>10, <2>1, <3>1, <3>2 DEF WriteACK, tracker, tables, Exchange, Working
  <2>2. CASE c # d
    BY <1>10, <2>2, <1>0, ExchangeFrame DEF WriteACK, tracker, tables
  <2> QED
    BY <2>1, <2>2
<1>11. ASSUME NEW v \in Vehicles \cup {NoVehicle}, NEW a \in BOOLEAN, UpdateDevice(v, a)
       PROVE  Exchange(c)'
  BY <1>11, <1>0, ExchangeFrame DEF UpdateDevice, gateway, tracker, tables
<1>12. ASSUME Crash PROVE Exchange(c)'
  <2>1. Settled(rows, live, vehicle[c], sent) => Settled(rows', live', vehicle[c], sent)
    BY <1>0, SettledGrows
  <2> QED
    BY <1>12, <2>1, <1>0 DEF Crash, tracker, tables, Exchange, Working
<1>13. ASSUME UNCHANGED vars PROVE Exchange(c)'
  BY <1>13, <1>0, ExchangeFrame DEF vars, gateway, tracker, tables
<1> QED
  BY <1>1, <1>2, <1>3, <1>4, <1>5, <1>6, <1>7, <1>8, <1>9, <1>10, <1>11, <1>12, <1>13
  DEF Next, Report, Serve

\* What was logged stays logged, whether held or forgotten; packets are logged.
LEMMA LoggedNext ==
  ASSUME TypeOK, ConnInv, [Next]_vars
  PROVE  /\ Logged \subseteq Logged'
         /\ \A c \in Conns : inbox'[c] \subseteq Logged' /\ packet'[c] \subseteq Logged'
         /\ link' = NoConn => sent' = {}
<1> USE DEF TypeOK, Goto
<1>0. /\ link = NoConn => sent = {}
      /\ \A c \in Conns : inbox[c] \subseteq Logged /\ packet[c] \subseteq Logged
      /\ NoConn \notin Conns
  BY IdAssumption DEF ConnInv
<1>1. Logged \subseteq Logged'
  <2>1. ASSUME NEW d \in Conns, Receive(d) PROVE Logged \subseteq Logged'
    <3>1. \A r \in sent : [rec |-> r, vehicle |-> vehicle[d]] \in forgotten'
      BY <2>1 DEF Receive
    <3>2. ASSUME NEW r \in Logged PROVE r \in Logged'
      <4>1. CASE r \in sent
        <5>1. PICK f \in forgotten' : f = [rec |-> r, vehicle |-> vehicle[d]]
          BY <3>1, <4>1
        <5>2. f.rec = r
          BY <5>1
        <5> QED
          BY <5>1, <5>2 DEF Logged
      <4>2. CASE r \in held \ sent
        BY <2>1, <4>2 DEF Receive, Logged
      <4>3. CASE \E f \in forgotten : r = f.rec
        BY <2>1, <4>3 DEF Receive, Logged
      <4> QED
        BY <3>2, <4>1, <4>2, <4>3 DEF Logged
    <3> QED
      BY <3>2
  <2>2. CASE held \subseteq held' /\ forgotten' = forgotten
    BY <2>2 DEF Logged
  <2> QED
    BY <2>1, <2>2
    DEF Next, vars, Report, Serve, Log, Dial, Connect, Send, Abandon, Handshake, Read,
        HangUp, InsertPings, InsertFails, Publish, DeliverPendingCommand, WriteACK,
        Cut, CommandWriteFails, UpdateDevice, Crash, tracker
<1>2. ASSUME NEW c \in Conns PROVE inbox'[c] \subseteq Logged' /\ packet'[c] \subseteq Logged'
  <2>1. inbox'[c] \in {{}, inbox[c]} \/ inbox'[c] \subseteq held
    BY DEF Next, vars, Report, Serve, Log, Dial, Connect, Send, Receive, Abandon, Handshake,
           Read, HangUp, InsertPings, InsertFails, Publish, DeliverPendingCommand, WriteACK,
           Cut, CommandWriteFails, UpdateDevice, Crash, gateway, Close
  <2>2. packet'[c] \in {{}, packet[c], inbox[c]}
    BY DEF Next, vars, Report, Serve, Log, Dial, Connect, Send, Receive, Abandon, Handshake,
           Read, HangUp, InsertPings, InsertFails, Publish, DeliverPendingCommand, WriteACK,
           Cut, CommandWriteFails, UpdateDevice, Crash, gateway, Close
  <2>3. held \subseteq Logged
    BY DEF Logged
  <2> QED
    BY <2>1, <2>2, <2>3, <1>0, <1>1
<1>3. link' = NoConn => sent' = {}
  BY <1>0
  DEF Next, vars, Report, Serve, Log, Dial, Connect, Send, Receive, Abandon, Handshake,
      Read, HangUp, InsertPings, InsertFails, Publish, DeliverPendingCommand, WriteACK,
      Cut, CommandWriteFails, UpdateDevice, Crash, tracker
<1> QED
  BY <1>1, <1>2, <1>3

LEMMA HistoryNext == IInv /\ [Next]_vars => HistoryInv'
<1> SUFFICES ASSUME IInv, [Next]_vars PROVE HistoryInv'
  OBVIOUS
<1>0. TypeOK /\ ConnInv /\ HistoryInv /\ rows \subseteq rows' /\ live \subseteq live'
  BY TablesGrow DEF IInv
<1>1. ASSUME NEW f \in forgotten' PROVE Settled(rows', live', f.vehicle, {f.rec})
  <2>1. CASE f \in forgotten
    BY <2>1, <1>0, SettledGrows DEF HistoryInv
  <2>2. CASE f \notin forgotten
    <3>1. PICK c \in Conns : Receive(c)
      BY <2>2 DEF Next, vars, Report, Serve, Log, Dial, Connect, Send, Abandon, Handshake,
         Read, HangUp, InsertPings, InsertFails, Publish, DeliverPendingCommand, WriteACK,
         Cut, CommandWriteFails, UpdateDevice, Crash, tracker
    <3>2. PICK r \in sent : f = [rec |-> r, vehicle |-> vehicle[c]]
      BY <2>2, <3>1 DEF Receive
    <3>3. Settled(rows, live, vehicle[c], sent)
      BY <3>1, <1>0 DEF Receive, ConnInv, Exchange
    <3>4. Settled(rows, live, f.vehicle, {f.rec})
      BY <3>2, <3>3 DEF Settled, Stored, Shown
    <3> QED
      BY <3>4, <1>0, SettledGrows
  <2> QED
    BY <2>1, <2>2
<1>2. PublishedIsStored'
  <2>1. CASE live' = live
    BY <2>1, <1>0 DEF HistoryInv, PublishedIsStored, HasRow
  <2>2. CASE live' # live
    <3>1. PICK c \in Conns : Publish(c)
      BY <2>2 DEF Next, vars, Report, Serve, Log, Dial, Connect, Send, Receive, Abandon,
         Handshake, Read, HangUp, InsertPings, InsertFails, DeliverPendingCommand, WriteACK,
         Cut, CommandWriteFails, UpdateDevice, Crash, tables
    <3>2. Stored(rows, vehicle[c], packet[c])
      BY <3>1, <1>0 DEF Publish, Goto, ConnInv, Progress
    <3> QED
      BY <3>1, <3>2, <1>0 DEF Publish, HistoryInv, PublishedIsStored, Stored, Pings, HasRow
  <2> QED
    BY <2>1, <2>2
<1>3. \A f \in forgotten' : f.rec \notin held'
  <2>1. ASSUME NEW r \in Records, Log(r) PROVE \A f \in forgotten' : f.rec \notin held'
    BY <2>1, <1>0 DEF Log, HistoryInv
  <2>2. ASSUME NEW c \in Conns, Receive(c) PROVE \A f \in forgotten' : f.rec \notin held'
    BY <2>2, <1>0 DEF Receive, HistoryInv
  <2>3. CASE UNCHANGED <<held, forgotten>>
    BY <2>3, <1>0 DEF HistoryInv
  <2> QED
    BY <2>1, <2>2, <2>3
    DEF Next, vars, Report, Serve, Dial, Connect, Send, Abandon, Handshake, Read,
        HangUp, InsertPings, InsertFails, Publish, DeliverPendingCommand, WriteACK,
        Cut, CommandWriteFails, UpdateDevice, Crash, tracker
<1> QED
  BY <1>1, <1>2, <1>3 DEF HistoryInv

LEMMA Invariance == Spec => []IInv
<1>1. Init => IInv
  BY TypeInit DEF Init, IInv, ConnInv, HistoryInv, PublishedIsStored, Progress, Exchange,
     Working, Logged
<1>2. IInv /\ [Next]_vars => IInv'
  <2> SUFFICES ASSUME IInv, [Next]_vars PROVE IInv'
    OBVIOUS
  <2>1. TypeOK' /\ HistoryInv'
    BY TypeNext, HistoryNext DEF IInv
  <2>2. ConnInv'
    BY ProgressNext, ExchangeNext, LoggedNext DEF IInv, ConnInv
  <2> QED
    BY <2>1, <2>2 DEF IInv
<1> QED
  BY <1>1, <1>2, PTL DEF Spec

\* Every variable keeps its type.
THEOREM TypeCorrect == Spec => []TypeOK
<1>1. IInv => TypeOK
  BY DEF IInv
<1> QED
  BY <1>1, Invariance, PTL

-----------------------------------------------------------------------------
(* The contract *)

\* A row with the key of a ping is what the contract calls in the table.
LEMMA KeyOfRow ==
  ASSUME NEW v, NEW r \in Records, HasRow(rows, v, r)
  PROVE  Contract!InTable(v, r)
<1>1. PICK row \in rows : row.vehicle = v /\ row.ts = TsOf[r]
  BY DEF HasRow
<1>2. [vehicle |-> v, ts |-> TsOf[r]] \in StoredKeys
  BY <1>1 DEF StoredKeys
<1> QED
  BY <1>2 DEF Contract!InTable

\* What the contract calls known is what was logged.
LEMMA KnownIsLogged == Contract!Known = Logged
BY DEF Contract!Known, Logged

\* A batch of INSERTs is a Store of the contract.
LEMMA InsertIsStore ==
  ASSUME IInv, NEW c \in Conns, pc[c] = "insert", rows' \in Inserted(c),
         UNCHANGED <<held, live, forgotten>>
  PROVE  Contract!Next
<1>1. vehicle[c] \in Vehicles /\ packet[c] \subseteq Records /\ packet[c] \subseteq Logged
  BY DEF IInv, TypeOK, ConnInv, Progress, Binding
<1>2. PICK F \in SUBSET Pings(packet[c]) :
        rows' = rows \cup {RowOf(vehicle[c], r) : r \in F}
  BY <1>1, InsertedFacts
<1>3. F \in SUBSET Records /\ F \subseteq Usable \cap Logged
  BY <1>1, <1>2 DEF Pings
<1>4. StoredKeys \subseteq StoredKeys'
  BY <1>2 DEF StoredKeys
<1>5. ASSUME NEW key \in StoredKeys' \ StoredKeys
      PROVE  /\ key.vehicle \in Vehicles
             /\ \E r \in Logged \cap Usable : key.ts \in [q \in Records |-> {TsOf[q]}][r]
  <2>1. PICK row \in rows' : key = [vehicle |-> row.vehicle, ts |-> row.ts]
    BY <1>5 DEF StoredKeys
  <2>2. row \notin rows
    BY <1>5, <2>1 DEF StoredKeys
  <2>3. PICK r \in F : row = RowOf(vehicle[c], r)
    BY <1>2, <2>2
  <2>4. key.vehicle = vehicle[c] /\ key.ts = TsOf[r]
    BY <2>1, <2>3 DEF RowOf
  <2> QED
    BY <2>4, <1>1, <1>3
<1>6. Contract!Store
  BY <1>4, <1>5, KnownIsLogged DEF Contract!Store
<1> QED
  BY <1>6 DEF Contract!Next

\* The fan-out of a stored packet is a Show of the contract.
LEMMA PublishIsShow ==
  ASSUME IInv, NEW c \in Conns, Publish(c)
  PROVE  Contract!Next
<1>1. packet[c] \subseteq Records /\ packet[c] \subseteq Logged
  BY DEF IInv, TypeOK, ConnInv
<1>2. Stored(rows, vehicle[c], packet[c])
  BY DEF Publish, Goto, IInv, ConnInv, Progress
<1>3. ASSUME NEW p \in live' \ live
      PROVE  p.rec \in Logged /\ Contract!InTable(p.vehicle, p.rec)
  <2>1. PICK r \in Pings(packet[c]) : p = [vehicle |-> vehicle[c], rec |-> r]
    BY <1>3 DEF Publish
  <2>2. r \in Records /\ r \in Logged /\ HasRow(rows, vehicle[c], r)
    BY <2>1, <1>1, <1>2 DEF Pings, Stored
  <2> QED
    BY <2>1, <2>2, KeyOfRow
<1>4. Contract!Show
  BY <1>3, KnownIsLogged DEF Contract!Show, Publish, tracker, StoredKeys
<1> QED
  BY <1>4 DEF Contract!Next

\* A right count is a Forget of the contract.
LEMMA ReceiveIsForget ==
  ASSUME IInv, NEW c \in Conns, Receive(c)
  PROVE  Contract!Next
<1>1. sent \subseteq Records /\ sent \subseteq held
  BY DEF IInv, TypeOK
<1>2. Settled(rows, live, vehicle[c], sent)
  BY DEF Receive, IInv, ConnInv, Exchange
<1>3. \A r \in sent : [rec |-> r, vehicle |-> vehicle[c]] \notin forgotten
  BY <1>1 DEF IInv, HistoryInv
<1>4. {f.rec : f \in forgotten' \ forgotten} = held \ held'
  <2>1. forgotten' \ forgotten = {[rec |-> r, vehicle |-> vehicle[c]] : r \in sent}
    BY <1>3 DEF Receive
  <2>2. \A f \in forgotten' \ forgotten : f.rec \in sent
    BY <2>1
  <2>3. ASSUME NEW r \in sent PROVE r \in {f.rec : f \in forgotten' \ forgotten}
    <3>1. [rec |-> r, vehicle |-> vehicle[c]] \in forgotten' \ forgotten
      BY <2>1
    <3> QED
      BY <3>1
  <2>4. held \ held' = sent
    BY <1>1 DEF Receive
  <2> QED
    BY <2>2, <2>3, <2>4
<1>5. ASSUME NEW f \in forgotten' \ forgotten, f.vehicle # NoVehicle, f.rec \in Usable
      PROVE  /\ Contract!InTable(f.vehicle, f.rec)
             /\ [vehicle |-> f.vehicle, rec |-> f.rec] \in live
  <2>1. PICK r \in sent : f = [rec |-> r, vehicle |-> vehicle[c]]
    BY <1>5 DEF Receive
  <2>2. HasRow(rows, f.vehicle, f.rec) /\ [vehicle |-> f.vehicle, rec |-> f.rec] \in live
    BY <1>2, <1>5, <2>1 DEF Settled, Stored, Shown
  <2> QED
    BY <2>1, <2>2, <1>1, KeyOfRow
<1>6. Contract!Forget
  BY <1>4, <1>5 DEF Contract!Forget, StoredKeys, Receive, tables
<1> QED
  BY <1>6 DEF Contract!Next

LEMMA StepRefines == IInv /\ [Next]_vars => [Contract!Next]_(Contract!vars)
<1> SUFFICES ASSUME IInv, [Next]_vars PROVE [Contract!Next]_(Contract!vars)
  OBVIOUS
<1>1. ASSUME NEW r \in Records, Log(r) PROVE Contract!Next
  <2>1. Contract!Log
    BY <1>1, KnownIsLogged DEF Log, Contract!Log, tables, StoredKeys, Logged
  <2> QED
    BY <2>1 DEF Contract!Next
<1>2. ASSUME NEW c \in Conns, Receive(c) PROVE Contract!Next
  BY <1>2, ReceiveIsForget
<1>3. ASSUME NEW c \in Conns, InsertPings(c) PROVE Contract!Next
  BY <1>3, InsertIsStore DEF InsertPings, Goto, tracker
<1>4. ASSUME NEW c \in Conns, InsertFails(c) PROVE [Contract!Next]_(Contract!vars)
  <2>1. CASE rows' \in Inserted(c)
    BY <1>4, <2>1, InsertIsStore DEF InsertFails, tracker
  <2>2. CASE rows' = rows
    BY <1>4, <2>2 DEF InsertFails, tracker, Contract!vars, StoredKeys
  <2> QED
    BY <1>4, <2>1, <2>2 DEF InsertFails
<1>5. ASSUME NEW c \in Conns, Publish(c) PROVE Contract!Next
  BY <1>5, PublishIsShow
<1>6. CASE UNCHANGED <<held, rows, live, forgotten>>
  BY <1>6 DEF Contract!vars, StoredKeys
<1> QED
  BY <1>1, <1>2, <1>3, <1>4, <1>5, <1>6
  DEF Next, vars, Report, Serve, Dial, Connect, Send, Abandon, Handshake, Read, HangUp,
      DeliverPendingCommand, WriteACK, Cut, CommandWriteFails, UpdateDevice,
      Crash, tracker, tables

\* The gateway implements the store-and-forward contract: with any number of
\* connections, cuts, crashes and rebindings, a position that a tracker deleted
\* is stored under the vehicle of the connection that acknowledged it and was
\* shown live, and nothing was shown that is not stored.
THEOREM Refinement == Spec => ContractSpec
<1>1. Init => Contract!Init
  BY DEF Init, Contract!Init, StoredKeys
<1>2. IInv /\ [Next]_vars => [Contract!Next]_(Contract!vars)
  BY StepRefines
<1> QED
  BY <1>1, <1>2, Invariance, PTL DEF Spec, ContractSpec, Contract!Spec
=============================================================================
