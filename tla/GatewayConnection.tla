-------------------------- MODULE GatewayConnection --------------------------
(***************************************************************************)
(* The Codec 8 gateway (cmd/gateway/main.go) and one tracker: handshake,   *)
(* packets of AVL records, the ingest of their positions and the           *)
(* acknowledgement on which the tracker deletes them from its buffer.      *)
(*                                                                         *)
(* Each connection is served by a goroutine of its own, split where it     *)
(* leaves the process: the lookup of the device, the INSERT, the fan-out   *)
(* to live viewers, the command delivery and the ACK.  A tracker that      *)
(* loses its network opens a new connection while the old goroutine is     *)
(* still working on the packet it had received.                            *)
(*                                                                         *)
(* Of DeliverPendingCommand only its effect on the connection is here (see *)
(* CommandDelivery); of Pipeline.Ingest, the INSERT and the fan-out.  The  *)
(* steps between them, which only warn when they fail, and the last_seen   *)
(* bookkeeping touch none of this state.                                   *)
(***************************************************************************)
EXTENDS Integers, FiniteSets

CONSTANTS
  Records,    \* what the tracker may log
  Usable,     \* the records that are not at (0,0)
  Times,      \* device timestamps
  TsOf,       \* the timestamp of each record
  Vehicles,   \* rows of vehicles
  NoVehicle,  \* a NULL vehicle_id
  Conns,      \* connections of the tracker
  NoConn,     \* the tracker is offline
  MaxPacket,  \* how many records the tracker puts in a packet
  MaxEdits,   \* bound: how often an operator edits the device
  MaxFaults   \* bound: how many errors, cuts and crashes there may be

ASSUME RecordAssumption ==
  IsFiniteSet(Records) /\ Usable \subseteq Records /\ TsOf \in [Records -> Times]

ASSUME IdAssumption == NoVehicle \notin Vehicles /\ NoConn \notin Conns

ASSUME BoundAssumption == MaxEdits \in Nat /\ MaxFaults \in Nat

VARIABLES
  device,     \* the tracker's row of iot_devices
  rows,       \* telemetry_timeseries
  live,       \* history: the positions published to the hub
  held,       \* the records in the tracker's buffer
  sent,       \* the packet the tracker waits to have acknowledged
  link,       \* the connection the tracker uses
  forgotten,  \* history: the records the tracker deleted, each with the
              \* vehicle its connection was bound to
  pc,         \* where each connection's goroutine is ("free": there is none)
  vehicle,    \* the vehicle each goroutine read at the handshake
  inbox,      \* the packet on its way to each goroutine
  packet,     \* the packet each goroutine works on
  late,       \* each connection's write deadline has passed and still stands
  reply,      \* the record count on its way back to the tracker (0: none)
  edits, faults

tracker == <<held, sent, link, forgotten>>
gateway == <<pc, vehicle, inbox, packet, late, reply>>
tables  == <<rows, live>>
bounds  == <<edits, faults>>
vars    == <<device, tables, tracker, gateway, bounds>>

Stages == {"free", "handshake", "reading", "insert", "publish", "command", "ack"}

Fault == faults < MaxFaults /\ faults' = faults + 1

Goto(c, from, to) == pc[c] = from /\ pc' = [pc EXCEPT ![c] = to]

-----------------------------------------------------------------------------
(* The tracker *)

Log(r) ==
  /\ r \notin held \cup {f.rec : f \in forgotten}
  /\ held' = held \cup {r}
  /\ UNCHANGED <<device, tables, sent, link, forgotten, gateway, bounds>>

\* A free slot accepts the tracker's dial.
Connect(c) ==
  /\ link = NoConn
  /\ Goto(c, "free", "handshake")
  /\ link' = c
  /\ inbox' = [inbox EXCEPT ![c] = {}]
  /\ packet' = [packet EXCEPT ![c] = {}]
  /\ late' = [late EXCEPT ![c] = FALSE]
  /\ reply' = [reply EXCEPT ![c] = 0]
  /\ UNCHANGED <<device, tables, held, sent, forgotten, vehicle, bounds>>

\* Accepted, the tracker sends some of its buffer and waits for the count.
Send(c, R) ==
  /\ link = c /\ sent = {}
  /\ pc[c] \notin {"free", "handshake"}
  /\ R # {} /\ Cardinality(R) <= MaxPacket
  /\ sent' = R
  /\ inbox' = [inbox EXCEPT ![c] = R]
  /\ UNCHANGED <<device, tables, held, link, forgotten,
                 pc, vehicle, packet, late, reply, bounds>>

\* The count is what it sent: the tracker deletes the packet.
Receive(c) ==
  /\ link = c /\ sent # {}
  /\ reply[c] # 0 /\ reply[c] = Cardinality(sent)
  /\ held' = held \ sent
  /\ forgotten' = forgotten \cup {[rec |-> r, vehicle |-> vehicle[c]] : r \in sent}
  /\ sent' = {}
  /\ reply' = [reply EXCEPT ![c] = 0]
  /\ UNCHANGED <<device, tables, link, pc, vehicle, inbox, packet, late, bounds>>

\* The gateway closed the connection, or has answered without the right count
\* reaching the tracker: it hangs up and keeps the records.
Abandon(c) ==
  /\ link = c
  /\ \/ pc[c] = "free"
     \/ pc[c] = "reading" /\ inbox[c] = {} /\ sent # {}
  /\ sent = {} \/ reply[c] # Cardinality(sent)
  /\ link' = NoConn
  /\ sent' = {}
  /\ UNCHANGED <<device, tables, held, forgotten, gateway, bounds>>

\* The network is cut.  What was under way may still reach the gateway, whose
\* goroutine works on.
Cut(c) ==
  /\ Fault
  /\ link = c
  /\ link' = NoConn
  /\ sent' = {}
  /\ inbox' \in {inbox, [inbox EXCEPT ![c] = {}]}
  /\ UNCHANGED <<device, tables, held, forgotten,
                 pc, vehicle, packet, late, reply, edits>>

-----------------------------------------------------------------------------
(* The goroutine of a connection *)

\* handle returns: the deferred Close.
Close(c) ==
  /\ pc' = [pc EXCEPT ![c] = "free"]
  /\ packet' = [packet EXCEPT ![c] = {}]
  /\ inbox' = [inbox EXCEPT ![c] = {}]

\* ReadHandshake, FindBySerial and the answer.  The vehicle is read here, once.
Handshake(c) ==
  /\ pc[c] = "handshake"
  /\ \/ /\ device.active
        /\ Goto(c, "handshake", "reading")
        /\ vehicle' = [vehicle EXCEPT ![c] = device.vehicle]
        /\ UNCHANGED <<inbox, packet>>
     \/ ~device.active /\ Close(c) /\ UNCHANGED vehicle
  /\ UNCHANGED <<device, tables, tracker, late, reply, bounds>>

\* The records of a packet that become pings.
Pings(R) == R \cap Usable

\* Mutant of Read: the pings of a device without a vehicle are stored.
ReadUnbound(c) ==
  /\ inbox[c] # {}
  /\ \/ Pings(inbox[c]) = {} /\ Goto(c, "reading", "ack")
     \/ Pings(inbox[c]) # {} /\ Goto(c, "reading", "insert")
  /\ packet' = [packet EXCEPT ![c] = inbox[c]]
  /\ inbox' = [inbox EXCEPT ![c] = {}]
  /\ UNCHANGED <<device, tables, tracker, vehicle, late, reply, bounds>>

\* Mutant of Read: one record at (0,0) makes the whole packet be skipped.
ReadSkipsMixed(c) ==
  /\ inbox[c] # {}
  /\ \/ /\ vehicle[c] = NoVehicle \/ Pings(inbox[c]) # inbox[c]
        /\ Goto(c, "reading", "ack")
     \/ /\ vehicle[c] # NoVehicle /\ Pings(inbox[c]) = inbox[c]
        /\ Goto(c, "reading", "insert")
  /\ packet' = [packet EXCEPT ![c] = inbox[c]]
  /\ inbox' = [inbox EXCEPT ![c] = {}]
  /\ UNCHANGED <<device, tables, tracker, vehicle, late, reply, bounds>>

\* ReadAVLPacket and the branches that need no ping.
Read(c) ==
  /\ inbox[c] # {}
  /\ \/ /\ vehicle[c] = NoVehicle \/ Pings(inbox[c]) = {}
        /\ Goto(c, "reading", "ack")
     \/ /\ vehicle[c] # NoVehicle /\ Pings(inbox[c]) # {}
        /\ Goto(c, "reading", "insert")
  /\ packet' = [packet EXCEPT ![c] = inbox[c]]
  /\ inbox' = [inbox EXCEPT ![c] = {}]
  /\ UNCHANGED <<device, tables, tracker, vehicle, late, reply, bounds>>

\* ReadAVLPacket fails: the tracker is gone, or it was silent for the five
\* minutes of the read deadline.  One that has something to send is not.
HangUp(c) ==
  /\ pc[c] = "reading" /\ inbox[c] = {}
  /\ link # c \/ held = {} \/ sent # {}
  /\ Close(c)
  /\ UNCHANGED <<device, tables, tracker, vehicle, late, reply, bounds>>

\* The row of a ping.
RowOf(v, r) == [vehicle |-> v, ts |-> TsOf[r], rec |-> r]

\* Some row has the key of the ping.
HasRow(T, v, r) == \E row \in T : row.vehicle = v /\ row.ts = TsOf[r]

\* What the batch of INSERTs may leave: one row for each key that had none, the
\* first of its records.
Inserted(c) ==
  LET v   == vehicle[c]
      new == {r \in Pings(packet[c]) : ~HasRow(rows, v, r)}
  IN {rows \cup {RowOf(v, r) : r \in first} :
        first \in {F \in SUBSET new :
                     \A ts \in {TsOf[r] : r \in new} :
                       \E r \in F : \A q \in F : (TsOf[q] = ts) <=> (q = r)}}

\* InsertPings; the batch is one implicit transaction.
InsertPings(c) ==
  /\ Goto(c, "insert", "publish")
  /\ rows' \in Inserted(c)
  /\ UNCHANGED <<device, live, tracker, vehicle, inbox, packet, late, reply, bounds>>

\* Mutant of InsertFails: the error is logged and the packet acknowledged.
InsertFailsButAcks(c) ==
  /\ Fault
  /\ Goto(c, "insert", "ack")
  /\ UNCHANGED <<device, tables, tracker, vehicle, inbox, packet, late, reply, edits>>

\* Mutant of InsertFails: the error is logged and the ingest goes on.
InsertFailsButPublishes(c) ==
  /\ Fault
  /\ Goto(c, "insert", "publish")
  /\ UNCHANGED <<device, tables, tracker, vehicle, inbox, packet, late, reply, edits>>

\* InsertPings returns an error, which may hide a commit; handle returns without
\* an ACK.
InsertFails(c) ==
  /\ Fault
  /\ pc[c] = "insert"
  /\ rows' \in {rows} \cup Inserted(c)
  /\ Close(c)
  /\ UNCHANGED <<device, live, tracker, vehicle, late, reply, edits>>

\* Mutant of Publish: only one ping, the newest, is published.
PublishNewest(c) ==
  /\ Goto(c, "publish", "command")
  /\ \E r \in Pings(packet[c]) :
       /\ \A q \in Pings(packet[c]) : TsOf[q] <= TsOf[r]
       /\ live' = live \cup {[vehicle |-> vehicle[c], rec |-> r]}
  /\ UNCHANGED <<device, rows, tracker, vehicle, inbox, packet, late, reply, bounds>>

\* Hub.Publish, for every ping of the packet.
Publish(c) ==
  /\ Goto(c, "publish", "command")
  /\ live' = live \cup {[vehicle |-> vehicle[c], rec |-> r] : r \in Pings(packet[c])}
  /\ UNCHANGED <<device, rows, tracker, vehicle, inbox, packet, late, reply, bounds>>

\* DeliverPendingCommand leaves the write deadline alone when it writes nothing
\* and clears it after a write.
DeliverPendingCommand(c) ==
  /\ Goto(c, "command", "ack")
  /\ late' \in {late, [late EXCEPT ![c] = FALSE]}
  /\ UNCHANGED <<device, tables, tracker, vehicle, inbox, packet, reply, bounds>>

\* A command write that fails returns before it clears the deadline.
CommandWriteFails(c) ==
  /\ Fault
  /\ Goto(c, "command", "ack")
  /\ late' = [late EXCEPT ![c] = TRUE]
  /\ UNCHANGED <<device, tables, tracker, vehicle, inbox, packet, reply, edits>>

\* Mutant of WriteACK: it counts the pings and not the records.
WriteACKOfPings(c) ==
  /\ Goto(c, "ack", "reading")
  /\ reply' = [reply EXCEPT ![c] = IF late[c] THEN 0 ELSE Cardinality(Pings(packet[c]))]
  /\ packet' = [packet EXCEPT ![c] = {}]
  /\ UNCHANGED <<device, tables, tracker, vehicle, inbox, late, bounds>>

\* WriteACK counts every record of the packet; its error is not looked at.
WriteACK(c) ==
  /\ Goto(c, "ack", "reading")
  /\ reply' = [reply EXCEPT ![c] = IF late[c] THEN 0 ELSE Cardinality(packet[c])]
  /\ packet' = [packet EXCEPT ![c] = {}]
  /\ UNCHANGED <<device, tables, tracker, vehicle, inbox, late, bounds>>

-----------------------------------------------------------------------------
(* The rest *)

\* An operator binds the device to a vehicle, unbinds it, or switches it off or
\* on; open connections do not notice.
UpdateDevice(v, active) ==
  /\ edits < MaxEdits
  /\ edits' = edits + 1
  /\ device' = [vehicle |-> v, active |-> active]
  /\ UNCHANGED <<tables, tracker, gateway, faults>>

\* The gateway process dies with all its connections.
Crash ==
  /\ Fault
  /\ \E c \in Conns : pc[c] # "free"
  /\ pc' = [c \in Conns |-> "free"]
  /\ inbox' = [c \in Conns |-> {}]
  /\ packet' = [c \in Conns |-> {}]
  /\ UNCHANGED <<device, tables, tracker, vehicle, late, reply, edits>>

Init ==
  /\ device \in [vehicle : Vehicles \cup {NoVehicle}, active : {TRUE}]
  /\ rows = {} /\ live = {}
  /\ held = {} /\ sent = {} /\ forgotten = {} /\ link = NoConn
  /\ pc = [c \in Conns |-> "free"]
  /\ vehicle = [c \in Conns |-> NoVehicle]
  /\ inbox = [c \in Conns |-> {}]
  /\ packet = [c \in Conns |-> {}]
  /\ late = [c \in Conns |-> FALSE]
  /\ reply = [c \in Conns |-> 0]
  /\ edits = 0 /\ faults = 0

Dial == \E c \in Conns : Connect(c)

Report(c) == (\E R \in SUBSET held : Send(c, R)) \/ Receive(c) \/ Abandon(c)

Serve(c) ==
  \/ Handshake(c) \/ Read(c) \/ HangUp(c)
  \/ InsertPings(c) \/ Publish(c) \/ DeliverPendingCommand(c) \/ WriteACK(c)

Next ==
  \/ \E r \in Records : Log(r)
  \/ Dial
  \/ \E c \in Conns : Report(c) \/ Serve(c)
  \/ \E c \in Conns : Cut(c) \/ InsertFails(c) \/ CommandWriteFails(c)
  \/ \E v \in Vehicles \cup {NoVehicle}, a \in BOOLEAN : UpdateDevice(v, a)
  \/ Crash

Spec == Init /\ [][Next]_vars

\* The tracker keeps trying and goroutines are scheduled; errors are finitely
\* many.
Fairness ==
  WF_vars(Dial) /\ \A c \in Conns : WF_vars(Report(c)) /\ WF_vars(Serve(c))

FairSpec == Spec /\ Fairness

-----------------------------------------------------------------------------
(* Properties *)

Binding == Vehicles \cup {NoVehicle}

\* Every variable has its type.
TypeOK ==
  /\ device \in [vehicle : Binding, active : BOOLEAN]
  /\ rows \subseteq [vehicle : Vehicles, ts : Times, rec : Usable]
  /\ live \subseteq [vehicle : Vehicles, rec : Usable]
  /\ held \subseteq Records
  /\ sent \subseteq held
  /\ link \in Conns \cup {NoConn}
  /\ forgotten \subseteq [rec : Records, vehicle : Binding]
  /\ pc \in [Conns -> Stages]
  /\ vehicle \in [Conns -> Binding]
  /\ inbox \in [Conns -> SUBSET Records]
  /\ packet \in [Conns -> SUBSET Records]
  /\ late \in [Conns -> BOOLEAN]
  /\ reply \in [Conns -> Nat]
  /\ edits \in 0 .. MaxEdits
  /\ faults \in 0 .. MaxFaults

\* Everything a tracker logs is eventually acknowledged, unless the device is
\* switched off: neither a packet with unusable records nor a connection whose
\* write deadline stands can block its buffer for ever.
UploadsDrain ==
  \A r \in Records : r \in held ~> r \notin held \/ ~device.active

\* The keys of the table.
StoredKeys == {[vehicle |-> row.vehicle, ts |-> row.ts] : row \in rows}

\* The gateway implements the store-and-forward contract: a tracker deletes a
\* position only when the table has a row for that time under the vehicle of the
\* connection (a NULL vehicle apart) and the live map has been shown it, and
\* nothing is shown that is not in the table, whatever was cut, retried, rebound
\* or restarted on the way.
Contract == INSTANCE StoreAndForward
              WITH stored <- StoredKeys, shown <- live,
                   TimesOf <- [r \in Records |-> {TsOf[r]}]
ContractSpec == Contract!Spec
=============================================================================
