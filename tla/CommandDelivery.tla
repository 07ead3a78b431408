--------------------------- MODULE CommandDelivery ---------------------------
(***************************************************************************)
(* Remote immobilisation: the queue of server-to-device commands           *)
(* (iot/command_store.go), the interlock that judges them                  *)
(* (iot/command.go) and the delivery routine that every gateway connection *)
(* runs after it has stored a frame (Pipeline.DeliverPendingCommand in     *)
(* iot/pipeline.go).                                                       *)
(*                                                                         *)
(* A handler is the goroutine that serves one connection of one device.  A *)
(* device may have several at once: a tracker that lost its network opens  *)
(* a new connection while the old goroutine is still inside a database     *)
(* call.  DeliverPendingCommand is split where it leaves the process: the  *)
(* lookup, the snapshot with its verdict, the socket write, and the        *)
(* recording of the outcome.                                               *)
(***************************************************************************)
EXTENDS Integers

CONSTANTS
  Devices,      \* rows of iot_devices
  Vehicles,     \* rows of vehicles
  NoVehicle,    \* a NULL vehicle_id
  NoDevice,     \* the device of a command that has not been queued
  Handlers,     \* connection goroutines of the gateways
  Models,       \* models of devices
  ModelOf,      \* the model in each device's row
  Encoders,     \* the models and kinds for which a registered encoder has a frame
  CommandsEnabled, \* Pipeline.CommandsEnabled, with its command store and socket
  Commands,     \* ids of device_commands rows
  NoCommand,    \* a handler that holds no command
  Speeds,       \* speeds a ping may carry, in km/h
  NoSpeed,      \* a ping without a speed reading
  TTLs,         \* ttl arguments of EnqueueCommand (0 asks for the default)
  MaxSpeedKmh,  \* InterlockConfig.MaxSpeedKmh
  MaxFixAge,    \* InterlockConfig.MaxFixAge
  MaxQueueAge,  \* InterlockConfig.MaxQueueAge
  ClockSkew,    \* how far ahead of the server a device clock may run
  MaxTime,      \* bound: the clock stops here
  MaxFaults     \* bound: how many errors and crashes a behaviour may have

Immobilize == "immobilize"
Mobilize   == "mobilize"
Kinds      == {Immobilize, Mobilize}

ASSUME ConfigAssumption ==
  /\ MaxSpeedKmh \in Nat /\ MaxFixAge \in Nat /\ MaxQueueAge \in Nat
  /\ ClockSkew \in Nat /\ MaxTime \in Nat /\ MaxFaults \in Nat
  /\ Speeds \subseteq Nat /\ TTLs \subseteq Nat

ASSUME IdAssumption ==
  /\ ModelOf \in [Devices -> Models]
  /\ Encoders \subseteq Models \X Kinds
  /\ CommandsEnabled \in BOOLEAN
  /\ NoDevice \notin Devices
  /\ NoVehicle \notin Vehicles
  /\ NoCommand \notin Commands
  /\ NoSpeed \notin Nat

VARIABLES
  commands,   \* device_commands
  serves,     \* the device that each handler's connection authenticated
  vehicleOf,  \* iot_devices.vehicle_id
  newest,     \* per vehicle, its telemetry_timeseries row with the latest ts
  now,        \* wall clock
  faults,     \* errors and crashes so far
  pc,         \* where each handler is in DeliverPendingCommand
  held,       \* the command each handler looked up
  decision,   \* what each handler decided it on
  wire,       \* history: the commands that were ever written to a socket
  delivered   \* history: per handler, the commands it wrote, less those
              \* whose delivery it then failed to record

environment == <<serves, vehicleOf, newest, now>>
handling    == <<pc, held, decision>>
history     == <<wire, delivered>>
vars        == <<commands, environment, faults, handling, history>>

-----------------------------------------------------------------------------
(* Data *)

Reading == Speeds \cup {NoSpeed}
Fix     == [known : BOOLEAN, ts : Int, speed : Reading]
NoFix   == [known |-> FALSE, ts |-> 0, speed |-> NoSpeed]

\* VehicleSnapshot.
Snapshot    == [hasFix : BOOLEAN, age : Int, speed : Reading]
NoSnapshot  == [hasFix |-> FALSE, age |-> 0, speed |-> NoSpeed]

\* A verdict is taken at an instant, on a snapshot.
Decision   == [at : Int, snap : Snapshot]
NoDecision == [at |-> 0, snap |-> NoSnapshot]

Row == [device : Devices \cup {NoDevice}, vehicle : Vehicles \cup {NoVehicle},
        kind : Kinds, status : {"none", "pending", "sent", "refused"},
        requestedAt : Int, expiresAt : Int, basis : Snapshot]
NoRow == [device |-> NoDevice, vehicle |-> NoVehicle, kind |-> Mobilize,
          status |-> "none", requestedAt |-> 0, expiresAt |-> 0,
          basis |-> NoSnapshot]

Stages == {"idle", "judge", "refuse", "write", "mark"}

\* Mutant of PendingFor: the lookup forgets the status filter.
PendingForAnyStatus(d) == {c \in Commands : /\ commands[c].status # "none"
                                            /\ commands[c].device = d}

PendingFor(d) == {c \in Commands : /\ commands[c].status = "pending"
                                   /\ commands[c].device = d}

-----------------------------------------------------------------------------
(* The interlock *)

\* EvaluateInterlock: may this command be delivered on this snapshot?
EvaluateInterlock(kind, queuedFor, v) ==
  /\ queuedFor <= MaxQueueAge
  /\ \/ kind = Mobilize
     \/ /\ kind = Immobilize
        /\ v.hasFix
        /\ v.age <= MaxFixAge
        /\ v.speed # NoSpeed
        /\ v.speed <= MaxSpeedKmh

\* VehicleSnapshotFor: a command without a vehicle, or a vehicle without a
\* ping, has no fix.
VehicleSnapshotFor(v) ==
  IF v \in Vehicles /\ newest[v].known
  THEN [hasFix |-> TRUE, age |-> now - newest[v].ts, speed |-> newest[v].speed]
  ELSE NoSnapshot

-----------------------------------------------------------------------------
(* The rest of the fleet *)

\* EnqueueCommand, called with the device's vehicle.  The partial unique index
\* of device_commands rejects the row while another is pending.
EnqueueCommand(c, d, kind, ttl) ==
  /\ commands[c].status = "none"
  /\ PendingFor(d) = {}
  /\ commands' = [commands EXCEPT ![c] =
       [device |-> d, vehicle |-> vehicleOf[d], kind |-> kind,
        status |-> "pending", requestedAt |-> now,
        expiresAt |-> now + (IF ttl <= 0 THEN MaxQueueAge ELSE ttl),
        basis |-> NoSnapshot]]
  /\ UNCHANGED <<environment, faults, handling, history>>

\* UpdateDevice with a vehicle: the unit is moved to another truck.
UpdateDevice(d, v) ==
  /\ vehicleOf' = [vehicleOf EXCEPT ![d] = v]
  /\ UNCHANGED <<commands, serves, newest, now, faults, handling, history>>

\* InsertPings for one ping of a vehicle: it becomes the newest row only when
\* its timestamp is later, so a late upload of older records and a duplicate
\* leave the snapshot alone.
InsertPing(v, ts, speed) ==
  /\ ~newest[v].known \/ ts > newest[v].ts
  /\ newest' = [newest EXCEPT ![v] = [known |-> TRUE, ts |-> ts, speed |-> speed]]
  /\ UNCHANGED <<commands, serves, vehicleOf, now, faults, handling, history>>

Tick ==
  /\ now < MaxTime
  /\ now' = now + 1
  /\ UNCHANGED <<commands, serves, vehicleOf, newest, faults, handling, history>>

-----------------------------------------------------------------------------
(* DeliverPendingCommand *)

\* The routine returns in the handlers H: their locals are gone.
Return(H) ==
  /\ pc' = [h \in Handlers |-> IF h \in H THEN "idle" ELSE pc[h]]
  /\ held' = [h \in Handlers |-> IF h \in H THEN NoCommand ELSE held[h]]
  /\ decision' = [h \in Handlers |-> IF h \in H THEN NoDecision ELSE decision[h]]

\* The UPDATE of the held command's row by its id, whatever its status is by
\* now; the snapshot the decision was taken on goes with the outcome.
Record(h, outcome) ==
  commands' = [commands EXCEPT ![held[h]] =
                 [@ EXCEPT !.status = outcome, !.basis = decision[h].snap]]

Goto(h, from, to) == pc[h] = from /\ pc' = [pc EXCEPT ![h] = to]

\* Mutant of NextPendingCommand: neither the status nor the order of the rows
\* is in the query.
NextCommandOfDevice(h) ==
  /\ CommandsEnabled
  /\ Goto(h, "idle", "judge")
  /\ \E c \in {b \in Commands : commands[b].device = serves[h]} :
       held' = [held EXCEPT ![h] = c]
  /\ UNCHANGED <<commands, environment, faults, decision, history>>

\* NextPendingCommand finds a row, where commands are enabled at all.  (Finding
\* none, or failing, the routine returns and nothing has changed.)
NextPendingCommand(h) ==
  /\ CommandsEnabled
  /\ Goto(h, "idle", "judge")
  /\ \E c \in PendingFor(serves[h]) :
       /\ \A b \in PendingFor(serves[h]) :
            commands[c].requestedAt <= commands[b].requestedAt
       /\ held' = [held EXCEPT ![h] = c]
  /\ UNCHANGED <<commands, environment, faults, decision, history>>

\* EncodeCommand: there is no default, and an encoder may not know the kind.
EncodeCommand(d, kind) == <<ModelOf[d], kind>> \in Encoders

\* One read of the database, the verdict computed from it, and then either the
\* frame that the model's encoder makes of the command or a refusal.
Verdict(h) ==
  LET cmd  == commands[held[h]]
      snap == VehicleSnapshotFor(cmd.vehicle)
  IN [allowed |-> EvaluateInterlock(cmd.kind, now - cmd.requestedAt, snap),
      snap    |-> snap]

Judge(h) ==
  /\ pc[h] = "judge"
  /\ LET verdict == Verdict(h)
         sends   == verdict.allowed /\ EncodeCommand(serves[h], commands[held[h]].kind)
     IN
     /\ \/ sends  /\ Goto(h, "judge", "write")
        \/ ~sends /\ Goto(h, "judge", "refuse")
     /\ decision' = [decision EXCEPT ![h] = [at |-> now, snap |-> verdict.snap]]
  /\ UNCHANGED <<commands, environment, faults, held, history>>

\* Mutant of MarkCommandRefused: it writes the unused status `expired'.
MarkCommandExpired(h) ==
  /\ pc[h] = "refuse"
  /\ Return({h})
  /\ Record(h, "expired")
  /\ UNCHANGED <<environment, faults, history>>

\* Mutant of MarkCommandRefused: it records the snapshot but not the status.
MarkCommandReasonOnly(h) ==
  /\ pc[h] = "refuse"
  /\ Return({h})
  /\ commands' = [commands EXCEPT ![held[h]].basis = decision[h].snap]
  /\ UNCHANGED <<environment, faults, history>>

\* The interlock or the missing encoder is recorded as the reason.
MarkCommandRefused(h) ==
  /\ pc[h] = "refuse"
  /\ Return({h})
  /\ Record(h, "refused")
  /\ UNCHANGED <<environment, faults, history>>

\* sink.Write succeeds: the frame is on its way to the vehicle.
Write(h) ==
  /\ Goto(h, "write", "mark")
  /\ wire' = wire \cup {held[h]}
  /\ delivered' = [delivered EXCEPT ![h] = @ \cup {held[h]}]
  /\ UNCHANGED <<commands, environment, faults, held, decision>>

\* Mutant of MarkCommandSent: the outcome is recorded before the write.
MarkCommandSentFirst(h) ==
  /\ pc[h] = "write"
  /\ Return({h})
  /\ Record(h, "sent")
  /\ UNCHANGED <<environment, faults, history>>

\* Mutant of MarkCommandSent: it records the payload but not the status.
MarkCommandPayloadOnly(h) ==
  /\ pc[h] = "mark"
  /\ Return({h})
  /\ commands' = [commands EXCEPT ![held[h]].basis = decision[h].snap]
  /\ UNCHANGED <<environment, faults, history>>

\* The delivery is recorded, with the payload.
MarkCommandSent(h) ==
  /\ pc[h] = "mark"
  /\ Return({h})
  /\ Record(h, "sent")
  /\ UNCHANGED <<environment, faults, history>>

\* What the handlers in H lose when they stop here: a frame already written
\* whose delivery is not recorded.
Forget(H) ==
  delivered' = [h \in Handlers |->
     IF h \in H /\ pc[h] = "mark" THEN delivered[h] \ {held[h]} ELSE delivered[h]]

Fault == faults < MaxFaults /\ faults' = faults + 1

\* The snapshot query, the socket write or the UPDATE returns an error; it is
\* logged and the routine returns.
Fail(h) ==
  /\ pc[h] # "idle"
  /\ Fault
  /\ Return({h})
  /\ Forget({h})
  /\ UNCHANGED <<commands, environment, wire>>

\* The gateway process dies with all its connections; trackers reconnect.
Crash ==
  /\ \E h \in Handlers : pc[h] # "idle"
  /\ Fault
  /\ Return(Handlers)
  /\ Forget(Handlers)
  /\ UNCHANGED <<commands, environment, wire>>

-----------------------------------------------------------------------------

Init ==
  /\ commands  = [c \in Commands |-> NoRow]
  /\ serves    \in [Handlers -> Devices]
  /\ vehicleOf \in [Devices -> Vehicles]
  /\ newest    = [v \in Vehicles |-> NoFix]
  /\ now       = 0
  /\ faults    = 0
  /\ pc        = [h \in Handlers |-> "idle"]
  /\ held      = [h \in Handlers |-> NoCommand]
  /\ decision  = [h \in Handlers |-> NoDecision]
  /\ wire      = {}
  /\ delivered = [h \in Handlers |-> {}]

Fleet ==
  \/ \E c \in Commands, d \in Devices, k \in Kinds, ttl \in TTLs :
       EnqueueCommand(c, d, k, ttl)
  \/ \E d \in Devices, v \in Vehicles \cup {NoVehicle} : UpdateDevice(d, v)
  \/ \E v \in Vehicles, ts \in 0 .. now + ClockSkew, s \in Reading :
       InsertPing(v, ts, s)
  \/ Tick

Deliver(h) ==
  \/ NextPendingCommand(h)
  \/ Judge(h)
  \/ MarkCommandRefused(h)
  \/ Write(h)
  \/ MarkCommandSent(h)

Next ==
  \/ Fleet
  \/ \E h \in Handlers : Deliver(h) \/ Fail(h)
  \/ Crash

Spec == Init /\ [][Next]_vars

\* Time passes; a connected device keeps sending frames, and the handler that
\* has one is scheduled.  Faults are finitely many, so they do not meet every
\* attempt.
Fairness == WF_vars(Tick) /\ \A h \in Handlers : WF_vars(Deliver(h))

FairSpec == Spec /\ Fairness

-----------------------------------------------------------------------------
(* Properties *)

\* Every variable has its type.
TypeOK ==
  /\ commands \in [Commands -> Row]
  /\ serves \in [Handlers -> Devices]
  /\ vehicleOf \in [Devices -> Vehicles \cup {NoVehicle}]
  /\ newest \in [Vehicles -> Fix]
  /\ now \in Int
  /\ faults \in 0 .. MaxFaults
  /\ pc \in [Handlers -> Stages]
  /\ held \in [Handlers -> Commands \cup {NoCommand}]
  /\ decision \in [Handlers -> Decision]
  /\ wire \subseteq Commands
  /\ delivered \in [Handlers -> SUBSET Commands]

\* A handler about to write a command has not already delivered it: a second
\* immobilise from the same connection needs the record of the first to have
\* been lost.
NoRepeatedDelivery ==
  \A h \in Handlers : pc[h] = "write" => held[h] \notin delivered[h]

SoleHandler(h) == \A g \in Handlers : serves[g] = serves[h] => g = h

\* A device served by one connection gets its commands in the order the operators
\* gave them, whatever is retried after a failed write, a failed record or a crash:
\* no immobilise follows the mobilise that was meant to lift it (pipeline.go, the
\* command stays pending; command_store.go, one pending row, oldest first).
CommandsKeepTheirOrder ==
  \A h \in Handlers : SoleHandler(h) /\ pc[h] = "write" =>
    \A c \in wire : commands[c].device = serves[h] =>
      commands[c].requestedAt <= commands[held[h]].requestedAt

\* A row that says `sent' belongs to a command that was written, and the snapshot
\* recorded with an immobilise is one that permits it.
SentRowsAreTrue ==
  \A c \in Commands : commands[c].status = "sent" =>
    /\ c \in wire
    /\ EvaluateInterlock(commands[c].kind, 0, commands[c].basis)

\* With one connection per device, a delivery whose recording did not fail stays
\* recorded as sent: no later refusal overwrites it and it never goes back to pending.
SoleDeliveryStaysRecorded ==
  \A h \in Handlers : SoleHandler(h) =>
    \A c \in delivered[h] :
      \/ commands[c].status = "sent"
      \/ pc[h] = "mark" /\ held[h] = c

\* The audit trail never claims a delivery nobody made, even if another handler refused
\* the same command in between, and it does not forget one either while a device has
\* one connection (command_store.go, MarkSent and MarkRefused).
AuditTrailIsTrue == SentRowsAreTrue /\ SoleDeliveryStaysRecorded

\* What command.go:10 says of a delivery: the interlock runs against the state, right
\* now, of the vehicle the frame is about to stop, which is the one the device is
\* fitted to.  (Judge reads the vehicle in the command's row.)
InterlockRunsAtDelivery ==
  [][\A h \in Handlers :
       Judge(h) /\ pc'[h] = "write" /\ vehicleOf[serves[h]] \in Vehicles =>
         LET cmd == commands[held[h]]
         IN  EvaluateInterlock(cmd.kind, now - cmd.requestedAt,
                               VehicleSnapshotFor(vehicleOf[serves[h]]))]_vars

\* A pending command of a device that is connected and keeps reporting is
\* eventually decided: it does not hold the device's one pending slot for ever.
EventuallyDecided ==
  \A c \in Commands :
    (\E h \in Handlers : /\ CommandsEnabled
                        /\ commands[c].status = "pending"
                        /\ serves[h] = commands[c].device)
      ~> commands[c].status \in {"sent", "refused"}
=============================================================================
