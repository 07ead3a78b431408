------------------------------- MODULE HQGateway -------------------------------
(***************************************************************************)
(* The HQ gateway process (cmd/sinotrack/main.go, iot/hq.go): the accept   *)
(* loop with its semaphore of connection slots, a goroutine per            *)
(* connection, and shutdown on a signal.                                   *)
(*                                                                         *)
(* The protocol has no handshake and no acknowledgements: every frame      *)
(* carries a device id.  The first well-formed frame authenticates the     *)
(* connection and pins its device; frames with another id are dropped.     *)
(* The accept loop, the slots and shutdown are those of cmd/gateway, too.  *)
(***************************************************************************)
EXTENDS Integers, FiniteSets

CONSTANTS
  Conns,      \* TCP connections that trackers open
  NoConn,     \* the accept loop has none in hand
  MaxConns,   \* maxTCPConns
  Serials,    \* device ids in frames
  Blank,      \* the empty device id
  Vehicles,
  NoVehicle,  \* a device without a vehicle
  MaxFrames,  \* bound: how many frames trackers send
  MaxEdits,   \* bound: how often an operator edits a device
  MaxFaults   \* bound: how many errors there may be

ASSUME DataAssumption ==
  /\ NoConn \notin Conns /\ Blank \notin Serials /\ NoVehicle \notin Vehicles
  /\ MaxConns \in Nat /\ MaxFrames \in Nat /\ MaxEdits \in Nat /\ MaxFaults \in Nat

VARIABLES
  devices,   \* iot_devices: the row of each registered serial
  writes,    \* what was written for frames: pings, status words, last_seen
  main,      \* the main goroutine
  pools,     \* whether the database pools are open
  loop,      \* the accept loop
  accepted,  \* the connection it has in hand
  slots,     \* connections that hold a slot of sem
  group,     \* the goroutines wg counts
  conn,      \* where each connection is
  bound,     \* boundID of each, Blank before its first frame
  vehicle,   \* the vehicle its device had then
  frame,     \* the frame it works on, when that is a usable position
  left,      \* how many frames trackers will still send
  fitted,    \* history: the vehicles each serial was fitted to
  edits,
  faults

server  == <<main, pools, loop, accepted, slots, group>>
binding == <<bound, vehicle, frame>>
vars    == <<devices, writes, server, conn, binding, left, fitted, edits, faults>>

Device == [vehicle : Vehicles \cup {NoVehicle}, active : BOOLEAN]
\* What ParseHQFrame makes of a frame: an error; a frame that is no position; a
\* position without a fix, at (0,0), or usable.
Kinds  == {"malformed", "control", "no_fix", "zero", "position"}
Frame  == [id : Serials \cup {Blank}, kind : Kinds]
Write  == [what : {"device", "ping"}, serial : Serials, id : Serials,
           vehicle : Vehicles \cup {NoVehicle}]

\* A database call fails; they all do once the pools are closed.
Fault == IF pools THEN faults < MaxFaults /\ faults' = faults + 1 ELSE UNCHANGED faults

\* Goroutines that run handle.
Handling == {c \in Conns : conn[c] \in {"scan", "ingest"}}

-----------------------------------------------------------------------------
(* The accept loop *)

\* A tracker connects; the kernel queues the connection.
Connect(c) ==
  /\ conn[c] = "none" /\ main = "running"
  /\ conn' = [conn EXCEPT ![c] = "queued"]
  /\ UNCHANGED <<devices, writes, server, binding, left, fitted, edits, faults>>

\* The loop takes a connection.  Any error but ErrClosed is logged, and it tries again.
Accept(c) ==
  /\ loop = "accept" /\ main = "running"
  /\ conn[c] = "queued"
  /\ loop' = "select"
  /\ accepted' = c
  /\ UNCHANGED <<devices, writes, main, pools, slots, group, conn, binding, left, fitted, edits,
                 faults>>

\* Mutant of Admit: one connection too many.
AdmitOneMore ==
  /\ loop = "select"
  /\ Cardinality(slots) <= MaxConns
  /\ slots' = slots \cup {accepted}
  /\ loop' = "spawn"
  /\ UNCHANGED <<devices, writes, main, pools, accepted, group, conn, binding, left, fitted,
                 edits, faults>>

\* There is a slot: take it.
Admit ==
  /\ loop = "select"
  /\ Cardinality(slots) < MaxConns
  /\ slots' = slots \cup {accepted}
  /\ loop' = "spawn"
  /\ UNCHANGED <<devices, writes, main, pools, accepted, group, conn, binding, left, fitted,
                 edits, faults>>

\* Mutant of Spawn: wg.Add is left to the goroutine, which has yet to call it.
SpawnUncounted ==
  /\ loop = "spawn"
  /\ conn' = [conn EXCEPT ![accepted] = "scan"]
  /\ loop' = "accept"
  /\ accepted' = NoConn
  /\ UNCHANGED <<devices, writes, main, pools, slots, group, binding, left, fitted, edits, faults>>

\* wg.Add, and the goroutine starts.
Spawn ==
  /\ loop = "spawn"
  /\ group' = group \cup {accepted}
  /\ conn' = [conn EXCEPT ![accepted] = "scan"]
  /\ loop' = "accept"
  /\ accepted' = NoConn
  /\ UNCHANGED <<devices, writes, main, pools, slots, binding, left, fitted, edits, faults>>

\* There is none: close the connection at once.
Reject ==
  /\ loop = "select"
  /\ Cardinality(slots) >= MaxConns
  /\ conn' = [conn EXCEPT ![accepted] = "closed"]
  /\ loop' = "accept"
  /\ accepted' = NoConn
  /\ UNCHANGED <<devices, writes, main, pools, slots, group, binding, left, fitted, edits, faults>>

-----------------------------------------------------------------------------
(* handle *)

\* The goroutine returns from handle, which closes the connection.
Close(c) ==
  /\ conn' = [conn EXCEPT ![c] = "closing"]
  /\ bound' = [bound EXCEPT ![c] = Blank]
  /\ vehicle' = [vehicle EXCEPT ![c] = NoVehicle]
  /\ frame' = [frame EXCEPT ![c] = {}]

\* The tracker's next frame.
Scan(c) ==
  /\ conn[c] = "scan"
  /\ left > 0 /\ left' = left - 1

\* ParseHQFrame refuses the frame, or it has no device id.
Skip(c, f) ==
  /\ Scan(c)
  /\ f.kind = "malformed" \/ f.id = Blank
  /\ UNCHANGED <<devices, writes, server, conn, binding, fitted, edits, faults>>

\* What a frame with the id of the connection's device leads to: the status
\* word and last_seen for every frame, and Ingest for a usable position of a
\* device with a vehicle.  That these cannot be written is logged, and no more.
Process(c, serial, v, f) ==
  /\ writes' = IF pools
               THEN writes \cup {[what |-> "device", serial |-> serial, id |-> f.id,
                                  vehicle |-> NoVehicle]}
               ELSE writes
  /\ IF f.kind = "position" /\ v # NoVehicle
     THEN /\ conn' = [conn EXCEPT ![c] = "ingest"]
          /\ frame' = [frame EXCEPT ![c] = {f}]
     ELSE UNCHANGED <<conn, frame>>

Known(serial) == serial \in DOMAIN devices /\ devices[serial].active

\* Mutant of Authenticate: a disabled device is let in.
AuthenticateAnybody(c, f) ==
  /\ Scan(c)
  /\ f.kind # "malformed" /\ f.id # Blank /\ bound[c] = Blank /\ pools
  /\ IF f.id \in DOMAIN devices
     THEN /\ bound' = [bound EXCEPT ![c] = f.id]
          /\ vehicle' = [vehicle EXCEPT ![c] = devices[f.id].vehicle]
          /\ Process(c, f.id, devices[f.id].vehicle, f)
     ELSE Close(c) /\ UNCHANGED writes
  /\ UNCHANGED <<devices, server, fitted, edits, faults>>

\* The first frame: FindBySerial, then the frame itself.  Nobody else is let in.
Authenticate(c, f) ==
  /\ Scan(c)
  /\ f.kind # "malformed" /\ f.id # Blank /\ bound[c] = Blank /\ pools
  /\ IF Known(f.id)
     THEN /\ bound' = [bound EXCEPT ![c] = f.id]
          /\ vehicle' = [vehicle EXCEPT ![c] = devices[f.id].vehicle]
          /\ Process(c, f.id, devices[f.id].vehicle, f)
     ELSE Close(c) /\ UNCHANGED writes
  /\ UNCHANGED <<devices, server, fitted, edits, faults>>

\* FindBySerial fails: the connection is closed.
LookupFails(c, f) ==
  /\ Fault
  /\ Scan(c)
  /\ f.kind # "malformed" /\ f.id # Blank /\ bound[c] = Blank
  /\ Close(c)
  /\ UNCHANGED <<devices, writes, server, fitted, edits>>

\* Mutant of Receive: the device id of later frames is not compared.
ReceiveAny(c, f) ==
  /\ Scan(c)
  /\ f.kind # "malformed" /\ f.id # Blank /\ bound[c] # Blank
  /\ Process(c, bound[c], vehicle[c], f)
  /\ UNCHANGED <<devices, server, bound, vehicle, fitted, edits, faults>>

\* Mutant of Receive: a frame is taken before there is a device.
ReceiveUnpinned(c, f) ==
  /\ Scan(c)
  /\ f.kind # "malformed" /\ f.id # Blank
  /\ Process(c, bound[c], vehicle[c], f)
  /\ UNCHANGED <<devices, server, bound, vehicle, fitted, edits, faults>>

\* A later frame; one with another id is dropped.
Receive(c, f) ==
  /\ Scan(c)
  /\ f.kind # "malformed" /\ f.id # Blank /\ bound[c] # Blank
  /\ IF f.id = bound[c]
     THEN Process(c, bound[c], vehicle[c], f)
     ELSE UNCHANGED <<writes, conn, frame>>
  /\ UNCHANGED <<devices, server, bound, vehicle, fitted, edits, faults>>

\* Ingest has stored the ping, under the vehicle the connection began with.
Ingest(c) ==
  /\ conn[c] = "ingest" /\ pools
  /\ writes' = writes \cup {[what |-> "ping", serial |-> bound[c], id |-> f.id,
                             vehicle |-> vehicle[c]] : f \in frame[c]}
  /\ conn' = [conn EXCEPT ![c] = "scan"]
  /\ frame' = [frame EXCEPT ![c] = {}]
  /\ UNCHANGED <<devices, server, bound, vehicle, left, fitted, edits, faults>>

\* InsertPings fails: the connection is closed; nobody sends the frame again.
IngestFails(c) ==
  /\ Fault
  /\ conn[c] = "ingest"
  /\ Close(c)
  /\ UNCHANGED <<devices, writes, server, left, fitted, edits>>

\* The scanner ends: the tracker hung up, sent a frame that is too long, was
\* silent until the read deadline, or made the handler panic.
ScanEnds(c) ==
  /\ conn[c] = "scan"
  /\ Close(c)
  /\ UNCHANGED <<devices, writes, server, left, fitted, edits, faults>>

\* Mutant of Release: the slot stays taken.
ReleaseNothing(c) ==
  /\ conn[c] = "closing"
  /\ conn' = [conn EXCEPT ![c] = "leaving"]
  /\ UNCHANGED <<devices, writes, server, binding, left, fitted, edits, faults>>

\* The deferred calls run: the slot is free ...
Release(c) ==
  /\ conn[c] = "closing"
  /\ conn' = [conn EXCEPT ![c] = "leaving"]
  /\ slots' = slots \ {c}
  /\ UNCHANGED <<devices, writes, main, pools, loop, accepted, group, binding, left, fitted,
                 edits, faults>>

\* ... and wg.Done.
Leave(c) ==
  /\ conn[c] = "leaving"
  /\ conn' = [conn EXCEPT ![c] = "closed"]
  /\ group' = group \ {c}
  /\ UNCHANGED <<devices, writes, main, pools, loop, accepted, slots, binding, left, fitted,
                 edits, faults>>

-----------------------------------------------------------------------------
(* Shutdown, and the operator *)

\* The signal: the listener is closed, and main waits for wg.
Signal ==
  /\ main = "running"
  /\ main' = "waiting"
  /\ conn' = [c \in Conns |-> IF conn[c] = "queued" /\ c # accepted THEN "closed" ELSE conn[c]]
  /\ UNCHANGED <<devices, writes, pools, loop, accepted, slots, group, binding, left, fitted,
                 edits, faults>>

\* Accept returns ErrClosed.
LoopEnds ==
  /\ loop = "accept" /\ main # "running"
  /\ loop' = "ended"
  /\ UNCHANGED <<devices, writes, main, pools, accepted, slots, group, conn, binding, left,
                 fitted, edits, faults>>

\* wg.Wait finds nobody, or thirty seconds have passed.  The loop is not asked: it may
\* have a connection in hand, and handlers go on in either case.
Drained ==
  /\ main = "waiting" /\ group = {}
  /\ main' = "drained"
  /\ UNCHANGED <<devices, writes, pools, loop, accepted, slots, group, conn, binding, left,
                 fitted, edits, faults>>

TimedOut ==
  /\ main = "waiting"
  /\ main' = "timed_out"
  /\ UNCHANGED <<devices, writes, pools, loop, accepted, slots, group, conn, binding, left,
                 fitted, edits, faults>>

Returning == main \in {"drained", "timed_out"}

\* main returns: its deferred calls close the pools, once the statements under way are done.
ClosePools ==
  /\ Returning /\ pools
  /\ pools' = FALSE
  /\ UNCHANGED <<devices, writes, main, loop, accepted, slots, group, conn, binding, left,
                 fitted, edits, faults>>

\* The process ends with whatever still runs: main has returned, or the goroutine in
\* wg.Wait, woken when nobody was left, sees the group in use again and panics.
Exit ==
  /\ Returning
  /\ pools => main = "drained" /\ group # {}
  /\ main' = "exited" /\ pools' = FALSE
  /\ loop' = "ended"
  /\ accepted' = NoConn
  /\ slots' = {} /\ group' = {}
  /\ conn' = [c \in Conns |-> "closed"]
  /\ bound' = [c \in Conns |-> Blank]
  /\ vehicle' = [c \in Conns |-> NoVehicle]
  /\ frame' = [c \in Conns |-> {}]
  /\ UNCHANGED <<devices, writes, left, fitted, edits, faults>>

\* An operator registers a device, which is active from the start ...
CreateDevice(serial, v) ==
  /\ edits < MaxEdits /\ edits' = edits + 1
  /\ serial \notin DOMAIN devices
  /\ devices' = [s \in DOMAIN devices \cup {serial} |->
                  IF s = serial THEN [vehicle |-> v, active |-> TRUE] ELSE devices[s]]
  /\ fitted' = [fitted EXCEPT ![serial] = fitted[serial] \cup {v}]
  /\ UNCHANGED <<writes, server, conn, binding, left, faults>>

\* ... and disables, enables or refits one.
UpdateDevice(serial, row) ==
  /\ edits < MaxEdits /\ edits' = edits + 1
  /\ serial \in DOMAIN devices
  /\ devices' = [devices EXCEPT ![serial] = row]
  /\ fitted' = IF row.active THEN [fitted EXCEPT ![serial] = fitted[serial] \cup {row.vehicle}]
                             ELSE fitted
  /\ UNCHANGED <<writes, server, conn, binding, left, faults>>

-----------------------------------------------------------------------------

Init ==
  /\ devices \in UNION {[S -> Device] : S \in SUBSET Serials}
  /\ writes = {}
  /\ main = "running" /\ pools = TRUE /\ loop = "accept" /\ accepted = NoConn
  /\ slots = {} /\ group = {}
  /\ conn = [c \in Conns |-> "none"]
  /\ bound = [c \in Conns |-> Blank]
  /\ vehicle = [c \in Conns |-> NoVehicle]
  /\ frame = [c \in Conns |-> {}]
  /\ left = MaxFrames
  /\ fitted = [s \in Serials |-> IF Known(s) THEN {devices[s].vehicle} ELSE {}]
  /\ edits = 0 /\ faults = 0

Next ==
  \/ \E c \in Conns :
       \/ Connect(c) \/ Accept(c)
       \/ \E f \in Frame :
            Skip(c, f) \/ Authenticate(c, f) \/ LookupFails(c, f) \/ Receive(c, f)
       \/ Ingest(c) \/ IngestFails(c) \/ ScanEnds(c)
       \/ Release(c) \/ Leave(c)
  \/ Admit \/ Spawn \/ Reject
  \/ Signal \/ LoopEnds \/ Drained \/ TimedOut \/ ClosePools \/ Exit
  \/ \E serial \in Serials :
       \/ \E v \in Vehicles \cup {NoVehicle} : CreateDevice(serial, v)
       \/ \E row \in Device : UpdateDevice(serial, row)

Spec == Init /\ [][Next]_vars

\* Goroutines are scheduled, database calls return, timers fire, main goes on.  Nobody has
\* to connect, to send or to hang up.
Fairness ==
  /\ \A c \in Conns :
       /\ WF_vars(Accept(c)) /\ WF_vars(Ingest(c)) /\ WF_vars(ScanEnds(c))
       /\ WF_vars(Release(c)) /\ WF_vars(Leave(c))
  /\ WF_vars(Admit) /\ WF_vars(Spawn) /\ WF_vars(Reject)
  /\ WF_vars(LoopEnds) /\ WF_vars(TimedOut) /\ WF_vars(ClosePools) /\ WF_vars(Exit)

FairSpec == Spec /\ Fairness

-----------------------------------------------------------------------------
(* Properties *)

\* Connections whose goroutine has its deferred calls still to run.
Serving == {c \in Conns : conn[c] \in {"scan", "ingest", "closing"}}

TypeOK ==
  /\ DOMAIN devices \subseteq Serials /\ \A s \in DOMAIN devices : devices[s] \in Device
  /\ writes \subseteq Write
  /\ main \in {"running", "waiting", "drained", "timed_out", "exited"} /\ pools \in BOOLEAN
  /\ loop \in {"accept", "select", "spawn", "ended"}
  /\ accepted \in Conns \cup {NoConn}
  /\ slots \subseteq Conns /\ group \subseteq Conns
  /\ conn \in [Conns -> {"none", "queued", "scan", "ingest", "closing", "leaving", "closed"}]
  /\ bound \in [Conns -> Serials \cup {Blank}]
  /\ vehicle \in [Conns -> Vehicles \cup {NoVehicle}]
  /\ frame \in [Conns -> SUBSET Frame]
  /\ left \in 0 .. MaxFrames
  /\ fitted \in [Serials -> SUBSET (Vehicles \cup {NoVehicle})]
  /\ edits \in 0 .. MaxEdits /\ faults \in 0 .. MaxFaults

\* The gateway serves at most maxTCPConns connections, and the slots are taken
\* by just the connections it serves and the one about to be: none leaks on
\* any way out of handle, and none is given back twice.
SlotsMatchConnections ==
  /\ Cardinality(slots) <= MaxConns
  /\ slots = Serving \cup (IF loop = "spawn" THEN {accepted} ELSE {})

\* Whatever is written for a frame goes to the device the frame names, which
\* has been registered and active, and a ping to a vehicle it was fitted to:
\* no frame reaches another device's history, even when a tracker changes its
\* id half-way, and nothing is kept for a device nobody has enabled.
FramesStayWithTheirDevice ==
  \A w \in writes :
    /\ w.id = w.serial
    /\ fitted[w.serial] # {}
    /\ w.what = "ping" => w.vehicle \in fitted[w.serial] \ {NoVehicle}

\* serve and main as a BoundedServer: a client is served while its goroutine has
\* not run its deferred calls; after the signal the listener lets nobody in.
Phase == CASE main = "running" -> "open"    [] main = "waiting" -> "closing"
           [] main = "drained" -> "idle"    [] main = "timed_out" -> "overdue"
           [] main = "exited" -> "stopped"

Ended == {c \in Conns : \/ conn[c] \in {"leaving", "closed"}
                        \/ conn[c] = "none" /\ main # "running"}

Contract == INSTANCE BoundedServer
  WITH Clients <- Conns, Limit <- MaxConns, served <- Serving, gone <- Ended, phase <- Phase

\* The accept loop, the semaphore and the wait group keep the contract: a tracker is
\* served once, with at most maxTCPConns others at a time, and refused only when all
\* slots are in use or after the signal; of those that wait at the signal one at most is
\* still served, whatever main does; and main returns because of wg.Wait only after an
\* instant at which nobody was served.
ServerContract == Contract!Spec

\* What a clean end can still cut off: wg.Wait does not wait for the accept loop, which
\* may start the connection it had in hand at the signal while main closes the pools and
\* returns.  It is one connection at most; those that were being served have finished.
CleanEndCutsOneAtMost == main = "drained" => Cardinality(Serving) <= 1

\* Every slot comes back: a connection leaves when its tracker hangs up, is
\* refused or is silent for long, whatever failed meanwhile.
SlotsComeBack == \A c \in Conns : c \in slots ~> c \notin slots
=============================================================================
