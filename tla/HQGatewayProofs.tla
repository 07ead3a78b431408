--------------------------- MODULE HQGatewayProofs ---------------------------
(***************************************************************************)
(* Proofs about HQGateway, for any connections, device ids and limits.     *)
(***************************************************************************)
EXTENDS HQGateway, FiniteSetTheorems, TLAPS

-----------------------------------------------------------------------------
(* The inductive invariant *)

\* The accept loop has a connection in hand while, and only while, it decides
\* what to do with it; nobody else touches that connection.
InHand ==
  IF loop \in {"select", "spawn"}
  THEN accepted \in Conns /\ conn[accepted] = "queued"
  ELSE accepted = NoConn

\* A slot per connection that is served or about to be, and no more of them
\* than there are slots.
Slots ==
  /\ IsFiniteSet(slots)
  /\ SlotsMatchConnections

\* wg counts the goroutines that have not called Done.
Counted == group = Serving \cup {c \in Conns : conn[c] = "leaving"}

\* The row of an active device has a vehicle the device was fitted to.
FittedInv == \A s \in DOMAIN devices : devices[s].active => devices[s].vehicle \in fitted[s]

\* A connection's device was registered and active when it was looked up, with
\* the vehicle the connection keeps; a position being stored is that device's.
Pinned(c) ==
  /\ bound[c] # Blank => vehicle[c] \in fitted[bound[c]]
  /\ conn[c] = "ingest" => /\ bound[c] # Blank /\ vehicle[c] # NoVehicle
                           /\ \A f \in frame[c] : f.id = bound[c]

\* Once wg.Wait has found nobody, there is nobody but the connection the loop had in
\* hand at the signal: it is still to be started, or all that is served.
OneLeft ==
  main = "drained" => /\ loop \in {"select", "spawn"} => Serving = {}
                      /\ \A c, d \in Serving : c = d

\* After the end there is no loop that would admit or refuse anybody.
Halted == main = "exited" => loop = "ended"

IInv ==
  /\ TypeOK
  /\ InHand /\ Slots /\ Counted
  /\ OneLeft /\ Halted
  /\ FittedInv /\ \A c \in Conns : Pinned(c)
  /\ FramesStayWithTheirDevice

-----------------------------------------------------------------------------
(* Types *)

States == {"none", "queued", "scan", "ingest", "closing", "leaving", "closed"}

BindingType ==
  /\ bound \in [Conns -> Serials \cup {Blank}]
  /\ vehicle \in [Conns -> Vehicles \cup {NoVehicle}]
  /\ frame \in [Conns -> SUBSET Frame]

LEMMA FaultType == TypeOK /\ Fault => faults' \in 0 .. MaxFaults
<1>1. CASE pools
  BY <1>1, DataAssumption DEF TypeOK, Fault
<1>2. CASE ~pools
  BY <1>2 DEF TypeOK, Fault
<1> QED
  BY <1>1, <1>2

LEMMA ScanType == ASSUME NEW c \in Conns, TypeOK, Scan(c) PROVE left' \in 0 .. MaxFrames
BY DataAssumption DEF TypeOK, Scan

LEMMA CloseType ==
  ASSUME TypeOK, NEW c \in Conns, Close(c) PROVE conn' \in [Conns -> States] /\ BindingType'
BY DEF TypeOK, Close, States, BindingType

LEMMA ProcessType ==
  ASSUME TypeOK, NEW c \in Conns, NEW serial \in Serials, NEW v, NEW f \in Frame, f.id \in Serials,
         Process(c, serial, v, f)
  PROVE  /\ writes' \subseteq Write
         /\ conn' \in [Conns -> States] /\ frame' \in [Conns -> SUBSET Frame]
<1>1. [what |-> "device", serial |-> serial, id |-> f.id, vehicle |-> NoVehicle] \in Write
  BY DEF Write
<1>2. writes' \subseteq Write
  BY <1>1 DEF TypeOK, Process
<1>3. CASE f.kind = "position" /\ v # NoVehicle
  BY <1>2, <1>3 DEF TypeOK, Process, States
<1>4. CASE ~(f.kind = "position" /\ v # NoVehicle)
  BY <1>2, <1>4 DEF TypeOK, Process, States
<1> QED
  BY <1>3, <1>4

LEMMA KnownType == ASSUME TypeOK, NEW s, Known(s)
                   PROVE  s \in Serials /\ devices[s].vehicle \in Vehicles \cup {NoVehicle}
BY DEF TypeOK, Known, Device

LEMMA AuthenticateType ==
  ASSUME TypeOK, NEW c \in Conns, NEW f \in Frame, Authenticate(c, f) PROVE TypeOK'
<1>1. left' \in 0 .. MaxFrames
  BY ScanType DEF Authenticate
<1>2. CASE Known(f.id)
  <2>1. f.id \in Serials /\ devices[f.id].vehicle \in Vehicles \cup {NoVehicle}
    BY <1>2, KnownType
  <2>2. Process(c, f.id, devices[f.id].vehicle, f)
    BY <1>2 DEF Authenticate
  <2>3. /\ writes' \subseteq Write
        /\ conn' \in [Conns -> States] /\ frame' \in [Conns -> SUBSET Frame]
    BY <2>1, <2>2, ProcessType
  <2>4. /\ bound' \in [Conns -> Serials \cup {Blank}]
        /\ vehicle' \in [Conns -> Vehicles \cup {NoVehicle}]
    BY <1>2, <2>1 DEF Authenticate, TypeOK
  <2> QED
    BY <1>1, <2>3, <2>4 DEF Authenticate, TypeOK, server, States
<1>3. CASE ~Known(f.id)
  <2>1. conn' \in [Conns -> States] /\ BindingType'
    BY <1>3, CloseType DEF Authenticate
  <2> QED
    BY <1>1, <1>3, <2>1 DEF Authenticate, TypeOK, server, States, BindingType
<1> QED
  BY <1>2, <1>3

LEMMA ReceiveType ==
  ASSUME TypeOK, NEW c \in Conns, NEW f \in Frame, Receive(c, f) PROVE TypeOK'
<1>1. left' \in 0 .. MaxFrames
  BY ScanType DEF Receive
<1>2. CASE f.id = bound[c]
  <2>1. bound[c] \in Serials
    BY DEF Receive, TypeOK
  <2>2. Process(c, bound[c], vehicle[c], f)
    BY <1>2 DEF Receive
  <2>3. /\ writes' \subseteq Write
        /\ conn' \in [Conns -> States] /\ frame' \in [Conns -> SUBSET Frame]
    BY <1>2, <2>1, <2>2, ProcessType
  <2> QED
    BY <1>1, <2>3 DEF Receive, TypeOK, server, States
<1>3. CASE f.id # bound[c]
  BY <1>1, <1>3 DEF Receive, TypeOK, server
<1> QED
  BY <1>2, <1>3

LEMMA IngestType ==
  ASSUME TypeOK, \A c \in Conns : Pinned(c), NEW c \in Conns, Ingest(c) PROVE TypeOK'
<1>1. bound[c] \in Serials
  BY DEF Ingest, Pinned, TypeOK
<1>2. ASSUME NEW f \in frame[c]
      PROVE  [what |-> "ping", serial |-> bound[c], id |-> f.id, vehicle |-> vehicle[c]] \in Write
  BY <1>1 DEF Ingest, Pinned, TypeOK, Write
<1>3. writes' \subseteq Write
  BY <1>2 DEF Ingest, TypeOK
<1> QED
  BY <1>3 DEF Ingest, TypeOK, server

LEMMA MainType == ASSUME TypeOK, Drained \/ TimedOut \/ ClosePools \/ Exit PROVE TypeOK'
<1>1. CASE Drained \/ TimedOut
  BY <1>1 DEF Drained, TimedOut, TypeOK, binding
<1>2. CASE ClosePools
  BY <1>2 DEF ClosePools, TypeOK, binding
<1>3. CASE Exit
  BY <1>3 DEF Exit, TypeOK
<1> QED
  BY <1>1, <1>2, <1>3

LEMMA CreateType ==
  ASSUME TypeOK, NEW serial \in Serials, NEW v \in Vehicles \cup {NoVehicle}, CreateDevice(serial, v)
  PROVE  TypeOK'
<1>1. DOMAIN devices' \subseteq Serials /\ \A s \in DOMAIN devices' : devices'[s] \in Device
  BY DEF CreateDevice, TypeOK, Device
<1>2. fitted' \in [Serials -> SUBSET (Vehicles \cup {NoVehicle})]
  BY DEF CreateDevice, TypeOK
<1>3. edits' \in 0 .. MaxEdits
  BY DataAssumption DEF CreateDevice, TypeOK
<1> QED
  BY <1>1, <1>2, <1>3 DEF CreateDevice, TypeOK, server, binding

LEMMA UpdateType ==
  ASSUME TypeOK, NEW serial \in Serials, NEW row \in Device, UpdateDevice(serial, row)
  PROVE  TypeOK'
<1>1. DOMAIN devices' \subseteq Serials /\ \A s \in DOMAIN devices' : devices'[s] \in Device
  BY DEF UpdateDevice, TypeOK
<1>2. row.vehicle \in Vehicles \cup {NoVehicle}
  BY DEF Device
<1>3. fitted' \in [Serials -> SUBSET (Vehicles \cup {NoVehicle})]
  BY <1>2 DEF UpdateDevice, TypeOK
<1>4. edits' \in 0 .. MaxEdits
  BY DataAssumption DEF UpdateDevice, TypeOK
<1> QED
  BY <1>1, <1>3, <1>4 DEF UpdateDevice, TypeOK, server, binding

LEMMA TypeNext == IInv /\ [Next]_vars => TypeOK'
<1> SUFFICES ASSUME IInv, [Next]_vars PROVE TypeOK'
  OBVIOUS
<1>0. TypeOK /\ InHand /\ \A c \in Conns : Pinned(c)
  BY DEF IInv
<1>1. ASSUME NEW c \in Conns, Connect(c) \/ Accept(c) PROVE TypeOK'
  BY <1>0, <1>1 DEF Connect, Accept, TypeOK, server, binding
<1>2. ASSUME NEW c \in Conns, NEW f \in Frame, Skip(c, f) PROVE TypeOK'
  BY <1>0, <1>2, ScanType DEF Skip, TypeOK, server, binding
<1>3. ASSUME NEW c \in Conns, NEW f \in Frame, LookupFails(c, f) PROVE TypeOK'
  BY <1>0, <1>3, ScanType, CloseType, FaultType
  DEF LookupFails, TypeOK, server, BindingType, States
<1>4. ASSUME NEW c \in Conns, IngestFails(c) \/ ScanEnds(c) PROVE TypeOK'
  BY <1>0, <1>4, CloseType, FaultType DEF IngestFails, ScanEnds, TypeOK, server, BindingType, States
<1>5. ASSUME NEW c \in Conns, Release(c) \/ Leave(c) PROVE TypeOK'
  BY <1>0, <1>5 DEF Release, Leave, TypeOK, binding
<1>6. ASSUME Admit \/ Spawn \/ Reject PROVE TypeOK'
  BY <1>0, <1>6 DEF InHand, Admit, Spawn, Reject, TypeOK, binding
<1>7. ASSUME Signal \/ LoopEnds PROVE TypeOK'
  BY <1>0, <1>7 DEF Signal, LoopEnds, TypeOK, binding
<1>8. ASSUME Drained \/ TimedOut \/ ClosePools \/ Exit PROVE TypeOK'
  BY <1>0, <1>8, MainType
<1>9. CASE UNCHANGED vars
  BY <1>0, <1>9 DEF TypeOK, vars, server, binding
<1> QED
  BY <1>0, <1>1, <1>2, <1>3, <1>4, <1>5, <1>6, <1>7, <1>8, <1>9,
     AuthenticateType, ReceiveType, IngestType, CreateType, UpdateType DEF Next

-----------------------------------------------------------------------------
(* Slots and the wait group *)

ServerInv == InHand /\ Slots /\ Counted /\ OneLeft /\ Halted

\* What handle does to a connection before its deferred calls.
HandleStep(c) ==
  /\ conn[c] \in {"scan", "ingest"}
  /\ conn' = conn \/ \E x \in {"scan", "ingest", "closing"} : conn' = [conn EXCEPT ![c] = x]
  /\ UNCHANGED server

LEMMA HandleKeepsServer ==
  ASSUME TypeOK, ServerInv, NEW c \in Conns, HandleStep(c) PROVE ServerInv'
<1> USE DEF OneLeft, Halted
<1>1. UNCHANGED <<main, loop, accepted, slots, group>>
  BY DEF HandleStep, server
<1>2. /\ conn[c] \in {"scan", "ingest"} /\ conn'[c] \in {"scan", "ingest", "closing"}
      /\ \A d \in Conns \ {c} : conn'[d] = conn[d]
  BY DEF HandleStep, TypeOK
<1>3. Serving' = Serving
  BY <1>2 DEF Serving
<1> QED
  BY <1>1, <1>2, <1>3 DEF ServerInv, InHand, Slots, SlotsMatchConnections, Counted

LEMMA StepsOfHandle ==
  ASSUME NEW c \in Conns, NEW f \in Frame,
         \/ Skip(c, f) \/ Authenticate(c, f) \/ LookupFails(c, f) \/ Receive(c, f)
         \/ Ingest(c) \/ IngestFails(c) \/ ScanEnds(c)
  PROVE  HandleStep(c)
BY DEF HandleStep, Skip, Authenticate, LookupFails, Receive, Ingest, IngestFails, ScanEnds,
       Scan, Process, Close

LEMMA ServerNext == IInv /\ [Next]_vars => ServerInv'
<1> SUFFICES ASSUME IInv, [Next]_vars PROVE ServerInv'
  OBVIOUS
<1>0. TypeOK /\ ServerInv /\ TypeOK'
  BY TypeNext DEF IInv, ServerInv
<1> USE DEF ServerInv, OneLeft, Halted
<1>1. ASSUME NEW c \in Conns, Connect(c) PROVE ServerInv'
  <2>1. Serving' = Serving /\ UNCHANGED server
    BY <1>0, <1>1 DEF Connect, Serving, TypeOK
  <2> QED
    BY <1>0, <1>1, <2>1
    DEF Connect, server, TypeOK, InHand, Slots, SlotsMatchConnections, Counted
<1>2. ASSUME NEW c \in Conns, Accept(c) PROVE ServerInv'
  BY <1>0, <1>2 DEF Accept, InHand, Slots, SlotsMatchConnections, Counted, Serving
<1>3. CASE Admit
  <2>1. IsFiniteSet(slots') /\ Cardinality(slots') <= MaxConns
    <3>1. IsFiniteSet(slots) /\ Cardinality(slots) < MaxConns /\ slots' = slots \cup {accepted}
      BY <1>0, <1>3 DEF Admit, Slots
    <3>2. IsFiniteSet(slots') /\ Cardinality(slots') \in {Cardinality(slots), Cardinality(slots) + 1}
      BY <3>1, FS_AddElement
    <3>3. Cardinality(slots) \in Nat
      BY <3>1, FS_CardinalityType
    <3> QED
      BY <3>1, <3>2, <3>3, DataAssumption
  <2> QED
    BY <1>0, <1>3, <2>1 DEF Admit, InHand, Slots, SlotsMatchConnections, Counted, Serving
<1>4. CASE Spawn
  <2>1. accepted \in Conns /\ conn[accepted] = "queued"
    BY <1>0, <1>4 DEF Spawn, InHand
  <2>2. Serving' = Serving \cup {accepted}
    BY <1>0, <1>4, <2>1 DEF Spawn, Serving, TypeOK
  <2>3. {c \in Conns : conn'[c] = "leaving"} = {c \in Conns : conn[c] = "leaving"}
    BY <1>0, <1>4, <2>1 DEF Spawn, TypeOK
  <2> QED
    BY <1>0, <1>4, <2>2, <2>3 DEF Spawn, InHand, Slots, SlotsMatchConnections, Counted
<1>5. CASE Reject
  <2>1. accepted \in Conns /\ conn[accepted] = "queued"
    BY <1>0, <1>5 DEF Reject, InHand
  <2>2. Serving' = Serving
        /\ {c \in Conns : conn'[c] = "leaving"} = {c \in Conns : conn[c] = "leaving"}
    BY <1>0, <1>5, <2>1 DEF Reject, Serving, TypeOK
  <2> QED
    BY <1>0, <1>5, <2>2 DEF Reject, InHand, Slots, SlotsMatchConnections, Counted
<1>6. ASSUME NEW c \in Conns, Release(c) PROVE ServerInv'
  <2>1. IsFiniteSet(slots') /\ Cardinality(slots') <= MaxConns
    <3>1. IsFiniteSet(slots) /\ Cardinality(slots) <= MaxConns /\ slots' = slots \ {c}
      BY <1>0, <1>6 DEF Release, Slots, SlotsMatchConnections
    <3>2. IsFiniteSet(slots') /\ Cardinality(slots') <= Cardinality(slots)
      BY <3>1, FS_Subset
    <3> QED
      BY <3>1, <3>2, FS_CardinalityType, DataAssumption
  <2>2. Serving' = Serving \ {c} /\ c \in Serving
    BY <1>0, <1>6 DEF Release, Serving, TypeOK
  <2>3. {d \in Conns : conn'[d] = "leaving"} = {d \in Conns : conn[d] = "leaving"} \cup {c}
    BY <1>0, <1>6 DEF Release, TypeOK
  <2>4. InHand'
    BY <1>0, <1>6 DEF Release, TypeOK, InHand
  <2>5. loop = "spawn" => accepted # c
    BY <1>0, <1>6 DEF Release, InHand
  <2> QED
    BY <1>0, <1>6, <2>1, <2>2, <2>3, <2>4, <2>5
    DEF Release, Slots, SlotsMatchConnections, Counted
<1>7. ASSUME NEW c \in Conns, Leave(c) PROVE ServerInv'
  <2>1. Serving' = Serving /\ c \notin Serving
    BY <1>0, <1>7 DEF Leave, Serving, TypeOK
  <2>2. {d \in Conns : conn'[d] = "leaving"} = {d \in Conns : conn[d] = "leaving"} \ {c}
    BY <1>0, <1>7 DEF Leave, TypeOK
  <2>3. InHand'
    BY <1>0, <1>7 DEF Leave, TypeOK, InHand
  <2> QED
    BY <1>0, <1>7, <2>1, <2>2, <2>3 DEF Leave, Slots, SlotsMatchConnections, Counted
<1>8. CASE Signal
  <2>1. Serving' = Serving
        /\ {c \in Conns : conn'[c] = "leaving"} = {c \in Conns : conn[c] = "leaving"}
    BY <1>0, <1>8 DEF Signal, Serving, TypeOK
  <2>2. InHand'
    BY <1>0, <1>8 DEF Signal, TypeOK, InHand
  <2> QED
    BY <1>0, <1>8, <2>1, <2>2 DEF Signal, Slots, SlotsMatchConnections, Counted
<1>9. CASE LoopEnds
  BY <1>0, <1>9 DEF LoopEnds, InHand, Slots, SlotsMatchConnections, Counted, Serving
<1>17. CASE Drained
  <2>1. Serving = {} /\ Serving' = Serving
    BY <1>0, <1>17 DEF Drained, Counted, Serving
  <2> QED
    BY <1>0, <1>17, <2>1 DEF Drained, InHand, Slots, SlotsMatchConnections, Counted
<1>18. CASE TimedOut \/ ClosePools
  <2>1. Serving' = Serving
    BY <1>18 DEF TimedOut, ClosePools, Serving
  <2> QED
    BY <1>0, <1>18, <2>1
    DEF TimedOut, ClosePools, InHand, Slots, SlotsMatchConnections, Counted
<1>10. CASE Exit
  <2>1. slots' = {} /\ group' = {} /\ loop' = "ended" /\ accepted' = NoConn
        /\ main' = "exited" /\ \A c \in Conns : conn'[c] = "closed"
    BY <1>10 DEF Exit
  <2> QED
    BY <2>1, FS_EmptySet, DataAssumption
    DEF InHand, Slots, SlotsMatchConnections, Counted, Serving
<1>11. ASSUME UNCHANGED <<server, conn>> PROVE ServerInv'
  BY <1>0, <1>11 DEF server, InHand, Slots, SlotsMatchConnections, Counted, Serving
<1>12. CASE UNCHANGED vars
  BY <1>11, <1>12 DEF vars
<1>13. ASSUME NEW serial \in Serials, NEW v, CreateDevice(serial, v) PROVE ServerInv'
  BY <1>11, <1>13 DEF CreateDevice
<1>14. ASSUME NEW serial \in Serials, NEW row, UpdateDevice(serial, row) PROVE ServerInv'
  BY <1>11, <1>14 DEF UpdateDevice
<1>15. ASSUME NEW c \in Conns, NEW f \in Frame,
              \/ Skip(c, f) \/ Authenticate(c, f) \/ LookupFails(c, f) \/ Receive(c, f)
       PROVE  ServerInv'
  BY <1>0, <1>15, StepsOfHandle, HandleKeepsServer
<1>16. ASSUME NEW c \in Conns, Ingest(c) \/ IngestFails(c) \/ ScanEnds(c) PROVE ServerInv'
  <2>1. HandleStep(c)
    BY <1>16 DEF HandleStep, Ingest, IngestFails, ScanEnds, Close
  <2> QED
    BY <1>0, <2>1, HandleKeepsServer
<1> QED
  BY <1>1, <1>2, <1>3, <1>4, <1>5, <1>6, <1>7, <1>8, <1>9, <1>10, <1>12, <1>13, <1>14,
     <1>15, <1>16, <1>17, <1>18 DEF Next

-----------------------------------------------------------------------------
(* Frames and their devices *)

FrameInv == FittedInv /\ FramesStayWithTheirDevice /\ \A c \in Conns : Pinned(c)

\* A device keeps the vehicles it was fitted to.
FittedGrows == \A s \in Serials : fitted[s] \subseteq fitted'[s]

\* A step that writes nothing and leaves every connection that has a device
\* with that device, or without one, and stores nothing new.
LEMMA NothingWritten ==
  ASSUME TypeOK, FrameInv, FittedGrows, FittedInv', UNCHANGED writes,
         \A c \in Conns :
           \/ /\ bound'[c] = bound[c] /\ vehicle'[c] = vehicle[c] /\ frame'[c] = frame[c]
              /\ conn'[c] = "ingest" => conn[c] = "ingest"
           \/ bound'[c] = Blank /\ conn'[c] # "ingest"
  PROVE  FrameInv'
<1>1. FramesStayWithTheirDevice'
  <2> SUFFICES ASSUME NEW w \in writes
               PROVE  /\ w.id = w.serial
                      /\ fitted'[w.serial] # {}
                      /\ w.what = "ping" => w.vehicle \in fitted'[w.serial] \ {NoVehicle}
    BY DEF FramesStayWithTheirDevice
  <2>1. w.serial \in Serials
    BY DEF TypeOK, Write
  <2> QED
    BY <2>1 DEF FrameInv, FramesStayWithTheirDevice, FittedGrows
<1>2. ASSUME NEW c \in Conns PROVE Pinned(c)'
  <2>1. CASE /\ bound'[c] = bound[c] /\ vehicle'[c] = vehicle[c] /\ frame'[c] = frame[c]
             /\ conn'[c] = "ingest" => conn[c] = "ingest"
    <3>1. Pinned(c) /\ bound[c] \in Serials \cup {Blank}
      BY DEF FrameInv, TypeOK
    <3> QED
      BY <2>1, <3>1 DEF Pinned, FittedGrows
  <2>2. CASE bound'[c] = Blank /\ conn'[c] # "ingest"
    BY <2>2 DEF Pinned
  <2> QED
    BY <2>1, <2>2
<1> QED
  BY <1>1, <1>2 DEF FrameInv

LEMMA FittedStays ==
  ASSUME FrameInv, UNCHANGED <<devices, fitted>> PROVE FittedGrows /\ FittedInv'
BY DEF FrameInv, FittedInv, FittedGrows

\* A connection that closes gives up its device.
LEMMA CloseKeepsFrames ==
  ASSUME TypeOK, FrameInv, NEW c \in Conns, Close(c), UNCHANGED <<devices, fitted, writes>>
  PROVE  FrameInv'
<1>1. ASSUME NEW d \in Conns
      PROVE  \/ /\ bound'[d] = bound[d] /\ vehicle'[d] = vehicle[d] /\ frame'[d] = frame[d]
                /\ conn'[d] = "ingest" => conn[d] = "ingest"
             \/ bound'[d] = Blank /\ conn'[d] # "ingest"
  BY DEF Close, TypeOK
<1> QED
  BY <1>1, FittedStays, NothingWritten

\* A frame of the connection's own device, which is or has just been pinned.
LEMMA ProcessKeepsFrames ==
  ASSUME TypeOK, FrameInv, NEW c \in Conns, NEW serial \in Serials, NEW f \in Frame,
         conn[c] = "scan", f.id = serial, Process(c, serial, vehicle'[c], f),
         vehicle'[c] \in fitted[serial], bound'[c] = serial,
         \A d \in Conns \ {c} : bound'[d] = bound[d] /\ vehicle'[d] = vehicle[d],
         UNCHANGED <<devices, fitted>>
  PROVE  FrameInv'
<1>1. FittedInv'
  BY FittedStays
<1>2. FramesStayWithTheirDevice'
  <2> DEFINE new == [what |-> "device", serial |-> serial, id |-> f.id, vehicle |-> NoVehicle]
  <2>1. writes' \subseteq writes \cup {new}
    BY DEF Process
  <2>2. new.what = "device" /\ new.serial = serial /\ new.id = f.id
    OBVIOUS
  <2>3. fitted[serial] # {}
    OBVIOUS
  <2> HIDE DEF new
  <2> QED
    BY <2>1, <2>2, <2>3 DEF FrameInv, FramesStayWithTheirDevice
<1>3. ASSUME NEW d \in Conns, d # c PROVE Pinned(d)'
  <2>1. conn'[d] = conn[d] /\ frame'[d] = frame[d]
    BY <1>3 DEF Process, TypeOK
  <2>2. bound'[d] = bound[d] /\ vehicle'[d] = vehicle[d] /\ Pinned(d)
    BY <1>3 DEF FrameInv
  <2> QED
    BY <2>1, <2>2 DEF Pinned
<1>4. Pinned(c)'
  <2>0. serial # Blank
    BY DataAssumption
  <2>1. CASE f.kind = "position" /\ vehicle'[c] # NoVehicle
    <3>1. frame'[c] = {f}
      BY <2>1 DEF Process, TypeOK
    <3> QED
      BY <2>0, <2>1, <3>1 DEF Pinned
  <2>2. CASE ~(f.kind = "position" /\ vehicle'[c] # NoVehicle)
    BY <2>0, <2>2 DEF Process, Pinned
  <2> QED
    BY <2>1, <2>2
<1> QED
  BY <1>1, <1>2, <1>3, <1>4 DEF FrameInv

LEMMA AuthenticateKeepsFrames ==
  ASSUME TypeOK, FrameInv, NEW c \in Conns, NEW f \in Frame, Authenticate(c, f) PROVE FrameInv'
<1>1. CASE Known(f.id)
  <2>1. f.id \in Serials /\ devices[f.id].vehicle \in fitted[f.id]
    BY <1>1, KnownType DEF Known, FrameInv, FittedInv
  <2>2. /\ Process(c, f.id, devices[f.id].vehicle, f)
        /\ bound' = [bound EXCEPT ![c] = f.id]
        /\ vehicle' = [vehicle EXCEPT ![c] = devices[f.id].vehicle]
        /\ UNCHANGED <<devices, fitted>> /\ conn[c] = "scan"
    BY <1>1 DEF Authenticate, Scan
  <2>3. /\ vehicle'[c] = devices[f.id].vehicle /\ bound'[c] = f.id
        /\ \A d \in Conns \ {c} : bound'[d] = bound[d] /\ vehicle'[d] = vehicle[d]
    BY <2>2 DEF TypeOK
  <2>4. Process(c, f.id, vehicle'[c], f)
    BY <2>2, <2>3
  <2> QED
    BY <2>1, <2>2, <2>3, <2>4, ProcessKeepsFrames
<1>2. CASE ~Known(f.id)
  BY <1>2, CloseKeepsFrames DEF Authenticate
<1> QED
  BY <1>1, <1>2

LEMMA ReceiveKeepsFrames ==
  ASSUME TypeOK, FrameInv, NEW c \in Conns, NEW f \in Frame, Receive(c, f) PROVE FrameInv'
<1>0. UNCHANGED <<devices, bound, vehicle, fitted>> /\ conn[c] = "scan" /\ bound[c] # Blank
  BY DEF Receive, Scan
<1>1. CASE f.id = bound[c]
  <2>1. f.id \in Serials /\ vehicle[c] \in fitted[f.id]
    BY <1>0, <1>1 DEF FrameInv, Pinned, TypeOK
  <2>2. Process(c, f.id, vehicle'[c], f)
    BY <1>0, <1>1 DEF Receive
  <2> QED
    BY <1>0, <1>1, <2>1, <2>2, ProcessKeepsFrames
<1>2. CASE f.id # bound[c]
  <2>1. UNCHANGED <<writes, conn, frame>>
    BY <1>2 DEF Receive
  <2> QED
    BY <1>0, <2>1, FittedStays, NothingWritten
<1> QED
  BY <1>1, <1>2

LEMMA IngestKeepsFrames ==
  ASSUME TypeOK, FrameInv, NEW c \in Conns, Ingest(c) PROVE FrameInv'
<1>0. UNCHANGED <<devices, bound, vehicle, fitted>> /\ conn[c] = "ingest"
  BY DEF Ingest
<1>1. /\ bound[c] # Blank /\ vehicle[c] \in fitted[bound[c]] \ {NoVehicle}
      /\ \A f \in frame[c] : f.id = bound[c]
  BY <1>0 DEF FrameInv, Pinned
<1>2. FramesStayWithTheirDevice'
  <2>1. ASSUME NEW w \in writes' \ writes
        PROVE  w.what = "ping" /\ w.serial = bound[c] /\ w.id = bound[c] /\ w.vehicle = vehicle[c]
    <3>1. PICK f \in frame[c] :
            w = [what |-> "ping", serial |-> bound[c], id |-> f.id, vehicle |-> vehicle[c]]
      BY <2>1 DEF Ingest
    <3> QED
      BY <1>1, <3>1
  <2> QED
    BY <1>0, <1>1, <2>1 DEF FrameInv, FramesStayWithTheirDevice
<1>3. ASSUME NEW d \in Conns PROVE Pinned(d)'
  <2>1. conn'[d] = "ingest" => conn[d] = "ingest" /\ frame'[d] = frame[d]
    BY DEF Ingest, TypeOK
  <2>2. Pinned(d)
    BY DEF FrameInv
  <2> QED
    BY <1>0, <2>1, <2>2 DEF Pinned
<1> QED
  BY <1>0, <1>2, <1>3, FittedStays DEF FrameInv

LEMMA EditKeepsFrames ==
  ASSUME TypeOK, FrameInv, NEW serial \in Serials,
         \/ \E v \in Vehicles \cup {NoVehicle} : CreateDevice(serial, v)
         \/ \E row \in Device : UpdateDevice(serial, row)
  PROVE  FrameInv'
<1>1. FittedGrows /\ FittedInv'
  <2>1. ASSUME NEW v \in Vehicles \cup {NoVehicle}, CreateDevice(serial, v)
        PROVE  FittedGrows /\ FittedInv'
    <3>1. FittedGrows
      BY <2>1 DEF CreateDevice, FittedGrows, TypeOK
    <3>2. ASSUME NEW s \in DOMAIN devices', devices'[s].active
          PROVE  devices'[s].vehicle \in fitted'[s]
      <4>1. CASE s = serial
        BY <2>1, <4>1 DEF CreateDevice, TypeOK
      <4>2. CASE s # serial
        <5>1. s \in DOMAIN devices /\ devices'[s] = devices[s] /\ s \in Serials
          BY <2>1, <4>2 DEF CreateDevice, TypeOK
        <5> QED
          BY <3>1, <3>2, <5>1 DEF FrameInv, FittedInv, FittedGrows
      <4> QED
        BY <4>1, <4>2
    <3> QED
      BY <3>1, <3>2 DEF FittedInv
  <2>2. ASSUME NEW row \in Device, UpdateDevice(serial, row)
        PROVE  FittedGrows /\ FittedInv'
    <3>1. FittedGrows
      BY <2>2 DEF UpdateDevice, FittedGrows, TypeOK
    <3>2. ASSUME NEW s \in DOMAIN devices', devices'[s].active
          PROVE  devices'[s].vehicle \in fitted'[s]
      <4>1. CASE s = serial
        BY <2>2, <3>2, <4>1 DEF UpdateDevice, TypeOK
      <4>2. CASE s # serial
        <5>1. s \in DOMAIN devices /\ devices'[s] = devices[s] /\ s \in Serials
          BY <2>2, <4>2 DEF UpdateDevice, TypeOK
        <5> QED
          BY <3>1, <3>2, <5>1 DEF FrameInv, FittedInv, FittedGrows
      <4> QED
        BY <4>1, <4>2
    <3> QED
      BY <3>1, <3>2 DEF FittedInv
  <2> QED
    BY <2>1, <2>2
<1>2. UNCHANGED <<writes, conn, bound, vehicle, frame>>
  BY DEF CreateDevice, UpdateDevice, binding
<1> QED
  BY <1>1, <1>2, NothingWritten

LEMMA FramesNext == IInv /\ [Next]_vars => FrameInv'
<1> SUFFICES ASSUME IInv, [Next]_vars PROVE FrameInv'
  OBVIOUS
<1>0. TypeOK /\ FrameInv /\ InHand
  BY DEF IInv, FrameInv
<1>1. ASSUME UNCHANGED <<devices, fitted, writes, binding>>,
             \A c \in Conns : conn'[c] = "ingest" => conn[c] = "ingest"
      PROVE  FrameInv'
  BY <1>0, <1>1, FittedStays, NothingWritten DEF binding
<1>2. ASSUME NEW c \in Conns, Connect(c) \/ Accept(c) \/ Release(c) \/ Leave(c) PROVE FrameInv'
  <2>1. \A d \in Conns : conn'[d] = "ingest" => conn[d] = "ingest"
    BY <1>0, <1>2 DEF Connect, Accept, Release, Leave, TypeOK
  <2> QED
    BY <1>1, <1>2, <2>1 DEF Connect, Accept, Release, Leave
<1>3. ASSUME Admit \/ Spawn \/ Reject \/ Signal \/ LoopEnds PROVE FrameInv'
  <2>1. \A d \in Conns : conn'[d] = "ingest" => conn[d] = "ingest"
    BY <1>0, <1>3 DEF Admit, Spawn, Reject, Signal, LoopEnds, InHand, TypeOK
  <2> QED
    BY <1>1, <1>3, <2>1 DEF Admit, Spawn, Reject, Signal, LoopEnds
<1>4. ASSUME NEW c \in Conns, NEW f \in Frame, Skip(c, f) PROVE FrameInv'
  BY <1>1, <1>4 DEF Skip
<1>5. ASSUME NEW c \in Conns, NEW f \in Frame, LookupFails(c, f) PROVE FrameInv'
  BY <1>0, <1>5, CloseKeepsFrames DEF LookupFails
<1>6. ASSUME NEW c \in Conns, IngestFails(c) \/ ScanEnds(c) PROVE FrameInv'
  BY <1>0, <1>6, CloseKeepsFrames DEF IngestFails, ScanEnds
<1>7. ASSUME Drained \/ TimedOut \/ ClosePools PROVE FrameInv'
  BY <1>1, <1>7 DEF Drained, TimedOut, ClosePools
<1>9. CASE Exit
  <2>1. /\ UNCHANGED <<devices, fitted, writes>>
        /\ \A c \in Conns : bound'[c] = Blank /\ conn'[c] # "ingest"
    BY <1>9 DEF Exit
  <2> QED
    BY <1>0, <2>1, FittedStays, NothingWritten
<1>8. CASE UNCHANGED vars
  BY <1>1, <1>8 DEF vars
<1> QED
  BY <1>0, <1>2, <1>3, <1>4, <1>5, <1>6, <1>7, <1>8, <1>9,
     AuthenticateKeepsFrames, ReceiveKeepsFrames, IngestKeepsFrames, EditKeepsFrames DEF Next

-----------------------------------------------------------------------------
(* The theorems *)

LEMMA Initial == Init => IInv
<1> SUFFICES ASSUME Init PROVE IInv
  OBVIOUS
<1>1. PICK S \in SUBSET Serials : devices \in [S -> Device]
  BY DEF Init
<1>2. DOMAIN devices \subseteq Serials /\ \A s \in DOMAIN devices : devices[s] \in Device
  BY <1>1
<1>3. fitted \in [Serials -> SUBSET (Vehicles \cup {NoVehicle})]
  BY <1>2 DEF Init, Known, Device
<1>4. left \in 0 .. MaxFrames /\ edits \in 0 .. MaxEdits /\ faults \in 0 .. MaxFaults
  BY DataAssumption DEF Init
<1>5. TypeOK
  BY <1>2, <1>3, <1>4 DEF Init, TypeOK
<1>6. InHand /\ Counted /\ OneLeft /\ Halted
  BY DEF Init, InHand, Counted, Serving, OneLeft, Halted
<1>7. Slots
  BY FS_EmptySet, DataAssumption DEF Init, Slots, SlotsMatchConnections, Serving
<1>8. FittedInv
  BY <1>2 DEF Init, FittedInv, Known
<1>9. FramesStayWithTheirDevice /\ \A c \in Conns : Pinned(c)
  BY DEF Init, FramesStayWithTheirDevice, Pinned
<1> QED
  BY <1>5, <1>6, <1>7, <1>8, <1>9 DEF IInv

LEMMA Inductive == IInv /\ [Next]_vars => IInv'
BY TypeNext, ServerNext, FramesNext DEF IInv, ServerInv, FrameInv

LEMMA Invariance == Spec => []IInv
BY Initial, Inductive, PTL DEF Spec

\* Every variable keeps its type.
THEOREM TypeCorrect == Spec => []TypeOK
<1>1. IInv => TypeOK
  BY DEF IInv
<1> QED
  BY <1>1, Invariance, PTL

\* No slot leaks and none is given back twice: the slots taken are those of the
\* connections served, at most maxTCPConns of them.
THEOREM SlotsExact == Spec => []SlotsMatchConnections
<1>1. IInv => SlotsMatchConnections
  BY DEF IInv, Slots
<1> QED
  BY <1>1, Invariance, PTL

\* A frame is written to the device it names, which has been registered and
\* active, and a ping to a vehicle that device was fitted to.
THEOREM FramesPinned == Spec => []FramesStayWithTheirDevice
<1>1. IInv => FramesStayWithTheirDevice
  BY DEF IInv
<1> QED
  BY <1>1, Invariance, PTL

\* From the instant at which wg.Wait finds nobody until the process ends, one connection
\* at most is served, which is all that such an end can cut off.
THEOREM CleanEnd == Spec => []CleanEndCutsOneAtMost
<1>1. IInv => CleanEndCutsOneAtMost
  <2> SUFFICES ASSUME IInv, main = "drained" PROVE Cardinality(Serving) <= 1
    BY DEF CleanEndCutsOneAtMost
  <2>1. \A c, d \in Serving : c = d
    BY DEF IInv, OneLeft
  <2>2. CASE Serving = {}
    BY <2>2, FS_EmptySet
  <2>3. ASSUME NEW c \in Serving PROVE Cardinality(Serving) <= 1
    <3>1. Serving = {c}
      BY <2>1
    <3> QED
      BY <3>1, FS_Singleton
  <2> QED
    BY <2>2, <2>3
<1> QED
  BY <1>1, Invariance, PTL

-----------------------------------------------------------------------------
(* serve and main implement BoundedServer *)

\* What the server is to its clients changes only where the accept loop, a deferred
\* call or main does something.
LEMMA ServerStutters ==
  ASSUME Serving' = Serving, Ended' = Ended, main' = main PROVE UNCHANGED Contract!vars
BY DEF Contract!vars, Ended, Phase

LEMMA AcceptStutters ==
  ASSUME TypeOK, NEW c \in Conns, Connect(c) \/ Accept(c) PROVE UNCHANGED Contract!vars
<1>1. Serving' = Serving /\ Ended' = Ended /\ main' = main
  BY DEF Connect, Accept, TypeOK, Serving, Ended, server
<1> QED
  BY <1>1, ServerStutters

LEMMA HandleStutters ==
  ASSUME TypeOK, NEW c \in Conns, HandleStep(c) PROVE UNCHANGED Contract!vars
<1>1. /\ conn[c] \in {"scan", "ingest"} /\ conn'[c] \in {"scan", "ingest", "closing"}
      /\ \A d \in Conns \ {c} : conn'[d] = conn[d]
  BY DEF HandleStep, TypeOK
<1>2. Serving' = Serving /\ Ended' = Ended /\ main' = main
  BY <1>1 DEF HandleStep, server, Serving, Ended
<1> QED
  BY <1>2, ServerStutters

\* The contract counts as the gateway does.
LEMMA SameCardinality == \A S : Contract!Cardinality(S) = Cardinality(S)
BY DEF Contract!Cardinality, Cardinality

\* The goroutine that starts has the slot the loop took for it.
LEMMA SpawnAdmits == ASSUME TypeOK, ServerInv, Spawn PROVE Contract!Next
<1>1. accepted \in Conns /\ conn[accepted] = "queued"
  BY DEF Spawn, ServerInv, InHand
<1>2. Serving' = Serving \cup {accepted} /\ Ended' = Ended
  BY <1>1 DEF Spawn, Serving, Ended, TypeOK
<1>3. accepted \notin Serving \cup Ended
  BY <1>1 DEF Serving, Ended
<1>4. slots = Serving \cup {accepted} /\ Cardinality(slots) <= MaxConns
  BY DEF Spawn, ServerInv, Slots, SlotsMatchConnections
<1>5. Phase # "stopped" /\ Phase' = Phase
  BY DEF Spawn, ServerInv, Halted, Phase, TypeOK
<1>6. Contract!Admit(accepted)
  BY <1>2, <1>3, <1>4, <1>5, SameCardinality DEF Contract!Admit
<1> QED
  BY <1>1, <1>6 DEF Contract!Next

\* The semaphore is full just when the server is.
LEMMA RejectTurnsAway == ASSUME TypeOK, ServerInv, Reject PROVE Contract!Next
<1>1. PICK c \in Conns : accepted = c /\ conn[c] = "queued"
  BY DEF Reject, ServerInv, InHand
<1>2. Serving' = Serving /\ Ended' = Ended \cup {c}
  BY <1>1 DEF Reject, Serving, Ended, TypeOK
<1>3. c \notin Serving \cup Ended
  BY <1>1 DEF Serving, Ended
<1>4. Cardinality(Serving) = MaxConns
  <2>1. slots = Serving /\ IsFiniteSet(slots) /\ Cardinality(slots) <= MaxConns
    BY DEF Reject, ServerInv, Slots, SlotsMatchConnections
  <2>2. Cardinality(slots) >= MaxConns /\ Cardinality(slots) \in Nat
    BY <2>1, FS_CardinalityType DEF Reject
  <2> QED
    BY <2>1, <2>2, DataAssumption
<1>5. Phase # "stopped" /\ Phase' = Phase
  BY DEF Reject, ServerInv, Halted, Phase, TypeOK
<1>6. Contract!TurnAway(c)
  BY <1>2, <1>3, <1>4, <1>5, SameCardinality DEF Contract!TurnAway
<1> QED
  BY <1>6 DEF Contract!Next

LEMMA ReleaseLeaves == ASSUME TypeOK, NEW c \in Conns, Release(c) PROVE Contract!Next
<1>1. c \in Serving /\ Serving' = Serving \ {c} /\ Ended' = Ended \cup {c}
  BY DEF Release, Serving, Ended, TypeOK
<1>2. Contract!Leave(c)
  BY <1>1 DEF Contract!Leave, Release, Phase, Ended
<1> QED
  BY <1>2 DEF Contract!Next

LEMMA LeaveStutters == ASSUME TypeOK, NEW c \in Conns, Leave(c) PROVE UNCHANGED Contract!vars
<1>1. Serving' = Serving /\ Ended' = Ended /\ main' = main
  BY DEF Leave, Serving, Ended, TypeOK
<1> QED
  BY <1>1, ServerStutters

\* Who waits at the signal is turned away, but for the connection the loop has in hand.
LEMMA SignalShutsDown == ASSUME TypeOK, Signal PROVE Contract!Next
<1>1. Serving' = Serving /\ Ended \subseteq Ended' /\ Ended' \subseteq Conns \ Serving
  BY DEF Signal, Serving, Ended, TypeOK
<1>2. Conns \ (Serving \cup Ended') \subseteq {accepted}
  BY DEF Signal, Serving, Ended, TypeOK
<1>3. Phase = "open" /\ Phase' = "closing"
  BY DEF Signal, Phase
<1>4. Contract!Shutdown
  BY <1>1, <1>2, <1>3 DEF Contract!Shutdown
<1> QED
  BY <1>4 DEF Contract!Next

\* wg counts whoever is served, so it cannot reach zero before they have left.
LEMMA MainEnds ==
  ASSUME TypeOK, ServerInv, Drained \/ TimedOut \/ Exit PROVE Contract!Next
<1>1. ASSUME Drained PROVE Contract!Done
  <2>1. Serving = {} /\ Serving' = Serving /\ Ended' = Ended
    BY <1>1 DEF Drained, ServerInv, Counted, Serving, Ended
  <2> QED
    BY <1>1, <2>1 DEF Contract!Done, Drained, Phase
<1>2. ASSUME TimedOut PROVE Contract!Overdue
  <2>1. Serving' = Serving /\ Ended' = Ended
    BY <1>2 DEF TimedOut, Serving, Ended
  <2> QED
    BY <1>2, <2>1 DEF Contract!Overdue, TimedOut, Phase
<1>3. ASSUME Exit PROVE Contract!Stop
  <2>1. Serving' = {} /\ Ended' = Conns
    BY <1>3 DEF Exit, Serving, Ended
  <2>2. Phase \in {"idle", "overdue"} /\ Phase' = "stopped"
    BY <1>3 DEF Exit, Returning, Phase
  <2> QED
    BY <2>1, <2>2 DEF Contract!Stop
<1> QED
  BY <1>1, <1>2, <1>3 DEF Contract!Next

LEMMA StepRefines == IInv /\ [Next]_vars => [Contract!Next]_(Contract!vars)
<1> SUFFICES ASSUME IInv, [Next]_vars PROVE [Contract!Next]_(Contract!vars)
  OBVIOUS
<1>0. TypeOK /\ ServerInv
  BY DEF IInv, ServerInv
<1>1. ASSUME NEW c \in Conns, Connect(c) \/ Accept(c) \/ Leave(c) PROVE UNCHANGED Contract!vars
  BY <1>0, <1>1, AcceptStutters, LeaveStutters
<1>2. ASSUME NEW c \in Conns, NEW f \in Frame,
             \/ Skip(c, f) \/ Authenticate(c, f) \/ LookupFails(c, f) \/ Receive(c, f)
      PROVE  UNCHANGED Contract!vars
  BY <1>0, <1>2, StepsOfHandle, HandleStutters
<1>3. ASSUME NEW c \in Conns, Ingest(c) \/ IngestFails(c) \/ ScanEnds(c)
      PROVE  UNCHANGED Contract!vars
  <2>1. HandleStep(c)
    BY <1>3 DEF HandleStep, Ingest, IngestFails, ScanEnds, Close
  <2> QED
    BY <1>0, <2>1, HandleStutters
<1>4. CASE Admit \/ LoopEnds \/ ClosePools
  <2>1. Serving' = Serving /\ Ended' = Ended /\ main' = main
    BY <1>4 DEF Admit, LoopEnds, ClosePools, Serving, Ended
  <2> QED
    BY <2>1, ServerStutters
<1>5. CASE Spawn
  BY <1>0, <1>5, SpawnAdmits
<1>6. CASE Reject
  BY <1>0, <1>6, RejectTurnsAway
<1>7. ASSUME UNCHANGED <<main, conn>> PROVE UNCHANGED Contract!vars
  BY <1>7, ServerStutters DEF Serving, Ended
<1>8. ASSUME NEW serial \in Serials,
             \/ \E v \in Vehicles \cup {NoVehicle} : CreateDevice(serial, v)
             \/ \E row \in Device : UpdateDevice(serial, row)
      PROVE  UNCHANGED Contract!vars
  BY <1>7, <1>8 DEF CreateDevice, UpdateDevice, server
<1>9. CASE UNCHANGED vars
  BY <1>7, <1>9 DEF vars, server
<1> QED
  BY <1>0, <1>1, <1>2, <1>3, <1>4, <1>5, <1>6, <1>8, <1>9,
     ReleaseLeaves, SignalShutsDown, MainEnds DEF Next

\* For any connections and any limit the accept loop, its semaphore, the wait group and
\* the shutdown implement a server that serves each client once, with at most the limit
\* at a time, refuses only when it is full or told to stop, lets in one client at most
\* of those that wait then, and stops when it has been idle or has waited long enough.
THEOREM Refinement == Spec => ServerContract
<1>1. Init => Contract!Init
  BY DEF Init, Contract!Init, Serving, Ended, Phase
<1> QED
  BY <1>1, StepRefines, Invariance, PTL DEF Spec, ServerContract, Contract!Spec
=============================================================================
