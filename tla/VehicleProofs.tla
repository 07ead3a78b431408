--------------------------- MODULE VehicleProofs ----------------------------
(***************************************************************************)
(* Proofs about what the database keeps of a vehicle: its hot state and    *)
(* status (HotState), for any number of vehicles and handlers, and the     *)
(* report of a day (DailyReport), for any pings and however many.          *)
(***************************************************************************)
EXTENDS HotState, DailyReport, FiniteSetTheorems, FunctionTheorems, WellFoundedInduction, TLAPS

-----------------------------------------------------------------------------
(* The inductive invariant *)

\* A handler has a ping while, and only while, it is in a transaction.
Busy == \A h \in Handlers : pc[h] # "idle" <=> ping[h] \in Ping

\* A handler that has updated a row holds its lock, and what it is about to
\* commit still follows from the status that the row has.
Owner(h) ==
  pc[h] \in {"enqueue", "commit"} =>
    /\ lock[ping[h].vehicle] = h
    /\ new[h] = SyncedStatus(status[ping[h].vehicle], ping[h].speed)

\* Unless it was noted as raced, the status that a transaction saw is current.
SawCurrent(h) ==
  pc[h] # "idle" /\ ping[h].vehicle \notin raced => prev[h] = status[ping[h].vehicle]

\* The stale job has changes to publish only after it has marked, and their
\* vehicles are offline unless someone has raced it.
JobInv ==
  /\ job # "publish" => changes = {}
  /\ \A ch \in changes : ch.vehicle \notin raced => status[ch.vehicle] = "offline"

IInv ==
  /\ TypeOK
  /\ LockHasOwner
  /\ Busy
  /\ \A h \in Handlers : Owner(h) /\ SawCurrent(h)
  /\ JobInv
  /\ RegistryAnnounced

-----------------------------------------------------------------------------
(* Types *)

LEMMA SyncedType ==
  ASSUME NEW s \in Statuses, NEW x \in Speeds PROVE SyncedStatus(s, x) \in Statuses
BY DEF SyncedStatus, Statuses

\* No transaction is about nothing.
LEMMA NoPingIsNone == NoPing \notin Ping
BY IdAssumption DEF NoPing, Ping

LEMMA PingType == ASSUME NEW p \in Ping PROVE p.vehicle \in Vehicles /\ p.ts \in Times /\ p.speed \in Speeds
BY DEF Ping

LEMMA FaultType == TypeOK /\ Fault => faults' \in 0 .. MaxFaults
BY DataAssumption DEF TypeOK, Fault

LEMMA ReturnType ==
  ASSUME TypeOK, NEW h \in Handlers, Return(h)
  PROVE  /\ pc' \in [Handlers -> Stages] /\ ping' \in [Handlers -> Ping \cup {NoPing}]
         /\ prev' \in [Handlers -> Statuses] /\ new' \in [Handlers -> Statuses]
BY DEF TypeOK, Return, Stages, Statuses

LEMMA WriteType ==
  ASSUME TypeOK, NEW v \in Vehicles, NEW s \in Statuses, NEW others, Write(v, s, others)
  PROVE  status' \in [Vehicles -> Statuses] /\ raced' \subseteq Vehicles
BY DEF TypeOK, Write

LEMMA Init1 == Init => IInv
<1> SUFFICES ASSUME Init PROVE IInv
  OBVIOUS
<1>1. TypeOK
  BY DataAssumption DEF Init, TypeOK, Stages, Statuses
<1>2. LockHasOwner /\ JobInv /\ RegistryAnnounced
  BY DEF Init, LockHasOwner, JobInv, RegistryAnnounced
<1>3. Busy /\ \A h \in Handlers : Owner(h) /\ SawCurrent(h)
  BY NoPingIsNone DEF Init, Busy, Owner, SawCurrent
<1> QED
  BY <1>1, <1>2, <1>3 DEF IInv

LEMMA TypeNext == IInv /\ [Next]_vars => TypeOK'
<1> SUFFICES ASSUME IInv, [Next]_vars PROVE TypeOK'
  OBVIOUS
<1>0. TypeOK /\ Busy
  BY DEF IInv
<1>1. ASSUME NEW h \in Handlers, NEW p \in Ping, Snapshot(h, p) PROVE TypeOK'
  BY <1>0, <1>1, PingType DEF Snapshot, TypeOK, rows, stale, Stages
<1>2. ASSUME NEW h \in Handlers, Update(h) PROVE TypeOK'
  <2>1. ping[h] \in Ping
    BY <1>0, <1>2 DEF Update, Busy
  <2>2. SyncedStatus(status[ping[h].vehicle], ping[h].speed) \in Statuses
    BY <1>0, <2>1, PingType, SyncedType DEF TypeOK
  <2> QED
    BY <1>0, <1>2, <2>1, <2>2, PingType DEF Update, TypeOK, rows, stale, Stages
<1>3. ASSUME NEW h \in Handlers, Enqueue(h) PROVE TypeOK'
  BY <1>0, <1>3 DEF Enqueue, TypeOK, rows, stale, Stages
<1>4. ASSUME NEW h \in Handlers, Commit(h) PROVE TypeOK'
  <2>1. ping[h] \in Ping
    BY <1>0, <1>4 DEF Commit, Busy
  <2>2. new[h] \in Statuses
    BY <1>0 DEF TypeOK
  <2>3. status' \in [Vehicles -> Statuses] /\ raced' \subseteq Vehicles
    BY <1>0, <1>4, <2>1, <2>2, PingType, WriteType DEF Commit
  <2>4. /\ lock' \in [Vehicles -> Handlers \cup {NoHandler}]
        /\ lastSeen' \in [Vehicles -> Times \cup {NeverSeen}]
        /\ told' \in [Vehicles -> Statuses]
    BY <1>0, <1>4, <2>1, <2>2, PingType DEF Commit, TypeOK
  <2>5. /\ pc' \in [Handlers -> Stages] /\ ping' \in [Handlers -> Ping \cup {NoPing}]
        /\ prev' \in [Handlers -> Statuses] /\ new' \in [Handlers -> Statuses]
    BY <1>0, <1>4, ReturnType DEF Commit
  <2> QED
    BY <1>0, <1>4, <2>3, <2>4, <2>5 DEF Commit, TypeOK, stale
<1>5. ASSUME NEW h \in Handlers, Rollback(h) PROVE TypeOK'
  BY <1>0, <1>5, ReturnType, FaultType DEF Rollback, TypeOK, rows, stale
<1>6. ASSUME NEW cutoff \in Times, FindStale(cutoff) PROVE TypeOK'
  BY <1>0, <1>6 DEF FindStale, TypeOK, rows, handler, Change
<1>7. ASSUME MarkStaleVehiclesOffline PROVE TypeOK'
  <2>1. status' \in [Vehicles -> Statuses]
    BY <1>0, <1>7 DEF MarkStaleVehiclesOffline, TypeOK, Statuses
  <2>2. {t.vehicle : t \in targets} \subseteq Vehicles
    BY <1>0 DEF TypeOK, Change
  <2>3. raced' \subseteq Vehicles
    BY <1>0, <1>7, <2>2 DEF MarkStaleVehiclesOffline, TypeOK
  <2> QED
    BY <1>0, <1>7, <2>1, <2>3 DEF MarkStaleVehiclesOffline, TypeOK, handler
<1>8. ASSUME PublishStatusChange PROVE TypeOK'
  BY <1>0, <1>8 DEF PublishStatusChange, TypeOK, rows, handler, Statuses, Change
<1>9. ASSUME JobFails PROVE TypeOK'
  BY <1>0, <1>9, FaultType DEF JobFails, TypeOK, rows, handler, Change
<1>10. ASSUME NEW v \in Vehicles, NEW s \in {"idle", "maintenance"}, SetStatus(v, s)
       PROVE  TypeOK'
  <2>1. s \in Statuses
    BY DEF Statuses
  <2>2. status' \in [Vehicles -> Statuses] /\ raced' \subseteq Vehicles
    BY <1>0, <1>10, <2>1, WriteType DEF SetStatus
  <2> QED
    BY <1>0, <1>10, <2>1, <2>2 DEF SetStatus, TypeOK, handler, stale
<1>11. ASSUME UNCHANGED vars PROVE TypeOK'
  BY <1>0, <1>11 DEF vars, TypeOK, rows, handler, stale
<1> QED
  BY <1>1, <1>2, <1>3, <1>4, <1>5, <1>6, <1>7, <1>8, <1>9, <1>10, <1>11 DEF Next, Ingest

-----------------------------------------------------------------------------
(* The invariant is preserved *)

\* What a returning handler leaves behind.
LEMMA ReturnFacts ==
  ASSUME TypeOK, NEW h \in Handlers, Return(h)
  PROVE  /\ pc'[h] = "idle" /\ ping'[h] = NoPing
         /\ \A g \in Handlers \ {h} : /\ pc'[g] = pc[g] /\ ping'[g] = ping[g]
                                     /\ prev'[g] = prev[g] /\ new'[g] = new[g]
BY DEF Return, TypeOK

LEMMA BusyNext == IInv /\ [Next]_vars => Busy'
<1> SUFFICES ASSUME IInv, [Next]_vars PROVE Busy'
  OBVIOUS
<1>0. TypeOK /\ Busy
  BY DEF IInv
<1>1. ASSUME NEW h \in Handlers, NEW p \in Ping, Snapshot(h, p) PROVE Busy'
  BY <1>0, <1>1 DEF Snapshot, TypeOK, Busy
<1>2. ASSUME NEW h \in Handlers, Update(h) \/ Enqueue(h) PROVE Busy'
  BY <1>0, <1>2 DEF Update, Enqueue, TypeOK, Busy
<1>3. ASSUME NEW h \in Handlers, Commit(h) \/ Rollback(h) PROVE Busy'
  BY <1>0, <1>3, ReturnFacts, NoPingIsNone DEF Commit, Rollback, Busy
<1>4. CASE UNCHANGED handler
  BY <1>0, <1>4 DEF handler, Busy
<1> QED
  BY <1>1, <1>2, <1>3, <1>4
  DEF Next, Ingest, vars, FindStale, MarkStaleVehiclesOffline, PublishStatusChange, JobFails, SetStatus

LEMMA LockNext == IInv /\ [Next]_vars => LockHasOwner'
<1> SUFFICES ASSUME IInv, [Next]_vars PROVE LockHasOwner'
  OBVIOUS
<1>0. TypeOK /\ Busy /\ LockHasOwner /\ \A h \in Handlers : Owner(h)
  BY DEF IInv
<1>1. ASSUME NEW h \in Handlers, NEW p \in Ping, Snapshot(h, p) PROVE LockHasOwner'
  BY <1>0, <1>1 DEF Snapshot, TypeOK, LockHasOwner
<1>2. ASSUME NEW h \in Handlers, Update(h) \/ Enqueue(h) PROVE LockHasOwner'
  BY <1>0, <1>2 DEF Update, Enqueue, TypeOK, LockHasOwner
<1>3. ASSUME NEW h \in Handlers, Commit(h) PROVE LockHasOwner'
  BY <1>0, <1>3, ReturnFacts DEF Commit, TypeOK, LockHasOwner
<1>4. ASSUME NEW h \in Handlers, Rollback(h) PROVE LockHasOwner'
  BY <1>0, <1>4, ReturnFacts DEF Rollback, TypeOK, LockHasOwner
<1>5. CASE UNCHANGED <<lock, handler>>
  BY <1>0, <1>5 DEF handler, LockHasOwner
<1> QED
  BY <1>1, <1>2, <1>3, <1>4, <1>5
  DEF Next, Ingest, vars, FindStale, MarkStaleVehiclesOffline, PublishStatusChange, JobFails, SetStatus

\* Handler g is not disturbed by a step that leaves it, its lock and, while it
\* holds the lock, its row alone, and that notes a change of the row it read.
LEMMA HandlerFrame ==
  ASSUME NEW g \in Handlers, Owner(g), SawCurrent(g),
         pc'[g] = pc[g], ping'[g] = ping[g], prev'[g] = prev[g], new'[g] = new[g],
         raced \subseteq raced',
         pc[g] \in {"enqueue", "commit"} =>
           /\ lock'[ping[g].vehicle] = lock[ping[g].vehicle]
           /\ status'[ping[g].vehicle] = status[ping[g].vehicle],
         pc[g] # "idle" =>
           \/ status'[ping[g].vehicle] = status[ping[g].vehicle]
           \/ ping[g].vehicle \in raced'
  PROVE  Owner(g)' /\ SawCurrent(g)'
BY DEF Owner, SawCurrent

LEMMA HandlerNext ==
  ASSUME IInv, [Next]_vars, NEW g \in Handlers
  PROVE  Owner(g)' /\ SawCurrent(g)'
<1>0. TypeOK /\ Busy /\ LockHasOwner /\ Owner(g) /\ SawCurrent(g)
  BY DEF IInv
<1>a. pc[g] # "idle" => ping[g].vehicle \in Vehicles
  BY <1>0, PingType DEF Busy
<1>1. ASSUME NEW h \in Handlers, NEW p \in Ping, Snapshot(h, p)
      PROVE  Owner(g)' /\ SawCurrent(g)'
  <2>1. CASE g = h
    BY <1>0, <1>1, <2>1 DEF Snapshot, TypeOK, rows, Owner, SawCurrent
  <2>2. CASE g # h
    BY <1>0, <1>1, <2>2, HandlerFrame DEF Snapshot, TypeOK, rows
  <2> QED
    BY <2>1, <2>2
<1>2. ASSUME NEW h \in Handlers, Update(h) PROVE Owner(g)' /\ SawCurrent(g)'
  <2>1. CASE g = h
    BY <1>0, <1>a, <1>2, <2>1 DEF Update, TypeOK, rows, Owner, SawCurrent
  <2>2. CASE g # h
    <3>1. pc[g] \in {"enqueue", "commit"} => ping[g].vehicle # ping[h].vehicle
      BY <1>0, <1>2, IdAssumption DEF Update, Owner
    <3> QED
      BY <1>0, <1>a, <1>2, <2>2, <3>1, HandlerFrame DEF Update, TypeOK, rows
  <2> QED
    BY <2>1, <2>2
<1>3. ASSUME NEW h \in Handlers, Enqueue(h) PROVE Owner(g)' /\ SawCurrent(g)'
  <2>1. CASE g = h
    BY <1>0, <1>3, <2>1 DEF Enqueue, TypeOK, rows, Owner, SawCurrent
  <2>2. CASE g # h
    BY <1>0, <1>3, <2>2, HandlerFrame DEF Enqueue, TypeOK, rows
  <2> QED
    BY <2>1, <2>2
<1>4. ASSUME NEW h \in Handlers, Commit(h) PROVE Owner(g)' /\ SawCurrent(g)'
  <2>1. CASE g = h
    BY <1>0, <1>4, <2>1, ReturnFacts DEF Commit, Owner, SawCurrent
  <2>2. CASE g # h
    <3>1. pc[g] \in {"enqueue", "commit"} => ping[g].vehicle # ping[h].vehicle
      BY <1>0, <1>4, <2>2 DEF Commit, Owner, IInv
    <3>2. raced \subseteq raced'
      BY <1>4 DEF Commit, Write
    <3>3. pc[g] # "idle" => \/ status'[ping[g].vehicle] = status[ping[g].vehicle]
                            \/ ping[g].vehicle \in raced'
      BY <1>0, <1>a, <1>4, <2>2 DEF Commit, Write, Open, TypeOK
    <3> QED
      BY <1>0, <1>a, <1>4, <2>2, <3>1, <3>2, <3>3, HandlerFrame, ReturnFacts
      DEF Commit, Write, TypeOK
  <2> QED
    BY <2>1, <2>2
<1>5. ASSUME NEW h \in Handlers, Rollback(h) PROVE Owner(g)' /\ SawCurrent(g)'
  <2>1. CASE g = h
    BY <1>0, <1>5, <2>1, ReturnFacts DEF Rollback, Owner, SawCurrent
  <2>2. CASE g # h
    BY <1>0, <1>a, <1>5, <2>2, HandlerFrame, ReturnFacts DEF Rollback, TypeOK, rows, Owner
  <2> QED
    BY <2>1, <2>2
<1>6. ASSUME MarkStaleVehiclesOffline PROVE Owner(g)' /\ SawCurrent(g)'
  <2>1. pc[g] \in {"enqueue", "commit"} =>
          ping[g].vehicle \notin {t.vehicle : t \in targets}
    BY <1>0, <1>6, IdAssumption DEF MarkStaleVehiclesOffline, Owner
  <2>2. pc[g] # "idle" => \/ status'[ping[g].vehicle] = status[ping[g].vehicle]
                          \/ ping[g].vehicle \in raced'
    BY <1>0, <1>a, <1>6 DEF MarkStaleVehiclesOffline, Open, TypeOK
  <2> QED
    BY <1>0, <1>a, <1>6, <2>1, <2>2, HandlerFrame DEF MarkStaleVehiclesOffline, handler, TypeOK
<1>7. ASSUME NEW v \in Vehicles, NEW s \in {"idle", "maintenance"}, SetStatus(v, s)
      PROVE  Owner(g)' /\ SawCurrent(g)'
  <2>1. pc[g] \in {"enqueue", "commit"} => ping[g].vehicle # v
    BY <1>0, <1>7, IdAssumption DEF SetStatus, Owner
  <2>2. pc[g] # "idle" => \/ status'[ping[g].vehicle] = status[ping[g].vehicle]
                          \/ ping[g].vehicle \in raced'
    BY <1>0, <1>a, <1>7 DEF SetStatus, Write, Open, TypeOK
  <2> QED
    BY <1>0, <1>a, <1>7, <2>1, <2>2, HandlerFrame DEF SetStatus, Write, handler, TypeOK
<1>8. CASE UNCHANGED <<status, lock, handler, raced>>
  BY <1>0, <1>8, HandlerFrame DEF handler
<1> QED
  BY <1>1, <1>2, <1>3, <1>4, <1>5, <1>6, <1>7, <1>8
  DEF Next, Ingest, vars, rows, FindStale, PublishStatusChange, JobFails

LEMMA JobNext == IInv /\ [Next]_vars => JobInv'
<1> SUFFICES ASSUME IInv, [Next]_vars PROVE JobInv'
  OBVIOUS
<1>0. TypeOK /\ Busy /\ JobInv
  BY DEF IInv
<1>1. ASSUME NEW h \in Handlers, Commit(h) PROVE JobInv'
  <2>1. ping[h].vehicle \in Vehicles
    BY <1>0, <1>1, PingType DEF Commit, Busy
  <2>2. ASSUME NEW ch \in changes, ch.vehicle \notin raced'
        PROVE  status'[ch.vehicle] = status[ch.vehicle] /\ ch.vehicle \notin raced
    <3>1. ch.vehicle \in Vehicles /\ ch.vehicle \in JobsVehicles
      BY <1>0 DEF TypeOK, Change, JobsVehicles
    <3> QED
      BY <1>0, <1>1, <2>1, <2>2, <3>1 DEF Commit, Write, TypeOK
  <2> QED
    BY <1>0, <1>1, <2>2 DEF Commit, stale, JobInv
<1>2. ASSUME NEW v \in Vehicles, NEW s \in {"idle", "maintenance"}, SetStatus(v, s)
      PROVE  JobInv'
  <2>1. ASSUME NEW ch \in changes, ch.vehicle \notin raced'
        PROVE  status'[ch.vehicle] = status[ch.vehicle] /\ ch.vehicle \notin raced
    <3>1. ch.vehicle \in Vehicles /\ ch.vehicle \in JobsVehicles
      BY <1>0 DEF TypeOK, Change, JobsVehicles
    <3> QED
      BY <1>0, <1>2, <2>1, <3>1 DEF SetStatus, Write, TypeOK
  <2> QED
    BY <1>0, <1>2, <2>1 DEF SetStatus, stale, JobInv
<1>3. ASSUME MarkStaleVehiclesOffline PROVE JobInv'
  BY <1>0, <1>3 DEF MarkStaleVehiclesOffline, JobInv, TypeOK, Change
<1>4. ASSUME PublishStatusChange PROVE JobInv'
  BY <1>0, <1>4 DEF PublishStatusChange, JobInv, rows
<1>5. ASSUME NEW cutoff \in Times, FindStale(cutoff) PROVE JobInv'
  BY <1>0, <1>5 DEF FindStale, JobInv, rows
<1>6. ASSUME JobFails PROVE JobInv'
  BY <1>0, <1>6 DEF JobFails, JobInv
<1>7. CASE UNCHANGED <<status, stale, raced>>
  BY <1>0, <1>7 DEF stale, JobInv
<1> QED
  BY <1>1, <1>2, <1>3, <1>4, <1>5, <1>6, <1>7
  DEF Next, Ingest, vars, rows, Snapshot, Update, Enqueue, Rollback

LEMMA AnnouncedNext == IInv /\ [Next]_vars => RegistryAnnounced'
<1> SUFFICES ASSUME IInv, [Next]_vars, EventBus,
                    NEW v \in Vehicles, v \notin raced', v \notin lost',
                    v \notin {ch.vehicle : ch \in changes'}
             PROVE  told'[v] = status'[v]
  BY DEF RegistryAnnounced
<1>0. TypeOK /\ Busy /\ JobInv
  BY DEF IInv
<1>a. v \notin raced /\ v \notin lost /\ v \notin {ch.vehicle : ch \in changes}
        => told[v] = status[v]
  BY DEF IInv, RegistryAnnounced
<1>1. ASSUME NEW h \in Handlers, Commit(h) PROVE told'[v] = status'[v]
  <2>1. v \notin raced /\ v \notin lost /\ v \notin {ch.vehicle : ch \in changes}
    BY <1>1 DEF Commit, Write, stale
  <2>2. CASE v = ping[h].vehicle
    <3>1. prev[h] = status[v]
      BY <1>1, <2>1, <2>2 DEF Commit, IInv, SawCurrent
    <3> QED
      BY <1>0, <1>a, <1>1, <2>1, <2>2, <3>1 DEF Commit, Write, Changed, TypeOK
  <2>3. CASE v # ping[h].vehicle
    BY <1>0, <1>a, <1>1, <2>1, <2>3 DEF Commit, Write, TypeOK
  <2> QED
    BY <2>2, <2>3
<1>2. ASSUME NEW w \in Vehicles, NEW s \in {"idle", "maintenance"}, SetStatus(w, s)
      PROVE  told'[v] = status'[v]
  <2>1. v \notin raced /\ v \notin lost /\ v \notin {ch.vehicle : ch \in changes}
    BY <1>2 DEF SetStatus, Write, stale
  <2> QED
    BY <1>0, <1>a, <1>2, <2>1 DEF SetStatus, Write, TypeOK
<1>3. ASSUME MarkStaleVehiclesOffline PROVE told'[v] = status'[v]
  BY <1>0, <1>a, <1>3 DEF MarkStaleVehiclesOffline, TypeOK, JobInv
<1>4. ASSUME PublishStatusChange PROVE told'[v] = status'[v]
  <2>1. PICK ch \in changes :
          /\ told' = [told EXCEPT ![ch.vehicle] = "offline"]
          /\ changes' = changes \ {ch}
    BY <1>4 DEF PublishStatusChange
  <2>2. v \notin raced /\ v \notin lost /\ status' = status
    BY <1>4 DEF PublishStatusChange, rows
  <2>3. CASE v = ch.vehicle
    BY <1>0, <2>1, <2>2, <2>3 DEF JobInv, TypeOK
  <2>4. CASE v # ch.vehicle
    <3>1. v \notin {c.vehicle : c \in changes}
      BY <2>1, <2>4
    <3> QED
      BY <1>0, <1>a, <2>1, <2>2, <2>4, <3>1 DEF TypeOK
  <2> QED
    BY <2>3, <2>4
<1>5. ASSUME JobFails PROVE told'[v] = status'[v]
  BY <1>a, <1>5 DEF JobFails, rows
<1>6. CASE UNCHANGED <<status, told, raced, lost, changes>>
  BY <1>a, <1>6
<1> QED
  BY <1>1, <1>2, <1>3, <1>4, <1>5, <1>6
  DEF Next, Ingest, vars, rows, stale, FindStale, Snapshot, Update, Enqueue, Rollback

-----------------------------------------------------------------------------
(* The theorems *)

LEMMA Invariance == Spec => []IInv
<1>1. IInv /\ [Next]_vars => IInv'
  BY TypeNext, BusyNext, LockNext, HandlerNext, JobNext, AnnouncedNext DEF IInv
<1> QED
  BY <1>1, Init1, PTL DEF Spec

\* Every variable keeps its type.
THEOREM TypeCorrect == Spec => []TypeOK
<1>1. IInv => TypeOK
  BY DEF IInv
<1> QED
  BY <1>1, Invariance, PTL

\* A locked row belongs to an open transaction that will not wait again.
THEOREM NoOrphanLock == Spec => []LockHasOwner
<1>1. IInv => LockHasOwner
  BY DEF IInv
<1> QED
  BY <1>1, Invariance, PTL

\* A status that no two writers have raced, and no failure of the stale job has
\* lost, is what its newest event says.
THEOREM RegistryIsAnnounced == Spec => []RegistryAnnounced
<1>1. IInv => RegistryAnnounced
  BY DEF IInv
<1> QED
  BY <1>1, Invariance, PTL

\* Pings never end a maintenance.
THEOREM PingsKeepMaintenance == Spec => MaintenanceKept
<1> DEFINE A == (\E h \in Handlers : Commit(h)) =>
                  \A v \in Vehicles : status[v] = "maintenance" => status'[v] = "maintenance"
<1>1. IInv /\ [Next]_vars => [A]_vars
  <2> SUFFICES ASSUME IInv, NEW h \in Handlers, Commit(h),
                      NEW v \in Vehicles, status[v] = "maintenance"
               PROVE  status'[v] = "maintenance"
    OBVIOUS
  <2>1. CASE v = ping[h].vehicle
    <3>1. new[h] = "maintenance"
      BY <2>1 DEF Commit, IInv, Owner, SyncedStatus
    <3> QED
      BY <2>1, <3>1 DEF Commit, Write, IInv, TypeOK
  <2>2. CASE v # ping[h].vehicle
    BY <2>2 DEF Commit, Write, IInv, TypeOK
  <2> QED
    BY <2>1, <2>2
<1> QED
  BY <1>1, Invariance, PTL DEF Spec, MaintenanceKept

-----------------------------------------------------------------------------
(***************************************************************************)
(* The report of a day                                                     *)
(*                                                                         *)
(* AggregateDay and DetectTrips are recursions over the pings in order of  *)
(* time, and TripsOf and RowShows speak of a set of pings.  A recursion is *)
(* replaced by the sequence of values it goes through (RecursionUpTo), and *)
(* what holds of each is shown from one to the next (UpTo).  Both rest on  *)
(* LeastNat.                                                               *)
(***************************************************************************)

(* Induction over the pings of a day *)

\* A set of numbers has a least element; the induction that follows from it is
\* stated for sets, since an operator cannot be passed to a lemma.
LEMMA LeastNat == ASSUME NEW T, T \subseteq Nat, T # {} PROVE \E n \in T : \A m \in T : n <= m
<1> DEFINE Less == {p \in Nat \X Nat : p[1] < p[2]}
<1>1. IsWellFoundedOn(Less, Nat)
  BY NatLessThanWellFounded DEF OpToRel
<1>2. PICK n \in T : \A m \in T : ~ (<<m, n>> \in Less)
  <2> HIDE DEF Less
  <2> QED BY <1>1, WFMin
<1>3. ASSUME NEW m \in T PROVE n <= m
  <2>1. ~ (<<m, n>> \in Less)
    BY <1>2
  <2>2. m \in Nat /\ n \in Nat
    OBVIOUS
  <2>3. ~ (m < n)
    BY <2>1, <2>2
  <2> QED BY <2>2, <2>3
<1> QED
  BY <1>3

\* What holds at 0 and goes from each number to the next holds up to n.
LEMMA UpTo ==
  ASSUME NEW S, 0 \in S, NEW n \in Nat, \A i \in 1 .. n : i - 1 \in S => i \in S
  PROVE  \A i \in 0 .. n : i \in S
<1> DEFINE T == {i \in 0 .. n : i \notin S}
<1> SUFFICES ASSUME T # {} PROVE FALSE
  OBVIOUS
<1>0. T \subseteq Nat
  OBVIOUS
<1>1. PICK k \in T : \A m \in T : k <= m
  <2> HIDE DEF T
  <2> QED BY <1>0, LeastNat
<1>2. k \in 1 .. n /\ k - 1 \in 0 .. n /\ k - 1 \notin T
  BY <1>1
<1>3. k - 1 \in S
  BY <1>2
<1>4. k \in S /\ k \notin S
  BY <1>2, <1>3
<1> QED
  BY <1>4

\* A recursion over 0 .. n has a solution.
Solution(g, S, c, n, Step) ==
  g \in [0 .. n -> S] /\ g[0] = c /\ \A i \in 1 .. n : g[i] = Step[<<g[i - 1], i>>]

\* A recursive function over 0 .. n exists and has the type of its steps.
LEMMA RecursionUpTo ==
  ASSUME NEW S, NEW c \in S, NEW n \in Nat, NEW Step \in [S \X (1 .. n) -> S]
  PROVE  \E g : Solution(g, S, c, n, Step)
<1> DEFINE Solves(g, k) == g[0] = c /\ \A i \in 1 .. k : g[i] = Step[<<g[i - 1], i>>]
           Done == {k \in 0 .. n : \E g \in [0 .. k -> S] : Solves(g, k)}
<1>1. 0 \in Done
  <2> DEFINE h == [i \in 0 .. 0 |-> c]
  <2>1. h \in [0 .. 0 -> S] /\ h[0] = c
    OBVIOUS
  <2>2. Solves(h, 0)
    BY <2>1
  <2>3. \E g \in [0 .. 0 -> S] : Solves(g, 0)
    BY <2>1, <2>2
  <2> QED BY <2>3
<1>2. ASSUME NEW k \in 1 .. n, k - 1 \in Done PROVE k \in Done
  <2>1. PICK g \in [0 .. k - 1 -> S] : Solves(g, k - 1)
    BY <1>2
  <2> DEFINE h == [i \in 0 .. k |-> IF i = k THEN Step[<<g[k - 1], k>>] ELSE g[i]]
  <2>2. k - 1 \in 0 .. k - 1 /\ g[k - 1] \in S
    OBVIOUS
  <2>3. Step[<<g[k - 1], k>>] \in S
    <3>1. <<g[k - 1], k>> \in S \X (1 .. n)
      BY <2>2
    <3> QED BY <3>1
  <2>4. h \in [0 .. k -> S]
    BY <2>3
  <2>5. h[0] = c
    BY <2>1
  <2>6. ASSUME NEW i \in 1 .. k PROVE h[i] = Step[<<h[i - 1], i>>]
    <3>1. i - 1 \in 0 .. k /\ i - 1 # k
      OBVIOUS
    <3>2. h[i - 1] = g[i - 1]
      BY <3>1
    <3>3. CASE i = k
      <4>1. h[i] = Step[<<g[k - 1], k>>]
        BY <3>3
      <4> QED BY <4>1, <3>2, <3>3
    <3>4. CASE i # k
      <4>1. i \in 1 .. k - 1
        BY <3>4
      <4>2. h[i] = g[i] /\ g[i] = Step[<<g[i - 1], i>>]
        BY <4>1, <2>1
      <4> QED BY <4>2, <3>2
    <3> QED BY <3>3, <3>4
  <2>7. Solves(h, k)
    BY <2>5, <2>6
  <2> HIDE DEF h, Solves
  <2>8. \E f \in [0 .. k -> S] : Solves(f, k)
    BY <2>4, <2>7
  <2> QED BY <2>8
<1>3. n \in Done
  <2> HIDE DEF Done
  <2>1. \A i \in 0 .. n : i \in Done
    BY <1>1, <1>2, UpTo
  <2> QED BY <2>1
<1> QED
  BY <1>3 DEF Solution

\* Total, a fold, of a set of no number and of one.
LEMMA TotalNone == Total({}) = 0
<1> DEFINE Iter(g) == [s \in SUBSET {} |-> IF s = {} THEN 0
                                           ELSE LET y == CHOOSE y \in s : TRUE IN y + g[s \ {y}]]
<1>1. [s \in SUBSET {} |-> 0] = Iter([s \in SUBSET {} |-> 0])
  OBVIOUS
<1> DEFINE iter == CHOOSE g : g = Iter(g)
<1>2. iter = Iter(iter)
  BY <1>1
<1>3. iter[{}] = 0
  BY <1>2
<1>4. Total({}) = iter[{}]
  BY DEF Total, FoldSet, MapThenFoldSet
<1> QED
  BY <1>3, <1>4

LEMMA TotalOne == ASSUME NEW x \in Int PROVE Total({x}) = x
<1> DEFINE Iter(g) == [s \in SUBSET {x} |-> IF s = {} THEN 0
                                           ELSE LET y == CHOOSE y \in s : TRUE IN y + g[s \ {y}]]
           g0 == [s \in SUBSET {x} |-> IF s = {} THEN 0 ELSE x]
           iter == CHOOSE g : g = Iter(g)
<1>1. \A g : Iter(g) = [s \in SUBSET {x} |-> IF s = {} THEN 0 ELSE x + g[{}]]
  <2> TAKE g
  <2>1. ASSUME NEW s \in SUBSET {x}, s # {} PROVE (CHOOSE y \in s : TRUE) = x /\ s \ {x} = {}
    BY <2>1
  <2>2. ASSUME NEW s \in SUBSET {x}
        PROVE  (IF s = {} THEN 0 ELSE LET y == CHOOSE y \in s : TRUE IN y + g[s \ {y}])
                = (IF s = {} THEN 0 ELSE x + g[{}])
    <3>1. CASE s = {}
      BY <3>1
    <3>2. CASE s # {}
      <4> DEFINE y == CHOOSE y \in s : TRUE
      <4>1. y = x /\ s \ {y} = {}
        BY <2>1, <3>2
      <4> HIDE DEF y
      <4>2. y + g[s \ {y}] = x + g[{}]
        BY <4>1
      <4> QED BY <3>2, <4>2 DEF y
    <3> QED BY <3>1, <3>2
  <2> QED BY <2>2
<1>2. g0 = Iter(g0)
  BY <1>1
<1>3. iter = Iter(iter)
  BY <1>2
<1> HIDE DEF iter
<1>4. iter[{}] = 0 /\ iter[{x}] = x + iter[{}]
  BY <1>1, <1>3
<1>5. Total({x}) = iter[{x}]
  BY DEF Total, FoldSet, MapThenFoldSet, iter
<1> QED
  BY <1>4, <1>5

\* Pings as the table keeps them: a key has one row.
Track(B) ==
  B \subseteq DayPing /\ IsFiniteSet(B) /\ \A a, b \in B : a.ts = b.ts => a = b

InOrder(day) == \A i, j \in DOMAIN day : i < j => day[i].ts < day[j].ts

\* The types of what a ping carries.
LEMMA PingFields ==
  ASSUME NEW p \in DayPing
  PROVE  /\ p.ts \in Minutes /\ p.ts \in Nat /\ p.at \in Int
         /\ p.speed \in AtMostOne(PingSpeeds) /\ p.fuel \in AtMostOne(Int)
<1>1. p.fuel \in AtMostOne(0 .. 100 \cup Levels) /\ 0 .. 100 \cup Levels \subseteq Int
  BY DayAssumption DEF DayPing
<1>2. p.fuel \in AtMostOne(Int)
  BY <1>1 DEF AtMostOne
<1> QED
  BY <1>2, DayAssumption DEF DayPing

\* There is a first one among pings.
LEMMA Earliest ==
  ASSUME NEW C, C \subseteq DayPing, C # {} PROVE \E p \in C : \A q \in C : p.ts <= q.ts
<1> DEFINE T == {p.ts : p \in C}
<1>1. T \subseteq Nat /\ T # {}
  BY PingFields
<1>2. PICK n \in T : \A m \in T : n <= m
  <2> HIDE DEF T
  <2> QED BY <1>1, LeastNat
<1>3. PICK p \in C : p.ts = n
  OBVIOUS
<1>4. \A q \in C : p.ts <= q.ts
  BY <1>2, <1>3
<1> QED
  BY <1>4

\* A track can be put in order of time.
LEMMA SortedExists ==
  ASSUME NEW B, Track(B) PROVE \E day \in [1 .. Cardinality(B) -> B] : InOrder(day)
<1> DEFINE n == Cardinality(B)
           Sortable(C, k) == \E day \in [1 .. k -> C] : InOrder(day)
           Done == {k \in 0 .. n : \A C \in SUBSET B : Cardinality(C) = k => Sortable(C, k)}
<1>1. n \in Nat
  BY FS_CardinalityType DEF Track
<1>2. 0 \in Done
  <2>1. ASSUME NEW C \in SUBSET B PROVE Sortable(C, 0)
    <3>1. [i \in 1 .. 0 |-> 0] \in [1 .. 0 -> C] /\ InOrder([i \in 1 .. 0 |-> 0])
      BY DEF InOrder
    <3> QED BY <3>1
  <2> HIDE DEF Sortable
  <2> QED BY <1>1, <2>1
<1>3. ASSUME NEW k \in 1 .. n, k - 1 \in Done PROVE k \in Done
  <2> SUFFICES ASSUME NEW C \in SUBSET B, Cardinality(C) = k PROVE Sortable(C, k)
    BY <1>1
  <2>0. k \in Nat /\ k # 0
    BY <1>1
  <2>1. IsFiniteSet(C) /\ C # {} /\ C \subseteq DayPing
    BY <2>0, FS_Subset, FS_EmptySet DEF Track
  <2>2. PICK m \in C : \A q \in C : m.ts <= q.ts
    BY <2>1, Earliest
  <2>3. Cardinality(C \ {m}) = k - 1
    BY <2>1, FS_RemoveElement
  <2>4. PICK d \in [1 .. k - 1 -> C \ {m}] : InOrder(d)
    BY <1>3, <2>3
  <2> DEFINE day == [i \in 1 .. k |-> IF i = 1 THEN m ELSE d[i - 1]]
  <2>5. \A i \in 2 .. k : d[i - 1] \in C \ {m}
    BY <2>0
  <2>6. day \in [1 .. k -> C]
    BY <2>0, <2>5
  <2>7. \A p \in C \ {m} : m.ts < p.ts
    <3> TAKE p \in C \ {m}
    <3>1. m.ts # p.ts
      BY DEF Track
    <3>2. m.ts \in Nat /\ p.ts \in Nat
      BY <2>1, PingFields
    <3> QED BY <2>2, <3>1, <3>2
  <2>8. ASSUME NEW i \in 1 .. k, NEW j \in 1 .. k, i < j PROVE day[i].ts < day[j].ts
    <3>1. j \in 2 .. k /\ j - 1 \in 1 .. k - 1 /\ day[j] = d[j - 1]
      BY <2>0, <2>8
    <3>2. CASE i = 1
      <4>1. day[i] = m
        BY <3>2
      <4>2. m.ts < d[j - 1].ts
        BY <2>5, <2>7, <3>1
      <4> QED BY <3>1, <4>1, <4>2
    <3>3. CASE i # 1
      <4>1. i - 1 \in 1 .. k - 1 /\ day[i] = d[i - 1] /\ i - 1 < j - 1
        BY <2>0, <2>8, <3>3
      <4>2. d[i - 1].ts < d[j - 1].ts
        BY <2>4, <3>1, <4>1 DEF InOrder
      <4> QED BY <3>1, <4>1, <4>2
    <3> QED BY <3>2, <3>3
  <2>9. InOrder(day)
    <3>1. DOMAIN day = 1 .. k
      OBVIOUS
    <3> HIDE DEF day
    <3> QED BY <2>8, <3>1 DEF InOrder
  <2> HIDE DEF day
  <2> QED BY <2>6, <2>9
<1>4. n \in Done
  <2> HIDE DEF Done, n
  <2>1. \A i \in 0 .. n : i \in Done
    BY <1>1, <1>2, <1>3, UpTo
  <2> QED BY <1>1, <2>1
<1> QED
  BY <1>4

\* Sorted puts a track in order of time, every ping once.
LEMMA SortedTrack ==
  ASSUME NEW B, Track(B)
  PROVE  /\ Cardinality(B) \in Nat
         /\ Sorted(B) \in [1 .. Cardinality(B) -> B] /\ Len(Sorted(B)) = Cardinality(B)
         /\ \A i, j \in 1 .. Cardinality(B) : i < j => Sorted(B)[i].ts < Sorted(B)[j].ts
         /\ \A p \in B : \E i \in 1 .. Cardinality(B) : Sorted(B)[i] = p
<1> DEFINE n == Cardinality(B)
           day == Sorted(B)
<1>1. n \in Nat
  BY FS_CardinalityType DEF Track
<1>2. day \in [1 .. n -> B] /\ InOrder(day)
  BY SortedExists DEF Sorted, InOrder
<1>3. \A i, j \in 1 .. n : i < j => day[i].ts < day[j].ts
  BY <1>2 DEF InOrder
<1>4. day \in Injection(1 .. n, B)
  <2> HIDE DEF n, day
  <2>1. ASSUME NEW i \in 1 .. n, NEW j \in 1 .. n, day[i] = day[j] PROVE i = j
    <3>1. day[i].ts \in Nat /\ day[i] = day[j]
      BY <1>2, <2>1, PingFields DEF Track
    <3>2. ~ (day[i].ts < day[j].ts) /\ ~ (day[j].ts < day[i].ts)
      BY <3>1
    <3>3. ~ (i < j) /\ ~ (j < i)
      BY <1>3, <3>2
    <3> QED BY <1>1, <3>3
  <2> QED BY <1>2, <2>1, Fun_IsInj
<1>5. day \in Surjection(1 .. n, B)
  <2>1. Cardinality(1 .. n) = n /\ IsFiniteSet(1 .. n)
    BY <1>1, FS_Interval
  <2> QED BY <1>4, <2>1, FS_Injection DEF Track
<1>6. \A p \in B : \E i \in 1 .. n : day[i] = p
  BY <1>5 DEF Surjection
<1>7. Len(day) = n
  BY <1>1, <1>2
<1> QED
  BY <1>1, <1>2, <1>3, <1>6, <1>7

-----------------------------------------------------------------------------
(* What a run makes of the pings, one at a time *)

\* The pairs without a ping between them are the neighbours in order of time.
LEMMA ConsecutiveSorted ==
  ASSUME NEW B, Track(B)
  PROVE  Consecutive(B) = {<<Sorted(B)[i - 1], Sorted(B)[i]>> : i \in 2 .. Cardinality(B)}
<1> DEFINE n == Cardinality(B)
           day == Sorted(B)
<1>1. /\ n \in Nat /\ day \in [1 .. n -> B]
      /\ \A i, j \in 1 .. n : i < j => day[i].ts < day[j].ts
      /\ \A p \in B : \E i \in 1 .. n : day[i] = p
  BY SortedTrack
<1> HIDE DEF n, day
<1>2. \A i \in 1 .. n : day[i] \in B /\ day[i].ts \in Nat
  BY <1>1, PingFields DEF Track
<1>3. \A i, j \in 1 .. n : day[i].ts < day[j].ts => i < j
  <2> SUFFICES ASSUME NEW i \in 1 .. n, NEW j \in 1 .. n, day[i].ts < day[j].ts PROVE i < j
    OBVIOUS
  <2>1. i # j /\ ~ (j < i)
    BY <1>1, <1>2
  <2> QED BY <2>1, <1>1
<1>4. ASSUME NEW i \in 2 .. n PROVE <<day[i - 1], day[i]>> \in Consecutive(B)
  <2>1. i \in 1 .. n /\ i - 1 \in 1 .. n /\ i - 1 < i
    BY <1>1
  <2>2. day[i - 1] \in B /\ day[i] \in B /\ day[i - 1].ts < day[i].ts
    BY <1>1, <1>2, <2>1
  <2>3. ASSUME NEW c \in B PROVE c.ts <= day[i - 1].ts \/ day[i].ts <= c.ts
    <3>1. PICK k \in 1 .. n : day[k] = c
      BY <1>1
    <3>2. k < i - 1 \/ k = i - 1 \/ k = i \/ i < k
      BY <2>1, <1>1
    <3>3. k < i - 1 => day[k].ts < day[i - 1].ts
      BY <1>1, <2>1
    <3>4. i < k => day[i].ts < day[k].ts
      BY <1>1, <2>1
    <3> QED BY <1>2, <2>1, <3>1, <3>2, <3>3, <3>4
  <2> QED BY <2>2, <2>3 DEF Consecutive
<1>5. ASSUME NEW pair \in Consecutive(B) PROVE \E i \in 2 .. n : pair = <<day[i - 1], day[i]>>
  <2>1. pair \in B \X B /\ pair[1].ts < pair[2].ts
    BY DEF Consecutive
  <2>2. PICK k \in 1 .. n, i \in 1 .. n : pair[1] = day[k] /\ pair[2] = day[i]
    BY <1>1, <2>1
  <2>3. k < i
    BY <1>3, <2>1, <2>2
  <2>4. k = i - 1
    <3> SUFFICES ASSUME k # i - 1 PROVE FALSE
      OBVIOUS
    <3>1. k + 1 \in 1 .. n /\ k < k + 1 /\ k + 1 < i
      BY <1>1, <2>3
    <3>2. day[k].ts < day[k + 1].ts /\ day[k + 1].ts < day[i].ts
      BY <1>1, <3>1
    <3>3. day[k + 1] \in B
      BY <1>2, <3>1
    <3>4. day[k + 1].ts <= day[k].ts \/ day[i].ts <= day[k + 1].ts
      BY <2>2, <3>3 DEF Consecutive
    <3> QED BY <1>2, <3>1, <3>2, <3>4
  <2>5. pair = <<pair[1], pair[2]>>
    BY <2>1
  <2> QED BY <2>2, <2>3, <2>4, <2>5
<1> QED
  BY <1>4, <1>5 DEF n, day

-----------------------------------------------------------------------------

\* What AggregateDay keeps while it goes through the pings.
DaySum == [distance : Nat, moving : Int, idle : Int, used : Nat, max : Nat, speeds : Int,
           samples : Nat, fuel : BOOLEAN, events : SUBSET FuelEvent]

\* A speed that may be missing, as a number.
LEMMA SpeedTotal ==
  ASSUME NEW p \in DayPing
  PROVE  /\ Total(p.speed) \in Int /\ Cardinality(p.speed) \in Nat
         /\ \A v \in p.speed : v \in Int /\ Total(p.speed) = v
<1>1. CASE p.speed = {}
  BY <1>1, TotalNone, FS_EmptySet
<1>2. CASE p.speed # {}
  <2>1. PICK v \in PingSpeeds : p.speed = {v}
    BY <1>2, PingFields DEF AtMostOne
  <2>2. v \in Int
    BY DayAssumption
  <2>3. Total({v}) = v
    BY <2>2, TotalOne
  <2>4. Cardinality({v}) = 1
    BY FS_Singleton
  <2> QED BY <2>1, <2>2, <2>3, <2>4
<1> QED
  BY <1>1, <1>2

\* Two levels differ by one number, if both are known.
LEMMA DeltaType ==
  ASSUME NEW q \in DayPing, NEW p \in DayPing
  PROVE  Delta(q, p) = {} \/ \E x \in q.fuel, y \in p.fuel : /\ x \in Int /\ y \in Int
                                                             /\ q.fuel = {x} /\ p.fuel = {y} /\ Delta(q, p) = {y - x}
<1>1. CASE q.fuel = {} \/ p.fuel = {}
  BY <1>1 DEF Delta
<1>2. CASE q.fuel # {} /\ p.fuel # {}
  <2>1. PICK x \in Int, y \in Int : q.fuel = {x} /\ p.fuel = {y}
    BY <1>2, PingFields DEF AtMostOne
  <2> QED BY <2>1 DEF Delta
<1> QED
  BY <1>1, <1>2

\* A fuel event is of its type.
LEMMA FuelEventsType ==
  ASSUME NEW q \in DayPing, NEW p \in DayPing PROVE FuelEvents(q, p) \subseteq FuelEvent
<1> SUFFICES ASSUME NEW e \in FuelEvents(q, p) PROVE e \in FuelEvent
  OBVIOUS
<1>1. PICK d \in Delta(q, p) : e = [kind |-> IF d >= RefuelMin THEN "refuel" ELSE "drop", ts |-> p.ts, delta |-> d]
  BY DEF FuelEvents
<1>2. d \in Int
  <2>1. Delta(q, p) # {}
    OBVIOUS
  <2>2. PICK x, y : x \in Int /\ y \in Int /\ Delta(q, p) = {y - x}
    BY <2>1, DeltaType
  <2>3. d = y - x
    BY <2>2
  <2> QED BY <2>2, <2>3
<1>3. p.ts \in Minutes
  BY PingFields
<1> QED
  BY <1>1, <1>2, <1>3 DEF FuelEvent, Kinds

\* What a fall of the level adds to the fuel used is no negative number.
LEMMA UsedType ==
  ASSUME NEW q \in DayPing, NEW p \in DayPing
  PROVE  Total({-d : d \in {x \in Delta(q, p) : x < 0}}) \in Nat
<1> DEFINE used == {-d : d \in {x \in Delta(q, p) : x < 0}}
<1>1. used = {} \/ \E d \in Nat : used = {d}
  <2>1. CASE Delta(q, p) = {}
    BY <2>1
  <2>2. CASE Delta(q, p) # {}
    <3>1. PICK d \in Int : Delta(q, p) = {d}
      <4>1. PICK x, y : x \in Int /\ y \in Int /\ Delta(q, p) = {y - x}
        BY <2>2, DeltaType
      <4> QED BY <4>1
    <3>2. CASE d < 0
      <4>1. used = {-d} /\ -d \in Nat
        BY <3>1, <3>2
      <4> QED BY <4>1
    <3>3. CASE ~ (d < 0)
      <4>1. used = {}
        BY <3>1, <3>3
      <4> QED BY <4>1
    <3> QED BY <3>2, <3>3
  <2> QED BY <2>1, <2>2
<1> HIDE DEF used
<1>2. Total(used) \in Nat
  BY <1>1, TotalNone, TotalOne
<1> QED
  BY <1>2 DEF used

\* A ping by itself keeps the type of the sums, and adds no event ...
LEMMA CountType ==
  ASSUME NEW sum \in DaySum, NEW p \in DayPing
  PROVE  Count(sum, p) \in DaySum /\ Count(sum, p).events = sum.events
<1> DEFINE m == IF \E v \in p.speed : v > sum.max THEN Total(p.speed) ELSE sum.max
           v == sum.speeds + Total(p.speed)
           k == sum.samples + Cardinality(p.speed)
           f == (sum.fuel \/ p.fuel # {})
<1>0. sum.max \in Nat /\ sum.speeds \in Int /\ sum.samples \in Nat
  BY DEF DaySum
<1>1. m \in Nat /\ v \in Int /\ k \in Nat
  <2>1. CASE \E w \in p.speed : w > sum.max
    <3>1. PICK w \in p.speed : w > sum.max
      BY <2>1
    <3>2. w \in Int /\ Total(p.speed) = w
      BY SpeedTotal
    <3>3. m = w
      BY <3>1, <3>2
    <3> QED BY <1>0, <3>1, <3>2, <3>3, SpeedTotal
  <2>2. CASE ~ (\E w \in p.speed : w > sum.max)
    BY <1>0, <2>2, SpeedTotal
  <2> QED BY <2>1, <2>2
<1>2. f \in BOOLEAN
  OBVIOUS
<1>3. Count(sum, p) = [sum EXCEPT !.max = m, !.speeds = v, !.samples = k, !.fuel = f]
  BY DEF Count
<1> HIDE DEF m, v, k, f
<1> QED
  BY <1>1, <1>2, <1>3 DEF DaySum

\* ... and with the one before adds the events between the two.
LEMMA BetweenType ==
  ASSUME NEW sum \in DaySum, NEW q \in DayPing, NEW p \in DayPing
  PROVE  Between(sum, q, p) \in DaySum /\ Between(sum, q, p).events = sum.events \cup FuelEvents(q, p)
<1>1. Distance(q, p) \in Nat
  BY PingFields DEF Distance
<1>2. Capped(Gap(q, p)) \in Int
  BY PingFields DEF Capped, Gap, GapCap
<1>3. sum.events \cup FuelEvents(q, p) \in SUBSET FuelEvent
  BY FuelEventsType DEF DaySum
<1> DEFINE used == Total({-d : d \in {x \in Delta(q, p) : x < 0}})
<1>4. used \in Nat
  BY UsedType
<1>5. Between(sum, q, p) =
        [sum EXCEPT !.distance = sum.distance + Distance(q, p),
                    !.moving   = sum.moving + (IF Moving(q, p) THEN Capped(Gap(q, p)) ELSE 0),
                    !.idle     = sum.idle + (IF Moving(q, p) THEN 0 ELSE Capped(Gap(q, p))),
                    !.used     = sum.used + used,
                    !.events   = sum.events \cup FuelEvents(q, p)]
  BY DEF Between
<1> DEFINE km == sum.distance + Distance(q, p)
           m == sum.moving + (IF Moving(q, p) THEN Capped(Gap(q, p)) ELSE 0)
           i == sum.idle + (IF Moving(q, p) THEN 0 ELSE Capped(Gap(q, p)))
           u == sum.used + used
           e == sum.events \cup FuelEvents(q, p)
<1> HIDE DEF used
<1>6. km \in Nat /\ m \in Int /\ i \in Int /\ u \in Nat /\ e \in SUBSET FuelEvent
  BY <1>1, <1>2, <1>3, <1>4 DEF DaySum
<1>7. Between(sum, q, p) = [sum EXCEPT !.distance = km, !.moving = m, !.idle = i, !.used = u, !.events = e]
  BY <1>5
<1>8. e = sum.events \cup FuelEvents(q, p)
  OBVIOUS
<1> HIDE DEF km, m, i, u, e
<1> QED
  BY <1>6, <1>7, <1>8 DEF DaySum

\* A run starts from sums.
LEMMA ZeroType == Zero \in DaySum
BY DEF Zero, DaySum

\* The sum of the first pings, one ping at a time.
AddPing(day, i, sum) ==
  IF i = 1 THEN Count(sum, day[1]) ELSE Between(Count(sum, day[i]), day[i - 1], day[i])

\* AggregateDay, a recursive function, goes through these sums.
LEMMA AggregateRuns ==
  ASSUME NEW B, Track(B)
  PROVE  \E sum \in [0 .. Cardinality(B) -> DaySum] :
           /\ sum[0] = Zero
           /\ \A i \in 1 .. Cardinality(B) : sum[i] = AddPing(Sorted(B), i, sum[i - 1])
           /\ AggregateDay(B) = sum[Cardinality(B)]
<1> DEFINE n == Cardinality(B)
           day == Sorted(B)
           Step == [x \in DaySum \X (1 .. n) |-> AddPing(day, x[2], x[1])]
           Iter(f) == [i \in 0 .. n |-> IF i = 0 THEN Zero
                                        ELSE IF i = 1 THEN Count(f[0], day[1])
                                        ELSE Between(Count(f[i - 1], day[i]), day[i - 1], day[i])]
           agg == CHOOSE f : f = Iter(f)
<1>1. n \in Nat /\ day \in [1 .. n -> B] /\ Len(day) = n
  BY SortedTrack
<1>2. AggregateDay(B) = agg[n]
  BY <1>1 DEF AggregateDay
<1> HIDE DEF n, day
<1>3. Step \in [DaySum \X (1 .. n) -> DaySum]
  <2> SUFFICES \A sum \in DaySum, i \in 1 .. n : AddPing(day, i, sum) \in DaySum
    OBVIOUS
  <2> TAKE sum \in DaySum, i \in 1 .. n
  <2>1. day[i] \in DayPing /\ (i # 1 => day[i - 1] \in DayPing)
    BY <1>1 DEF Track
  <2>2. Count(sum, day[i]) \in DaySum
    BY <2>1, CountType
  <2> QED BY <2>1, <2>2, BetweenType DEF AddPing
<1>4. PICK sum : Solution(sum, DaySum, Zero, n, Step)
  <2> HIDE DEF Step
  <2> QED BY <1>1, <1>3, ZeroType, RecursionUpTo
<1>4a. sum \in [0 .. n -> DaySum] /\ sum[0] = Zero
  BY <1>4 DEF Solution
<1>5. \A i \in 1 .. n : sum[i] = AddPing(day, i, sum[i - 1])
  <2> SUFFICES ASSUME NEW i \in 1 .. n PROVE sum[i] = AddPing(day, i, sum[i - 1])
    OBVIOUS
  <2>1. i - 1 \in 0 .. n /\ <<sum[i - 1], i>> \in DaySum \X (1 .. n)
    BY <1>1, <1>4a
  <2> QED BY <1>4, <2>1 DEF Solution
<1>6. sum = Iter(sum)
  <2>1. ASSUME NEW i \in 0 .. n PROVE sum[i] = Iter(sum)[i]
    <3>1. CASE i = 0
      BY <1>4a, <3>1
    <3>2. CASE i # 0
      <4>1. i \in 1 .. n /\ i - 1 \in 0 .. n
        BY <3>2, <1>1
      <4>2. sum[i] = AddPing(day, i, sum[i - 1])
        BY <1>5, <4>1
      <4>3. i = 1 => sum[i - 1] = sum[0]
        OBVIOUS
      <4> QED BY <3>2, <4>2, <4>3 DEF AddPing
    <3> QED BY <3>1, <3>2
  <2>2. Iter(sum) = [i \in 0 .. n |-> Iter(sum)[i]]
    OBVIOUS
  <2>3. sum = [i \in 0 .. n |-> sum[i]]
    BY <1>4a
  <2> HIDE DEF Iter
  <2> QED BY <2>1, <2>2, <2>3
<1>7. agg = Iter(agg)
  <2> HIDE DEF Iter
  <2> QED BY <1>6
<1>8. \A i \in 0 .. n : agg[i] = sum[i]
  <2> DEFINE Same == {i \in 0 .. n : agg[i] = sum[i]}
  <2>1. 0 \in Same
    <3> HIDE DEF agg
    <3> QED BY <1>1, <1>4a, <1>7
  <2>2. ASSUME NEW i \in 1 .. n, i - 1 \in Same PROVE i \in Same
    <3>1. i \in 0 .. n /\ i # 0 /\ agg[i - 1] = sum[i - 1]
      BY <1>1, <2>2
    <3>2. agg[i] = Iter(agg)[i]
      BY <1>7
    <3>3. agg[i] = AddPing(day, i, agg[i - 1])
      BY <3>1, <3>2 DEF AddPing
    <3> HIDE DEF agg
    <3> QED BY <1>5, <3>1, <3>3
  <2> HIDE DEF Same
  <2>3. \A i \in 0 .. n : i \in Same
    BY <1>1, <2>1, <2>2, UpTo
  <2> QED BY <2>3 DEF Same
<1>9. AggregateDay(B) = sum[n]
  BY <1>1, <1>2, <1>8
<1> QED
  BY <1>4a, <1>5, <1>9 DEF n, day

\* A trip, and the state of the detection of trips between two pings.
DayTrip == [start : Minutes, end : Minutes, km : Nat]

TripState ==
  {t \in [active : BOOLEAN, start : Nat, last : Nat, km : Nat, out : SUBSET DayTrip] :
     t.active => t.start \in Minutes /\ t.last \in Minutes}

\* The end of a trip, a ping of a trip and the check for a gap keep the state
\* of its type.
LEMMA CloseTripType ==
  ASSUME NEW t \in TripState PROVE CloseTrip(t) \in TripState /\ ~CloseTrip(t).active
<1> DEFINE long == t.active /\ t.km >= TripMinKm /\ t.last - t.start >= TripMinDur
           out == IF long THEN t.out \cup {[start |-> t.start, end |-> t.last, km |-> t.km]} ELSE t.out
<1>1. out \in SUBSET DayTrip
  BY DEF TripState, DayTrip
<1>2. CloseTrip(t) = [Idle EXCEPT !.out = out]
  BY DEF CloseTrip
<1> HIDE DEF out
<1>3. CloseTrip(t) = [active |-> FALSE, start |-> 0, last |-> 0, km |-> 0, out |-> out]
  BY <1>2 DEF Idle
<1> QED
  BY <1>1, <1>3 DEF TripState

LEMMA DriveType ==
  ASSUME NEW t \in TripState, NEW q \in DayPing, NEW p \in DayPing PROVE Drive(t, q, p) \in TripState
<1> DEFINE on == [t EXCEPT !.km = t.km + Distance(q, p), !.last = p.ts]
<1>1. Distance(q, p) \in Nat
  BY PingFields DEF Distance
<1>2. t.active => on \in TripState
  <2> DEFINE km == t.km + Distance(q, p)
  <2>1. km \in Nat /\ p.ts \in Nat /\ p.ts \in Minutes
    BY <1>1, PingFields DEF TripState
  <2>2. on = [t EXCEPT !.km = km, !.last = p.ts]
    OBVIOUS
  <2> HIDE DEF km, on
  <2> QED BY <2>1, <2>2 DEF TripState
<1>3. CASE t.active /\ Fast(p)
  <2>1. Drive(t, q, p) = on
    BY <1>3 DEF Drive
  <2> QED BY <1>2, <1>3, <2>1
<1>4. CASE t.active /\ ~Fast(p)
  <2>1. Drive(t, q, p) = CloseTrip(on)
    BY <1>4 DEF Drive
  <2> HIDE DEF on
  <2> QED BY <1>2, <1>4, <2>1, CloseTripType
<1>5. CASE ~t.active /\ Fast(p)
  <2>1. Drive(t, q, p) = [t EXCEPT !.active = TRUE, !.start = p.ts, !.last = p.ts]
    BY <1>5 DEF Drive
  <2> QED BY <2>1, PingFields DEF TripState
<1>6. CASE ~t.active /\ ~Fast(p)
  BY <1>6 DEF Drive
<1> QED
  BY <1>3, <1>4, <1>5, <1>6

LEMMA FollowType ==
  ASSUME NEW t \in TripState, NEW q \in DayPing, NEW p \in DayPing PROVE Follow(t, q, p) \in TripState
BY DriveType, CloseTripType DEF Follow

\* Before the first ping no trip is on.
LEMMA IdleType == Idle \in TripState
BY DEF Idle, TripState

\* The trips of the first pings, one ping at a time.
AddToTrip(day, i, t) ==
  IF i = 1 THEN Drive(Idle, day[1], day[1]) ELSE Follow(t, day[i - 1], day[i])

\* DetectTrips, a recursive function, goes through these states.
LEMMA TripsRun ==
  ASSUME NEW B, Track(B)
  PROVE  \E trip \in [0 .. Cardinality(B) -> TripState] :
           /\ trip[0] = Idle
           /\ \A i \in 1 .. Cardinality(B) : trip[i] = AddToTrip(Sorted(B), i, trip[i - 1])
           /\ DetectTrips(B) = IF Cardinality(B) < 2 THEN {} ELSE CloseTrip(trip[Cardinality(B)]).out
<1> DEFINE n == Cardinality(B)
           day == Sorted(B)
           Step == [x \in TripState \X (1 .. n) |-> AddToTrip(day, x[2], x[1])]
           Iter(f) == [i \in 0 .. n |-> IF i = 0 THEN Idle
                                        ELSE IF i = 1 THEN Drive(Idle, day[1], day[1])
                                        ELSE Follow(f[i - 1], day[i - 1], day[i])]
           run == CHOOSE f : f = Iter(f)
<1>1. n \in Nat /\ day \in [1 .. n -> B] /\ Len(day) = n
  BY SortedTrack
<1>2. DetectTrips(B) = IF n < 2 THEN {} ELSE CloseTrip(run[n]).out
  BY <1>1 DEF DetectTrips
<1> HIDE DEF n, day
<1>3. Step \in [TripState \X (1 .. n) -> TripState]
  <2> SUFFICES \A t \in TripState, i \in 1 .. n : AddToTrip(day, i, t) \in TripState
    OBVIOUS
  <2> TAKE t \in TripState, i \in 1 .. n
  <2>1. day[i] \in DayPing /\ (i # 1 => day[i - 1] \in DayPing)
    BY <1>1 DEF Track
  <2> QED BY <2>1, IdleType, DriveType, FollowType DEF AddToTrip
<1>4. PICK trip : Solution(trip, TripState, Idle, n, Step)
  <2> HIDE DEF Step
  <2> QED BY <1>1, <1>3, IdleType, RecursionUpTo
<1>5. trip \in [0 .. n -> TripState] /\ trip[0] = Idle
  BY <1>4 DEF Solution
<1>6. \A i \in 1 .. n : trip[i] = AddToTrip(day, i, trip[i - 1])
  <2> SUFFICES ASSUME NEW i \in 1 .. n PROVE trip[i] = AddToTrip(day, i, trip[i - 1])
    OBVIOUS
  <2>1. i - 1 \in 0 .. n /\ <<trip[i - 1], i>> \in TripState \X (1 .. n)
    BY <1>1, <1>5
  <2> QED BY <1>4, <2>1 DEF Solution
<1>7. trip = Iter(trip)
  <2>1. ASSUME NEW i \in 0 .. n PROVE trip[i] = Iter(trip)[i]
    <3>1. CASE i = 0
      BY <1>5, <3>1
    <3>2. CASE i # 0
      <4>1. i \in 1 .. n /\ i - 1 \in 0 .. n
        BY <3>2, <1>1
      <4>2. trip[i] = AddToTrip(day, i, trip[i - 1])
        BY <1>6, <4>1
      <4> QED BY <3>2, <4>2 DEF AddToTrip
    <3> QED BY <3>1, <3>2
  <2>2. Iter(trip) = [i \in 0 .. n |-> Iter(trip)[i]]
    OBVIOUS
  <2>3. trip = [i \in 0 .. n |-> trip[i]]
    BY <1>5
  <2> HIDE DEF Iter
  <2> QED BY <2>1, <2>2, <2>3
<1>8. run = Iter(run)
  <2> HIDE DEF Iter
  <2> QED BY <1>7
<1>9. \A i \in 0 .. n : run[i] = trip[i]
  <2> DEFINE Same == {i \in 0 .. n : run[i] = trip[i]}
  <2>1. 0 \in Same
    <3> HIDE DEF run
    <3> QED BY <1>1, <1>5, <1>8
  <2>2. ASSUME NEW i \in 1 .. n, i - 1 \in Same PROVE i \in Same
    <3>1. i \in 0 .. n /\ i # 0 /\ run[i - 1] = trip[i - 1]
      BY <1>1, <2>2
    <3>2. run[i] = Iter(run)[i]
      BY <1>8
    <3>3. run[i] = AddToTrip(day, i, run[i - 1])
      BY <3>1, <3>2 DEF AddToTrip
    <3> HIDE DEF run
    <3> QED BY <1>6, <3>1, <3>3
  <2> HIDE DEF Same
  <2>3. \A i \in 0 .. n : i \in Same
    BY <1>1, <2>1, <2>2, UpTo
  <2> QED BY <2>3 DEF Same
<1>10. run[n] = trip[n]
  BY <1>1, <1>9
<1> QED
  BY <1>2, <1>5, <1>6, <1>10 DEF n, day

-----------------------------------------------------------------------------

\* The events that a track shows, in terms of those the code finds.
LEMMA EventsOfPairs ==
  ASSUME NEW B, B \subseteq DayPing
  PROVE  EventsOf(B) = UNION {FuelEvents(pair[1], pair[2]) : pair \in Consecutive(B)}
<1> DEFINE shown == UNION {{[ts |-> pair[2].ts, after |-> pair[2].ts - pair[1].ts, delta |-> y - x] :
                                x \in pair[1].fuel, y \in pair[2].fuel} : pair \in Consecutive(B)}
           as(kind, S) == {[kind |-> kind, ts |-> c.ts, delta |-> c.delta] : c \in S}
           refuels == as("refuel", {c \in shown : c.delta >= RefuelMin})
           drops == as("drop", {c \in shown : -c.delta >= DropMin /\ c.after <= DropMaxGap})
           Pairs == UNION {FuelEvents(pair[1], pair[2]) : pair \in Consecutive(B)}
<1>1. EventsOf(B) = refuels \cup drops
  BY DEF EventsOf
<1>2. ASSUME NEW pair \in Consecutive(B)
      PROVE  /\ pair[1] \in DayPing /\ pair[2] \in DayPing /\ pair[1].ts \in Nat /\ pair[2].ts \in Nat
             /\ \A x \in pair[1].fuel, y \in pair[2].fuel : x \in Int /\ y \in Int
  BY PingFields DEF Consecutive, AtMostOne
<1>3. ASSUME NEW e \in refuels \cup drops PROVE e \in Pairs
  <2>1. CASE e \in refuels
    <3>1. PICK c \in shown : c.delta >= RefuelMin /\ e = [kind |-> "refuel", ts |-> c.ts, delta |-> c.delta]
      BY <2>1
    <3>2. PICK pair \in Consecutive(B) : \E x \in pair[1].fuel, y \in pair[2].fuel :
             c = [ts |-> pair[2].ts, after |-> pair[2].ts - pair[1].ts, delta |-> y - x]
      OBVIOUS
    <3>2a. PICK x \in pair[1].fuel, y \in pair[2].fuel :
             c = [ts |-> pair[2].ts, after |-> pair[2].ts - pair[1].ts, delta |-> y - x]
      BY <3>2
    <3>3. y - x \in Delta(pair[1], pair[2])
      BY DEF Delta
    <3>4. e \in FuelEvents(pair[1], pair[2])
      BY <1>2, <3>1, <3>2a, <3>3 DEF FuelEvents
    <3> QED BY <3>4
  <2>2. CASE e \in drops
    <3>1. PICK c \in shown : /\ -c.delta >= DropMin /\ c.after <= DropMaxGap
                               /\ e = [kind |-> "drop", ts |-> c.ts, delta |-> c.delta]
      BY <2>2
    <3>2. PICK pair \in Consecutive(B) : \E x \in pair[1].fuel, y \in pair[2].fuel :
             c = [ts |-> pair[2].ts, after |-> pair[2].ts - pair[1].ts, delta |-> y - x]
      OBVIOUS
    <3>2a. PICK x \in pair[1].fuel, y \in pair[2].fuel :
             c = [ts |-> pair[2].ts, after |-> pair[2].ts - pair[1].ts, delta |-> y - x]
      BY <3>2
    <3>3. y - x \in Delta(pair[1], pair[2])
      BY DEF Delta
    <3>4. y - x \in Int /\ -(y - x) >= DropMin /\ Gap(pair[1], pair[2]) <= DropMaxGap
      BY <1>2, <3>1, <3>2a DEF Gap
    <3>5. e \in FuelEvents(pair[1], pair[2])
      BY <3>1, <3>2a, <3>3, <3>4 DEF FuelEvents, DropMin, RefuelMin
    <3> QED BY <3>5
  <2> QED BY <2>1, <2>2
<1>4. ASSUME NEW e \in Pairs PROVE e \in refuels \cup drops
  <2>1. PICK pair \in Consecutive(B) : e \in FuelEvents(pair[1], pair[2])
    OBVIOUS
  <2>2. PICK d \in Delta(pair[1], pair[2]) :
           /\ d >= RefuelMin \/ (d <= -DropMin /\ Gap(pair[1], pair[2]) <= DropMaxGap)
           /\ e = [kind |-> IF d >= RefuelMin THEN "refuel" ELSE "drop", ts |-> pair[2].ts, delta |-> d]
    BY <2>1 DEF FuelEvents
  <2>3. PICK x \in pair[1].fuel, y \in pair[2].fuel : d = y - x
    BY DEF Delta
  <2> DEFINE c == [ts |-> pair[2].ts, after |-> pair[2].ts - pair[1].ts, delta |-> y - x]
  <2>4. c \in shown /\ c.ts = pair[2].ts /\ c.delta = d /\ c.after = Gap(pair[1], pair[2])
    BY <2>3 DEF Gap
  <2>5. d \in Int
    BY <1>2, <2>3
  <2> HIDE DEF c, shown
  <2>6. CASE d >= RefuelMin
    BY <2>2, <2>4, <2>6
  <2>7. CASE ~ (d >= RefuelMin)
    <3>1. -c.delta >= DropMin /\ c.after <= DropMaxGap
      BY <2>2, <2>4, <2>5, <2>7 DEF DropMin
    <3> QED BY <2>2, <2>4, <2>7, <3>1
  <2> QED BY <2>6, <2>7
<1> HIDE DEF refuels, drops, Pairs
<1>5. EventsOf(B) = Pairs
  BY <1>1, <1>3, <1>4
<1> QED
  BY <1>5 DEF Pairs

\* The fuel events of a run are those between consecutive pings.
LEMMA AggregateEvents ==
  ASSUME NEW B, Track(B) PROVE AggregateDay(B).events = EventsOf(B)
<1> DEFINE n == Cardinality(B)
           day == Sorted(B)
           Upto(i) == UNION {FuelEvents(day[k - 1], day[k]) : k \in 2 .. i}
<1>1. n \in Nat /\ day \in [1 .. n -> B] /\ Len(day) = n
  BY SortedTrack
<1>2. PICK sum \in [0 .. n -> DaySum] : /\ sum[0] = Zero
                                        /\ \A i \in 1 .. n : sum[i] = AddPing(day, i, sum[i - 1])
                                        /\ AggregateDay(B) = sum[n]
  BY AggregateRuns
<1>3. Consecutive(B) = {<<day[i - 1], day[i]>> : i \in 2 .. n}
  BY ConsecutiveSorted
<1> HIDE DEF n, day
<1> DEFINE Right == {i \in 0 .. n : sum[i].events = Upto(i)}
<1>4. 0 \in Right
  <2>1. Upto(0) = {}
    OBVIOUS
  <2> QED BY <1>1, <1>2, <2>1 DEF Zero
<1>5. ASSUME NEW i \in 1 .. n, i - 1 \in Right PROVE i \in Right
  <2>1. /\ i - 1 \in 0 .. n /\ i \in 0 .. n /\ sum[i - 1] \in DaySum /\ sum[i - 1].events = Upto(i - 1)
        /\ day[i] \in DayPing
    BY <1>1, <1>5 DEF Track
  <2>2. sum[i] = AddPing(day, i, sum[i - 1])
    BY <1>2
  <2>3. Count(sum[i - 1], day[i]) \in DaySum /\ Count(sum[i - 1], day[i]).events = Upto(i - 1)
    BY <2>1, CountType
  <2> HIDE DEF Upto
  <2>4. CASE i = 1
    <3>1. Upto(i) = Upto(i - 1)
      BY <2>4 DEF Upto
    <3> QED BY <2>1, <2>2, <2>3, <2>4, <3>1 DEF AddPing
  <2>5. CASE i # 1
    <3>1. day[i - 1] \in DayPing
      BY <1>1, <2>5 DEF Track
    <3>2. sum[i].events = Upto(i - 1) \cup FuelEvents(day[i - 1], day[i])
      BY <2>1, <2>2, <2>3, <2>5, <3>1, BetweenType DEF AddPing
    <3>3. 2 .. i = (2 .. i - 1) \cup {i}
      BY <2>1, <2>5
    <3>4. Upto(i) = Upto(i - 1) \cup FuelEvents(day[i - 1], day[i])
      BY <3>3 DEF Upto
    <3> QED BY <2>1, <3>2, <3>4
  <2> QED BY <2>4, <2>5
<1>6. sum[n].events = Upto(n)
  <2> HIDE DEF Right
  <2>1. \A i \in 0 .. n : i \in Right
    BY <1>1, <1>4, <1>5, UpTo
  <2> QED BY <1>1, <2>1 DEF Right
<1>7. EventsOf(B) = UNION {FuelEvents(pair[1], pair[2]) : pair \in Consecutive(B)}
  BY EventsOfPairs DEF Track
<1>8. Upto(n) = UNION {FuelEvents(pair[1], pair[2]) : pair \in Consecutive(B)}
  <2> DEFINE C == {<<day[k - 1], day[k]>> : k \in 2 .. n}
  <2>1. ASSUME NEW e PROVE e \in Upto(n) <=> \E pair \in C : e \in FuelEvents(pair[1], pair[2])
    <3>1. ASSUME NEW k \in 2 .. n
          PROVE  /\ <<day[k - 1], day[k]>> \in C
                 /\ <<day[k - 1], day[k]>>[1] = day[k - 1] /\ <<day[k - 1], day[k]>>[2] = day[k]
      OBVIOUS
    <3>2. ASSUME NEW pair \in C PROVE \E k \in 2 .. n : pair[1] = day[k - 1] /\ pair[2] = day[k]
      OBVIOUS
    <3>3. e \in Upto(n) <=> \E k \in 2 .. n : e \in FuelEvents(day[k - 1], day[k])
      OBVIOUS
    <3> HIDE DEF C, Upto
    <3>4. ASSUME NEW k \in 2 .. n, e \in FuelEvents(day[k - 1], day[k])
          PROVE  \E pair \in C : e \in FuelEvents(pair[1], pair[2])
      <4> DEFINE pair == <<day[k - 1], day[k]>>
      <4>1. pair \in C /\ pair[1] = day[k - 1] /\ pair[2] = day[k]
        BY <3>1
      <4> HIDE DEF pair
      <4> QED BY <3>4, <4>1
    <3>5. ASSUME NEW pair \in C, e \in FuelEvents(pair[1], pair[2])
          PROVE  \E k \in 2 .. n : e \in FuelEvents(day[k - 1], day[k])
      BY <3>2, <3>5
    <3> QED BY <3>3, <3>4, <3>5
  <2>2. C = Consecutive(B)
    BY <1>3
  <2> HIDE DEF C, Upto
  <2> QED BY <2>1, <2>2
<1> QED
  BY <1>2, <1>6, <1>7, <1>8

-----------------------------------------------------------------------------
(* Types: what is stored and loaded is a track *)

\* The table, the job and what it wrote hold pings of the day, each minute's at most
\* once; so does the day, unless one came again after a purge.  The job has something
\* to write only while it has pings.
DayParts ==
  /\ Track(pings) /\ Track(batch) /\ Track(summed) /\ Track(scanned)
  /\ pings \cup batch \cup summed \cup scanned \subseteq ever
  /\ ~late => Track(ever)
  /\ todo # {} => batch # {}

\* A part of a track is one.
LEMMA TrackSubset == ASSUME NEW B, NEW A, Track(A), B \subseteq A PROVE Track(B)
BY FS_Subset DEF Track

\* Whatever a sensor reads, and however it is calibrated, a level is a percentage.
LEMMA FuelFromType ==
  ASSUME NEW r \in Records PROVE FuelFrom(SensorOf(r.row), r.ios) \in AtMostOne(0 .. 100)
<1> DEFINE sensor == SensorOf(r.row)
<1>1. sensor \in [io : Nat, scale : Int, offset : Int]
  BY DayAssumption DEF SensorOf, DefaultFuelSensor
<1>2. ASSUME NEW raw \in Int PROVE Percent(sensor, raw) \in 0 .. 100
  <2> DEFINE pct == raw * sensor.scale + sensor.offset
  <2>1. sensor.scale \in Int /\ sensor.offset \in Int
    BY <1>1
  <2>2. pct \in Int
    <3> HIDE DEF sensor
    <3> QED BY <2>1
  <2>3. Percent(sensor, raw) = IF pct < 0 THEN 0 ELSE IF pct > 100 THEN 100 ELSE pct
    BY DEF Percent
  <2> HIDE DEF pct
  <2> QED BY <2>2, <2>3
<1>3. CASE sensor.io # 0 /\ sensor.scale > 0 /\ sensor.io \in DOMAIN r.ios
  <2>1. r.ios[sensor.io] \in Int
    BY <1>3, DayAssumption
  <2>2. Percent(sensor, r.ios[sensor.io]) \in 0 .. 100
    BY <1>2, <2>1
  <2> QED BY <1>3, <2>2 DEF FuelFrom, AtMostOne
<1>4. CASE ~ (sensor.io # 0 /\ sensor.scale > 0 /\ sensor.io \in DOMAIN r.ios)
  BY <1>4 DEF FuelFrom, AtMostOne
<1> QED
  BY <1>3, <1>4

\* What is inserted is a ping, under a key that was free, and the newest unless it is late.
LEMMA PingInserted ==
  ASSUME DayTypeOK, DayParts, NEW ts \in Minutes, NEW speed \in AtMostOne(PingSpeeds),
         NEW fuel \in AtMostOne(0 .. 100 \cup Levels), InsertPing(ts, speed, fuel)
  PROVE  \E p \in DayPing : /\ p.ts = ts /\ pings' = pings \cup {p} /\ ever' = ever \cup {p}
                            /\ Track(pings') /\ late' \in BOOLEAN
                            /\ ~late' => /\ ~late /\ Track(ever')
                                         /\ \A q \in ever : q.ts < ts
<1> DEFINE p == [ts |-> ts, speed |-> speed, fuel |-> fuel, at |-> PlaceAt[ts]]
<1>1. /\ pings' = pings \cup {p} /\ ever' = ever \cup {p} /\ \A q \in pings : q.ts # ts
      /\ late' = (late \/ \E q \in ever : q.ts >= ts)
  BY DEF InsertPing
<1>2. p \in DayPing /\ p.ts = ts
  BY DayAssumption DEF DayPing
<1> HIDE DEF p
<1>3. late' \in BOOLEAN
  BY <1>1 DEF DayTypeOK
<1>4. Track(pings')
  <2>1. IsFiniteSet(pings \cup {p})
    BY FS_AddElement DEF DayParts, Track
  <2> QED BY <1>1, <1>2, <2>1 DEF DayParts, Track
<1>5. ASSUME ~late' PROVE ~late /\ Track(ever') /\ \A q \in ever : q.ts < ts
  <2>1. ~late /\ Track(ever) /\ \A q \in ever : ~ (q.ts >= ts)
    BY <1>1, <1>5 DEF DayParts
  <2>2. \A q \in ever : q.ts \in Nat /\ ts \in Nat /\ q.ts < ts /\ q.ts # ts
    BY <2>1, PingFields, DayAssumption DEF Track
  <2>3. IsFiniteSet(ever \cup {p})
    BY <2>1, FS_AddElement DEF Track
  <2> QED BY <1>1, <1>2, <2>1, <2>2, <2>3 DEF Track
<1> QED
  BY <1>1, <1>2, <1>3, <1>4, <1>5

\* A tracker's ping has the level its sensor shows, a relay's what was posted.
LEMMA InsertedPing ==
  ASSUME DayTypeOK, DayParts, NEW ts \in Minutes, InsertRecord(ts) \/ InsertPosted(ts)
  PROVE  /\ \E p \in DayPing : /\ p.ts = ts /\ pings' = pings \cup {p} /\ ever' = ever \cup {p}
                               /\ Track(pings') /\ late' \in BOOLEAN
                               /\ ~late' => /\ ~late /\ Track(ever')
                                            /\ \A q \in ever : q.ts < ts
         /\ UNCHANGED <<daily, events, summed, scanned, batch, todo>>
<1>1. PICK speed \in AtMostOne(PingSpeeds), fuel \in AtMostOne(0 .. 100 \cup Levels) :
        InsertPing(ts, speed, fuel)
  <2>1. \A S, T : S \subseteq T => AtMostOne(S) \subseteq AtMostOne(T)
    BY DEF AtMostOne
  <2>2. CASE InsertRecord(ts)
    <3>1. PICK r \in Records : InsertPing(ts, r.speed, FuelFrom(SensorOf(r.row), r.ios))
      BY <2>2 DEF InsertRecord
    <3>2. FuelFrom(SensorOf(r.row), r.ios) \in AtMostOne(0 .. 100 \cup Levels)
      <4>1. FuelFrom(SensorOf(r.row), r.ios) \in AtMostOne(0 .. 100)
        BY FuelFromType
      <4>2. AtMostOne(0 .. 100) \subseteq AtMostOne(0 .. 100 \cup Levels)
        BY <2>1
      <4> QED BY <4>1, <4>2
    <3>3. r.speed \in AtMostOne(PingSpeeds)
      BY DayAssumption
    <3> QED BY <3>1, <3>2, <3>3
  <2>3. CASE InsertPosted(ts)
    <3>1. PICK r \in Posted : InsertPing(ts, r.speed, r.fuel)
      BY <2>3 DEF InsertPosted
    <3>2. r.fuel \in AtMostOne(Levels) /\ r.speed \in AtMostOne(PingSpeeds)
      BY DayAssumption
    <3>3. AtMostOne(Levels) \subseteq AtMostOne(0 .. 100 \cup Levels)
      BY <2>1
    <3> QED BY <3>1, <3>2, <3>3
  <2> QED BY <2>2, <2>3
<1>2. UNCHANGED <<daily, events, summed, scanned, batch, todo>>
  BY <1>1 DEF InsertPing, reports, nightly
<1> QED
  BY <1>1, <1>2, PingInserted

\* Before the first ping, the tables and the job hold nothing.
LEMMA DayStart == DayInit => DayTypeOK /\ DayParts
<1>1. Cardinality({}) <= 1 /\ IsFiniteSet({})
  BY FS_EmptySet
<1> QED
  BY <1>1 DEF DayInit, DayTypeOK, DayParts, Track

\* No step of a gateway, of the retention or of the job disturbs this.
LEMMA DayStep ==
  ASSUME DayTypeOK, DayParts, [DayNext]_dayVars PROVE DayTypeOK' /\ DayParts'
<1>1. ASSUME NEW ts \in Minutes, InsertRecord(ts) \/ InsertPosted(ts)
      PROVE  DayTypeOK' /\ DayParts'
  <2>1. PICK p \in DayPing : /\ pings' = pings \cup {p} /\ ever' = ever \cup {p}
                             /\ Track(pings') /\ late' \in BOOLEAN /\ (~late' => Track(ever'))
    BY <1>1, InsertedPing
  <2>2. UNCHANGED <<daily, events, summed, scanned, batch, todo>>
    BY <1>1, InsertedPing
  <2>3. DayTypeOK'
    BY <2>1, <2>2 DEF DayTypeOK
  <2> QED BY <2>1, <2>2, <2>3 DEF DayParts
<1>2. ASSUME NEW cutoff \in Minutes, PurgeBefore(cutoff) PROVE DayTypeOK' /\ DayParts'
  <2>1. pings' \subseteq pings /\ UNCHANGED <<reports, nightly, ever, late>>
    BY <1>2 DEF PurgeBefore
  <2>2. Track(pings')
    BY <2>1, TrackSubset DEF DayParts
  <2> QED BY <2>1, <2>2 DEF reports, nightly, DayTypeOK, DayParts
<1>3. ASSUME PingsForDay PROVE DayTypeOK' /\ DayParts'
  BY <1>3 DEF PingsForDay, reports, DayTypeOK, DayParts
<1>8. Track({})
  BY FS_EmptySet DEF Track
<1>4. ASSUME UpsertDaily PROVE DayTypeOK' /\ DayParts'
  <2>0. daily' = {Summary(batch)}
    BY <1>4 DEF UpsertDaily
  <2>1. Cardinality(daily') <= 1
    <3>1. \A x : Cardinality({x}) = 1
      BY FS_Singleton
    <3>2. Cardinality({Summary(batch)}) <= 1
      BY <3>1
    <3> QED BY <2>0, <3>2
  <2>2. /\ (batch' = {} \/ batch' = batch) /\ todo' \subseteq todo
        /\ todo' # {} => batch' = batch /\ todo # {}
    BY <1>4 DEF UpsertDaily
  <2> QED BY <1>4, <1>8, <2>1, <2>2 DEF UpsertDaily, DayTypeOK, DayParts
<1>5. ASSUME InsertFuelEvents PROVE DayTypeOK' /\ DayParts'
  <2>1. PICK sum \in DaySum : AggregateDay(batch) = sum
    BY SortedTrack, AggregateRuns DEF DayParts
  <2>2. AggregateDay(batch).events \subseteq FuelEvent
    BY <2>1 DEF DaySum
  <2>3. events' \subseteq FuelEvent
    BY <1>5, <2>2 DEF InsertFuelEvents, DayTypeOK
  <2>4. /\ (batch' = {} \/ batch' = batch) /\ todo' \subseteq todo
        /\ todo' # {} => batch' = batch /\ todo # {}
    BY <1>5 DEF InsertFuelEvents
  <2> QED BY <1>5, <1>8, <2>3, <2>4 DEF InsertFuelEvents, DayTypeOK, DayParts
<1>6. ASSUME Abandon PROVE DayTypeOK' /\ DayParts'
  BY <1>6, <1>8 DEF Abandon, reports, DayTypeOK, DayParts
<1>7. ASSUME UNCHANGED dayVars PROVE DayTypeOK' /\ DayParts'
  BY <1>7 DEF dayVars, reports, nightly, DayTypeOK, DayParts
<1> QED
  BY <1>1, <1>2, <1>3, <1>4, <1>5, <1>6, <1>7 DEF DayNext

\* Whatever trackers and relays send, in whatever order, and wherever a run of the job is
\* cut off, the tables hold what their columns are for and a day has one row at most.  A
\* level is a percentage or what a relay posted: Percent clamps what a sensor shows, but
\* nothing checks the HTTP ingest's (InsertPing, UpsertDaily, InsertFuelEvents).
THEOREM DayTypeCorrect == DaySpec => []DayTypeOK
<1>1. DaySpec => [](DayTypeOK /\ DayParts)
  BY DayStart, DayStep, PTL DEF DaySpec
<1> QED
  BY <1>1, PTL

-----------------------------------------------------------------------------

\* A part of the track without holes.
Stretch(A, B) ==
  \A a, b \in A, c \in B : a.ts <= c.ts /\ c.ts <= b.ts => c \in A

\* The newest part of the track.
Newest(A, B) ==
  \A a \in A, c \in B : a.ts <= c.ts => c \in A

\* While pings come in order, the table has the newest part of the day, the job
\* a part of it without holes, and what was stored is what the day shows.
EventsInv ==
  ~late => /\ Newest(pings, ever) /\ Stretch(batch, ever) /\ Stretch(scanned, ever)
           /\ EventsOf(scanned) \subseteq events /\ events \subseteq EventsOf(ever)

\* What a part without holes shows, the whole track shows.
LEMMA StretchConsecutive ==
  ASSUME NEW A, NEW B, Track(B), A \subseteq B, Stretch(A, B)
  PROVE  Consecutive(A) \subseteq Consecutive(B)
<1> SUFFICES ASSUME NEW pair \in Consecutive(A), NEW c \in B PROVE c.ts <= pair[1].ts \/ pair[2].ts <= c.ts
  BY DEF Consecutive
<1>1. pair[1] \in A /\ pair[2] \in A
  BY DEF Consecutive
<1>2. pair[1].ts \in Nat /\ pair[2].ts \in Nat /\ c.ts \in Nat
  BY <1>1, PingFields DEF Track
<1> QED
  BY <1>1, <1>2 DEF Consecutive, Stretch

LEMMA StretchEvents ==
  ASSUME NEW A, NEW B, Track(B), A \subseteq B, Stretch(A, B)
  PROVE  EventsOf(A) \subseteq EventsOf(B)
<1>1. A \subseteq DayPing /\ B \subseteq DayPing
  BY DEF Track
<1>2. Consecutive(A) \subseteq Consecutive(B)
  BY StretchConsecutive
<1> QED
  BY <1>1, <1>2, EventsOfPairs

\* A track shows one refuel at most, and one drop, at a time.
LEMMA EventKey ==
  ASSUME NEW B, Track(B), NEW d \in EventsOf(B), NEW e \in EventsOf(B), d.ts = e.ts PROVE d = e
<1>1. EventsOf(B) = UNION {FuelEvents(pair[1], pair[2]) : pair \in Consecutive(B)}
  BY EventsOfPairs DEF Track
<1>2. PICK x \in Consecutive(B) : d \in FuelEvents(x[1], x[2])
  BY <1>1
<1>3. PICK y \in Consecutive(B) : e \in FuelEvents(y[1], y[2])
  BY <1>1
<1>4. /\ x[1] \in B /\ x[2] \in B /\ y[1] \in B /\ y[2] \in B
      /\ x[1] \in DayPing /\ x[2] \in DayPing
      /\ x[1].ts \in Nat /\ x[2].ts \in Nat /\ y[1].ts \in Nat /\ y[2].ts \in Nat
  BY PingFields DEF Consecutive, Track
<1>5. d.ts = x[2].ts /\ e.ts = y[2].ts
  BY <1>2, <1>3 DEF FuelEvents
<1>6. x[2] = y[2]
  BY <1>4, <1>5 DEF Track
<1>7. x[1].ts < x[2].ts /\ y[1].ts < y[2].ts /\ (y[1].ts <= x[1].ts \/ x[2].ts <= y[1].ts)
      /\ (x[1].ts <= y[1].ts \/ y[2].ts <= x[1].ts)
  BY <1>4 DEF Consecutive
<1>8. x[1] = y[1]
  BY <1>4, <1>6, <1>7 DEF Track
<1>9. d \in FuelEvents(x[1], x[2]) /\ e \in FuelEvents(x[1], x[2])
  BY <1>2, <1>3, <1>6, <1>8
<1>10. Delta(x[1], x[2]) = {} \/ \E c : Delta(x[1], x[2]) = {c}
  BY <1>4, DeltaType
<1> QED
  BY <1>9, <1>10 DEF FuelEvents

\* At first there are no events.
LEMMA EventsStart == DayInit => EventsInv
<1> SUFFICES ASSUME DayInit PROVE EventsInv
  OBVIOUS
<1>1. EventsOf({}) = {}
  <2>1. Consecutive({}) = {}
    BY DEF Consecutive
  <2> QED BY <2>1, EventsOfPairs
<1> QED
  BY <1>1 DEF DayInit, EventsInv, Newest, Stretch

\* The events of a run go in beside the stored ones without a conflict.
LEMMA EventsStored ==
  ASSUME NEW E, NEW A, NEW B, Track(B), A \subseteq B, Stretch(A, B), E \subseteq EventsOf(B)
  PROVE  LET fresh == {e \in AggregateDay(A).events : \A x \in E : x.ts # e.ts \/ x.kind # e.kind}
         IN EventsOf(A) \subseteq E \cup fresh /\ E \cup fresh \subseteq EventsOf(B)
<1>1. AggregateDay(A).events = EventsOf(A)
  BY TrackSubset, AggregateEvents
<1>2. EventsOf(A) \subseteq EventsOf(B)
  BY StretchEvents
<1>3. ASSUME NEW e \in EventsOf(A), NEW x \in E, x.ts = e.ts PROVE e = x
  BY <1>2, <1>3, EventKey
<1> QED
  BY <1>1, <1>2, <1>3

\* Each step keeps the events those of the track.
LEMMA EventsStep ==
  ASSUME DayTypeOK, DayParts, EventsInv, [DayNext]_dayVars PROVE EventsInv'
<1> SUFFICES ASSUME ~late' PROVE EventsInv'
  BY DEF EventsInv
<1>1. ASSUME NEW ts \in Minutes, InsertRecord(ts) \/ InsertPosted(ts) PROVE EventsInv'
  <2>1. PICK p \in DayPing : /\ p.ts = ts /\ pings' = pings \cup {p} /\ ever' = ever \cup {p}
                             /\ ~late /\ Track(ever') /\ \A q \in ever : q.ts < ts
    BY <1>1, InsertedPing
  <2>2. ~late
    BY <2>1
  <2>3. UNCHANGED <<events, scanned, batch>>
    BY <1>1, InsertedPing
  <2>4. \A q \in ever : q.ts \in Nat /\ q.ts < p.ts
    BY <2>1, PingFields DEF DayTypeOK
  <2>5. p.ts \in Nat
    BY PingFields
  <2>6. Newest(pings', ever')
    BY <2>1, <2>2, <2>4, <2>5 DEF Newest, EventsInv, DayParts
  <2>7. ASSUME NEW A, A \subseteq ever, Stretch(A, ever) PROVE Stretch(A, ever')
    BY <2>1, <2>4, <2>5, <2>7 DEF Stretch
  <2>8. Stretch(ever, ever')
    BY <2>1, <2>4, <2>5 DEF Stretch
  <2>9. EventsOf(ever) \subseteq EventsOf(ever')
    BY <2>1, <2>8, StretchEvents
  <2>10. Stretch(batch, ever') /\ Stretch(scanned, ever')
    BY <2>2, <2>7 DEF EventsInv, DayParts
  <2> QED BY <2>2, <2>3, <2>6, <2>9, <2>10 DEF EventsInv
<1>2. ASSUME NEW cutoff \in Minutes, PurgeBefore(cutoff) PROVE EventsInv'
  <2>1. ~late /\ UNCHANGED <<events, scanned, batch, ever, late>> /\ pings' = {p \in pings : p.ts >= cutoff}
    BY <1>2 DEF PurgeBefore, reports, nightly
  <2>2. \A q \in ever : q.ts \in Nat
    BY PingFields DEF DayTypeOK
  <2>3. Newest(pings', ever)
    BY <2>1, <2>2, DayAssumption DEF Newest, EventsInv, DayParts
  <2> QED BY <2>1, <2>3 DEF EventsInv
<1>3. ASSUME PingsForDay PROVE EventsInv'
  <2>1. ~late /\ UNCHANGED <<pings, events, scanned, ever, late>> /\ batch' = pings
    BY <1>3 DEF PingsForDay, reports
  <2>2. Stretch(pings, ever)
    BY <2>1 DEF EventsInv, Newest, Stretch
  <2> QED BY <2>1, <2>2 DEF EventsInv
<1>4. ASSUME UpsertDaily PROVE EventsInv'
  <2>1. UNCHANGED <<pings, events, scanned, ever, late>> /\ (batch' = {} \/ batch' = batch)
    BY <1>4 DEF UpsertDaily
  <2> QED BY <2>1 DEF EventsInv, Stretch
<1>5. ASSUME InsertFuelEvents PROVE EventsInv'
  <2>1. ~late /\ UNCHANGED <<pings, ever, late>> /\ (batch' = {} \/ batch' = batch) /\ scanned' = batch
    BY <1>5 DEF InsertFuelEvents
  <2>2. events' = events \cup {e \in AggregateDay(batch).events :
                                 \A x \in events : x.ts # e.ts \/ x.kind # e.kind}
    BY <1>5 DEF InsertFuelEvents
  <2>3. Stretch(batch', ever) /\ Stretch(batch, ever) /\ Track(ever) /\ batch \subseteq ever
    BY <2>1 DEF EventsInv, DayParts, Stretch
  <2>4. EventsOf(batch) \subseteq events' /\ events' \subseteq EventsOf(ever)
    BY <2>1, <2>2, <2>3, EventsStored DEF EventsInv
  <2> QED BY <2>1, <2>3, <2>4 DEF EventsInv
<1>6. ASSUME Abandon PROVE EventsInv'
  BY <1>6 DEF Abandon, reports, EventsInv, Stretch
<1>7. ASSUME UNCHANGED dayVars PROVE EventsInv'
  BY <1>7 DEF dayVars, reports, nightly, EventsInv
<1> QED
  BY <1>1, <1>2, <1>3, <1>4, <1>5, <1>6, <1>7 DEF DayNext

\* While pings come in order, the stored fuel events are those between
\* consecutive pings of the day: no run, repeated, abandoned or after a purge,
\* adds one twice, and none of the pings last looked at is missing
\* (AggregateDay and the ON CONFLICT of InsertFuelEvents).
THEOREM EventsMatch == DaySpec => []EventsMatchTrack
<1>1. DaySpec => [](DayTypeOK /\ DayParts /\ EventsInv)
  BY DayStart, DayStep, EventsStart, EventsStep, PTL DEF DaySpec
<1>2. EventsInv => EventsMatchTrack
  BY DEF EventsInv, EventsMatchTrack
<1> QED
  BY <1>1, <1>2, PTL

-----------------------------------------------------------------------------
(* Sums over the pairs of consecutive pings *)

\* One round of the fold of F over the subsets of S.
SumRound(F, S, g) ==
  [s \in SUBSET S |-> IF s = {} THEN 0 ELSE LET x == CHOOSE x \in s : TRUE IN F[x] + g[s \ {x}]]

\* g has the sums over all subsets of S.
Sums(F, S, g) == g \in [SUBSET S -> Int] /\ g = SumRound(F, S, g)

\* A round adds some element to the sum of the others.
LEMMA SumRoundAt ==
  ASSUME NEW S, NEW F, NEW g, NEW s \in SUBSET S, NEW z \in s
  PROVE  \E x \in s : SumRound(F, S, g)[s] = F[x] + g[s \ {x}]
<1> DEFINE x == CHOOSE y \in s : TRUE
<1>1. x \in s
  OBVIOUS
<1>2. SumRound(F, S, g)[s] = F[x] + g[s \ {x}]
  BY DEF SumRound
<1> HIDE DEF x
<1> QED
  BY <1>1, <1>2

\* Sums of integers are integers.
LEMMA SumRoundType ==
  ASSUME NEW S, NEW F \in [S -> Int], NEW g \in [SUBSET S -> Int]
  PROVE  SumRound(F, S, g) \in [SUBSET S -> Int]
<1>1. ASSUME NEW s \in SUBSET S PROVE SumRound(F, S, g)[s] \in Int
  <2>1. CASE s = {}
    BY <2>1 DEF SumRound
  <2>2. CASE s # {}
    <3>0. PICK z \in s : TRUE
      BY <2>2
    <3>1. PICK x \in s : SumRound(F, S, g)[s] = F[x] + g[s \ {x}]
      BY SumRoundAt
    <3>2. F[x] \in Int /\ g[s \ {x}] \in Int
      OBVIOUS
    <3> QED BY <3>1, <3>2
  <2> QED BY <2>1, <2>2
<1>2. SumRound(F, S, g) = [s \in SUBSET S |-> SumRound(F, S, g)[s]]
  BY DEF SumRound
<1> QED
  BY <1>1, <1>2

\* The fold is defined.
LEMMA SumExists ==
  ASSUME NEW S, IsFiniteSet(S), NEW F \in [S -> Int]
  PROVE  \E g \in [SUBSET S -> Int] : g = SumRound(F, S, g)
<1> DEFINE n == Cardinality(S)
           G == [SUBSET S -> Int]
           c == [s \in SUBSET S |-> 0]
           Step == [x \in G \X (1 .. n) |-> SumRound(F, S, x[1])]
<1>1. n \in Nat /\ \A s \in SUBSET S : IsFiniteSet(s) /\ Cardinality(s) \in 0 .. n
  BY FS_CardinalityType, FS_Subset
<1>2. c \in G /\ Step \in [G \X (1 .. n) -> G]
  <2>1. \A g \in G : SumRound(F, S, g) \in G
    BY SumRoundType
  <2>2. c \in G
    OBVIOUS
  <2> HIDE DEF G, c
  <2>3. Step \in [G \X (1 .. n) -> G]
    <3> SUFFICES \A g \in G, i \in 1 .. n : SumRound(F, S, g) \in G
      OBVIOUS
    <3> QED BY <2>1
  <2> QED BY <2>2, <2>3
<1> HIDE DEF n
<1>3. PICK run : Solution(run, G, c, n, Step)
  <2> HIDE DEF G, c, Step
  <2> QED BY <1>1, <1>2, RecursionUpTo
<1>4. run \in [0 .. n -> G] /\ run[0] = c
  BY <1>3 DEF Solution
<1>5. \A i \in 1 .. n : run[i] = SumRound(F, S, run[i - 1])
  <2> SUFFICES ASSUME NEW i \in 1 .. n PROVE run[i] = SumRound(F, S, run[i - 1])
    OBVIOUS
  <2> HIDE DEF G
  <2>1. i - 1 \in 0 .. n /\ <<run[i - 1], i>> \in G \X (1 .. n)
    BY <1>1, <1>4
  <2>2. run[i] = Step[<<run[i - 1], i>>]
    BY <1>3 DEF Solution
  <2> QED BY <2>1, <2>2
<1> DEFINE Settled == {i \in 0 .. n :
                         \A s \in SUBSET S : Cardinality(s) <= i => run[i][s] = SumRound(F, S, run[i])[s]}
<1>6. 0 \in Settled
  <2> SUFFICES ASSUME NEW s \in SUBSET S, Cardinality(s) <= 0 PROVE run[0][s] = SumRound(F, S, run[0])[s]
    BY <1>1
  <2>1. s = {}
    BY <1>1, FS_EmptySet
  <2>2. run[0][s] = 0
    BY <1>4
  <2> QED BY <2>1, <2>2 DEF SumRound
<1>7. ASSUME NEW i \in 1 .. n, i - 1 \in Settled PROVE i \in Settled
  <2>0. i \in 0 .. n /\ i - 1 \in 0 .. n
    BY <1>1
  <2> SUFFICES ASSUME NEW s \in SUBSET S, Cardinality(s) <= i PROVE run[i][s] = SumRound(F, S, run[i])[s]
    BY <2>0
  <2> DEFINE f == run[i - 1]
             g == run[i]
  <2>1. g = SumRound(F, S, f)
    BY <1>5
  <2>2. CASE s = {}
    BY <2>1, <2>2 DEF SumRound
  <2>3. CASE s # {}
    <3> DEFINE x == CHOOSE y \in s : TRUE
    <3>1. x \in s /\ SumRound(F, S, f)[s] = F[x] + f[s \ {x}] /\ SumRound(F, S, g)[s] = F[x] + g[s \ {x}]
      BY <2>3 DEF SumRound
    <3> HIDE DEF x
    <3>2. s \ {x} \in SUBSET S /\ Cardinality(s \ {x}) <= i - 1
      BY <1>1, <3>1, FS_RemoveElement
    <3>3. f[s \ {x}] = SumRound(F, S, f)[s \ {x}]
      BY <1>7, <3>2
    <3> HIDE DEF f, g
    <3>4. f[s \ {x}] = g[s \ {x}]
      BY <2>1, <3>3
    <3>5. g[s] = SumRound(F, S, g)[s]
      BY <2>1, <3>1, <3>4
    <3> QED BY <3>5 DEF g
  <2> QED BY <2>2, <2>3
<1>8. n \in Settled
  <2> HIDE DEF Settled
  <2>1. \A i \in 0 .. n : i \in Settled
    BY <1>1, <1>6, <1>7, UpTo
  <2> QED BY <1>1, <2>1
<1>9. run[n] = SumRound(F, S, run[n])
  <2>1. \A s \in SUBSET S : run[n][s] = SumRound(F, S, run[n])[s]
    BY <1>1, <1>8
  <2>2. run[n] \in G
    BY <1>1, <1>4
  <2>3. SumRound(F, S, run[n]) \in G
    BY <2>2, SumRoundType
  <2>4. /\ run[n] = [s \in SUBSET S |-> run[n][s]]
        /\ SumRound(F, S, run[n]) = [s \in SUBSET S |-> SumRound(F, S, run[n])[s]]
    BY <2>2, <2>3
  <2> QED BY <2>1, <2>4
<1>10. run[n] \in G
  BY <1>1, <1>4
<1> DEFINE g == run[n]
<1>11. g \in [SUBSET S -> Int] /\ g = SumRound(F, S, g)
  BY <1>9, <1>10
<1> HIDE DEF g
<1> QED
  BY <1>11

\* So are the sums of a fold.
LEMMA SumType ==
  ASSUME NEW S, IsFiniteSet(S), NEW F \in [S -> Int], NEW g, g = SumRound(F, S, g)
  PROVE  g \in [SUBSET S -> Int]
<1> DEFINE n == Cardinality(S)
           Done == {k \in 0 .. n : \A t \in SUBSET S : Cardinality(t) = k => g[t] \in Int}
<1>1. n \in Nat /\ \A t \in SUBSET S : IsFiniteSet(t) /\ Cardinality(t) \in 0 .. n
  BY FS_CardinalityType, FS_Subset
<1> HIDE DEF n
<1>2. 0 \in Done
  <2> SUFFICES ASSUME NEW t \in SUBSET S, Cardinality(t) = 0 PROVE g[t] \in Int
    BY <1>1
  <2>1. t = {}
    BY <1>1, FS_EmptySet
  <2>2. SumRound(F, S, g)[t] = 0
    BY <2>1 DEF SumRound
  <2> QED BY <2>2
<1>3. ASSUME NEW k \in 1 .. n, k - 1 \in Done PROVE k \in Done
  <2> SUFFICES ASSUME NEW t \in SUBSET S, Cardinality(t) = k PROVE g[t] \in Int
    BY <1>1
  <2>1. PICK y \in t : TRUE
    BY <1>1, FS_EmptySet
  <2>2. PICK z \in t : SumRound(F, S, g)[t] = F[z] + g[t \ {z}]
    BY SumRoundAt
  <2>3. Cardinality(t \ {z}) = k - 1
    BY <1>1, FS_RemoveElement
  <2>4. g[t \ {z}] \in Int
    BY <1>3, <2>3
  <2>5. F[z] \in Int
    OBVIOUS
  <2>6. g[t] = F[z] + g[t \ {z}]
    BY <2>2
  <2> QED BY <2>4, <2>5, <2>6
<1>4. \A t \in SUBSET S : g[t] \in Int
  <2> HIDE DEF Done
  <2>1. \A k \in 0 .. n : k \in Done
    BY <1>1, <1>2, <1>3, UpTo
  <2> QED BY <1>1, <2>1 DEF Done
<1>5. g = [t \in SUBSET S |-> g[t]]
  <2>1. DOMAIN SumRound(F, S, g) = SUBSET S /\ SumRound(F, S, g) = [t \in SUBSET S |-> SumRound(F, S, g)[t]]
    BY DEF SumRound
  <2> QED BY <2>1
<1> QED
  BY <1>4, <1>5

\* In whatever order the fold goes, each element counts once.
LEMMA SumAdd ==
  ASSUME NEW S, IsFiniteSet(S), NEW F \in [S -> Int], NEW g, Sums(F, S, g), NEW s \in SUBSET S, NEW x \in s
  PROVE  g[s] = F[x] + g[s \ {x}]
<1> USE DEF Sums
<1> DEFINE n == Cardinality(S)
           Right(t, y) == g[t] = F[y] + g[t \ {y}]
           Done == {k \in 0 .. n : \A t \in SUBSET S : Cardinality(t) = k => \A y \in t : Right(t, y)}
<1>1. n \in Nat /\ \A t \in SUBSET S : IsFiniteSet(t) /\ Cardinality(t) \in 0 .. n
  BY FS_CardinalityType, FS_Subset
<1> HIDE DEF n
<1>2. 0 \in Done
  BY <1>1, FS_EmptySet
<1>3. ASSUME NEW k \in 1 .. n, k - 1 \in Done PROVE k \in Done
  <2> SUFFICES ASSUME NEW t \in SUBSET S, Cardinality(t) = k, NEW y \in t PROVE g[t] = F[y] + g[t \ {y}]
    BY <1>1
  <2>1. PICK z \in t : g[t] = F[z] + g[t \ {z}]
    <3>1. \E z \in t : SumRound(F, S, g)[t] = F[z] + g[t \ {z}]
      BY SumRoundAt
    <3> QED BY <3>1
  <2>2. CASE y = z
    BY <2>1, <2>2
  <2>3. CASE y # z
    <3>1. Cardinality(t \ {z}) = k - 1 /\ Cardinality(t \ {y}) = k - 1
      BY <1>1, FS_RemoveElement
    <3>2. g[t \ {z}] = F[y] + g[(t \ {z}) \ {y}]
      BY <1>3, <2>3, <3>1
    <3>3. g[t \ {y}] = F[z] + g[(t \ {y}) \ {z}]
      BY <1>3, <2>3, <3>1
    <3>4. (t \ {z}) \ {y} = (t \ {y}) \ {z}
      OBVIOUS
    <3> DEFINE rest == (t \ {y}) \ {z}
               ty == t \ {y}
               tz == t \ {z}
    <3>5. F[y] \in Int /\ F[z] \in Int /\ g[rest] \in Int
      OBVIOUS
    <3>6. g[t] = F[z] + g[tz] /\ g[tz] = F[y] + g[rest] /\ g[ty] = F[z] + g[rest]
      BY <2>1, <3>2, <3>3, <3>4
    <3> HIDE DEF rest, ty, tz
    <3>7. g[t] = F[y] + g[ty]
      BY <3>5, <3>6
    <3> QED BY <3>7 DEF ty
  <2> QED BY <2>2, <2>3
<1>4. Cardinality(s) \in Done
  <2> HIDE DEF Done
  <2>1. \A k \in 0 .. n : k \in Done
    BY <1>1, <1>2, <1>3, UpTo
  <2> QED BY <1>1, <2>1
<1> QED
  BY <1>4

\* A counter goes through the items of S, each once, and adds what F says of it.
Tally(S, item, lo, hi, F, counter) ==
  /\ lo \in Nat /\ hi \in Nat /\ lo <= hi
  /\ S = {item[k] : k \in lo + 1 .. hi}
  /\ \A j, k \in lo + 1 .. hi : item[j] = item[k] => j = k
  /\ F \in [S -> Int]
  /\ \A k \in lo .. hi : counter[k] \in Int
  /\ \A k \in lo + 1 .. hi : counter[k] = counter[k - 1] + F[item[k]]

\* What a counter has gained is the sum.
LEMMA SumAlong ==
  ASSUME NEW S, NEW item, NEW lo, NEW hi, NEW F, NEW counter, Tally(S, item, lo, hi, F, counter),
         NEW g, Sums(F, S, g)
  PROVE  g[S] = counter[hi] - counter[lo]
<1> USE DEF Tally, Sums
<1> DEFINE First(i) == {item[k] : k \in lo + 1 .. lo + i}
           n == hi - lo
           Right == {i \in 0 .. n : g[First(i)] = counter[lo + i] - counter[lo]}
<1>1. IsFiniteSet(S)
  <2> DEFINE I == lo + 1 .. hi
             f == [k \in I |-> item[k]]
  <2>1. IsFiniteSet(I)
    <3>1. lo + 1 \in Int /\ hi \in Int
      OBVIOUS
    <3> QED BY <3>1, FS_Interval
  <2>2. f \in Surjection(I, S)
    <3>1. f \in [I -> S] /\ \A t \in S : \E k \in I : f[k] = t
      OBVIOUS
    <3> HIDE DEF I, f
    <3> QED BY <3>1, Fun_IsSurj
  <2> HIDE DEF I, f
  <2> QED BY <2>1, <2>2, FS_Surjection
<1>2. 0 \in Right
  <2>1. First(0) = {}
    OBVIOUS
  <2>2. g[{}] = 0
    <3>1. SumRound(F, S, g)[{}] = 0
      BY DEF SumRound
    <3> QED BY <3>1
  <2>3. g[First(0)] = 0
    BY <2>1, <2>2
  <2> HIDE DEF First
  <2>4. counter[lo + 0] = counter[lo] /\ counter[lo] \in Int
    OBVIOUS
  <2> QED BY <2>3, <2>4
<1>3. ASSUME NEW i \in 1 .. n, i - 1 \in Right PROVE i \in Right
  <2> DEFINE x == item[lo + i]
  <2>1. lo + i \in lo + 1 .. hi /\ lo + (i - 1) \in lo .. hi /\ x \in First(i) /\ First(i) \in SUBSET S
    OBVIOUS
  <2>2. First(i) \ {x} = First(i - 1)
    OBVIOUS
  <2> HIDE DEF First, x
  <2>3. g[First(i)] = F[x] + g[First(i - 1)]
    <3> DEFINE s == First(i)
    <3>1. s \in SUBSET S /\ x \in s
      BY <2>1
    <3> HIDE DEF s
    <3>2. F \in [S -> Int] /\ Sums(F, S, g)
      OBVIOUS
    <3>3. g[s] = F[x] + g[s \ {x}]
      <4> HIDE DEF Tally, Sums
      <4> QED BY <1>1, <3>1, <3>2, SumAdd
    <3> QED BY <2>2, <3>3 DEF s
  <2>4. counter[lo + i] = counter[lo + (i - 1)] + F[x]
    BY <2>1 DEF x
  <2>5. F[x] \in Int /\ g[First(i - 1)] = counter[lo + (i - 1)] - counter[lo]
    BY <1>3, <2>1
  <2>6. counter[lo] \in Int /\ counter[lo + (i - 1)] \in Int /\ counter[lo + i] \in Int
    BY <2>1
  <2> QED BY <2>3, <2>4, <2>5, <2>6
<1>4. g[First(n)] = counter[lo + n] - counter[lo]
  <2>1. n \in Nat
    OBVIOUS
  <2> HIDE DEF Right, n
  <2>2. \A i \in 0 .. n : i \in Right
    BY <1>2, <1>3, <2>1, UpTo
  <2>3. n \in Right
    BY <2>1, <2>2
  <2> HIDE DEF First
  <2> QED BY <2>3 DEF Right
<1>5. First(n) = S /\ lo + n = hi
  OBVIOUS
<1> QED
  BY <1>4, <1>5

\* SumOver of the distances is such a sum ...
LEMMA DistanceSum ==
  ASSUME NEW S, IsFiniteSet(S), S \subseteq DayPing \X DayPing
  PROVE  \E g : Sums([pair \in S |-> Distance(pair[1], pair[2])], S, g) /\ SumOver(S, Distance) = g[S]
<1> DEFINE F == [pair \in S |-> Distance(pair[1], pair[2])]
           Iter(g) == [s \in SUBSET S |-> IF s = {} THEN 0
                                          ELSE LET x == CHOOSE x \in s : TRUE IN Distance(x[1], x[2]) + g[s \ {x}]]
           iter == CHOOSE g : g = Iter(g)
<1>1. F \in [S -> Int]
  BY PingFields DEF Distance
<1>2. \A g : Iter(g) = SumRound(F, S, g)
  BY DEF SumRound
<1>3. PICK g0 \in [SUBSET S -> Int] : g0 = SumRound(F, S, g0)
  BY <1>1, SumExists
<1>4. iter = SumRound(F, S, iter)
  <2> HIDE DEF Iter
  <2> QED BY <1>2, <1>3
<1>5. SumOver(S, Distance) = iter[S]
  BY DEF SumOver, MapThenSumSet, MapThenFoldSet
<1> HIDE DEF iter
<1>6. iter \in [SUBSET S -> Int]
  BY <1>1, <1>4, SumType
<1> QED
  BY <1>4, <1>5, <1>6 DEF Sums

\* ... and so is that of the minutes that count ...
LEMMA CountedSum ==
  ASSUME NEW S, IsFiniteSet(S), S \subseteq DayPing \X DayPing
  PROVE  \E g : Sums([pair \in S |-> Counted(pair[1], pair[2])], S, g) /\ SumOver(S, Counted) = g[S]
<1> DEFINE F == [pair \in S |-> Counted(pair[1], pair[2])]
           Iter(g) == [s \in SUBSET S |-> IF s = {} THEN 0
                                          ELSE LET x == CHOOSE x \in s : TRUE IN Counted(x[1], x[2]) + g[s \ {x}]]
           iter == CHOOSE g : g = Iter(g)
<1>1. F \in [S -> Int]
  BY PingFields DEF Counted
<1>2. \A g : Iter(g) = SumRound(F, S, g)
  BY DEF SumRound
<1>3. PICK g0 \in [SUBSET S -> Int] : g0 = SumRound(F, S, g0)
  BY <1>1, SumExists
<1>4. iter = SumRound(F, S, iter)
  <2> HIDE DEF Iter
  <2> QED BY <1>2, <1>3
<1>5. SumOver(S, Counted) = iter[S]
  BY DEF SumOver, MapThenSumSet, MapThenFoldSet
<1> HIDE DEF iter
<1>6. iter \in [SUBSET S -> Int]
  BY <1>1, <1>4, SumType
<1> QED
  BY <1>4, <1>5, <1>6 DEF Sums

\* The fuel used between two pings, by the code and by the levels.
LEMMA FallUsed ==
  ASSUME NEW q \in DayPing, NEW p \in DayPing
  PROVE  Fall(q, p) = Total({-d : d \in {x \in Delta(q, p) : x < 0}})
<1> DEFINE falls == {x - y : x \in q.fuel, y \in {y \in p.fuel : y < Total(q.fuel)}}
           used == {-d : d \in {x \in Delta(q, p) : x < 0}}
<1>0. Fall(q, p) = Total(falls)
  BY DEF Fall
<1>1. CASE q.fuel = {} \/ p.fuel = {}
  <2>1. falls = {} /\ used = {}
    BY <1>1 DEF Delta
  <2> HIDE DEF falls, used
  <2>2. Fall(q, p) = Total(used)
    BY <1>0, <2>1
  <2> QED BY <2>2 DEF used
<1>2. CASE ~ (q.fuel = {} \/ p.fuel = {})
  <2>1. PICK x \in Int, y \in Int : q.fuel = {x} /\ p.fuel = {y}
    BY <1>2, PingFields DEF AtMostOne
  <2>2. Total(q.fuel) = x
    BY <2>1, TotalOne
  <2>3. Delta(q, p) = {y - x}
    BY <2>1 DEF Delta
  <2>4. CASE y < x
    <3>1. falls = {x - y}
      BY <2>1, <2>2, <2>4
    <3>2. used = {x - y}
      <4>1. {z \in Delta(q, p) : z < 0} = {y - x}
        BY <2>3, <2>4
      <4>2. -(y - x) = x - y
        OBVIOUS
      <4>3. \A d : d \in {z \in Delta(q, p) : z < 0} <=> d = y - x
        BY <4>1
      <4> QED BY <4>2, <4>3
    <3> HIDE DEF falls, used
    <3>3. Fall(q, p) = Total(used)
      BY <1>0, <3>1, <3>2
    <3> QED BY <3>3 DEF used
  <2>5. CASE ~ (y < x)
    <3>1. falls = {}
      BY <2>1, <2>2, <2>5
    <3>2. used = {}
      BY <2>3, <2>5
    <3> HIDE DEF falls, used
    <3>3. Fall(q, p) = Total(used)
      BY <1>0, <3>1, <3>2
    <3> QED BY <3>3 DEF used
  <2> QED BY <2>4, <2>5
<1> QED
  BY <1>1, <1>2

\* ... and that of the falls of the tank.
LEMMA FallSum ==
  ASSUME NEW S, IsFiniteSet(S), S \subseteq DayPing \X DayPing
  PROVE  \E g : Sums([pair \in S |-> Fall(pair[1], pair[2])], S, g) /\ SumOver(S, Fall) = g[S]
<1> DEFINE F == [pair \in S |-> Fall(pair[1], pair[2])]
           Iter(g) == [s \in SUBSET S |-> IF s = {} THEN 0
                                          ELSE LET x == CHOOSE x \in s : TRUE IN Fall(x[1], x[2]) + g[s \ {x}]]
           iter == CHOOSE g : g = Iter(g)
<1>1. F \in [S -> Int]
  <2>1. \A pair \in S : Fall(pair[1], pair[2]) \in Int
    <3> TAKE pair \in S
    <3>1. pair[1] \in DayPing /\ pair[2] \in DayPing
      OBVIOUS
    <3>2. Fall(pair[1], pair[2]) \in Nat
      BY <3>1, FallUsed, UsedType
    <3> QED BY <3>2
  <2> QED BY <2>1
<1>2. \A g : Iter(g) = SumRound(F, S, g)
  BY DEF SumRound
<1>3. PICK g0 \in [SUBSET S -> Int] : g0 = SumRound(F, S, g0)
  BY <1>1, SumExists
<1>4. iter = SumRound(F, S, iter)
  <2> HIDE DEF Iter
  <2> QED BY <1>2, <1>3
<1>5. SumOver(S, Fall) = iter[S]
  BY DEF SumOver, MapThenSumSet, MapThenFoldSet
<1> HIDE DEF iter
<1>6. iter \in [SUBSET S -> Int]
  BY <1>1, <1>4, SumType
<1> QED
  BY <1>4, <1>5, <1>6 DEF Sums

\* A counter that goes up by F from ping to ping ends at the sum over the pairs.
LEMMA CounterSum ==
  ASSUME NEW B, Track(B), B # {},
         NEW F \in [Consecutive(B) -> Int], NEW g, Sums(F, Consecutive(B), g),
         NEW counter, \A k \in 1 .. Cardinality(B) : counter[k] \in Int, counter[1] = 0,
         \A k \in 2 .. Cardinality(B) : counter[k] = counter[k - 1] + F[<<Sorted(B)[k - 1], Sorted(B)[k]>>]
  PROVE  counter[Cardinality(B)] = g[Consecutive(B)]
<1> DEFINE n == Cardinality(B)
           day == Sorted(B)
           item == [k \in 2 .. n |-> <<day[k - 1], day[k]>>]
           S == Consecutive(B)
<1>1. /\ n \in Nat /\ n # 0 /\ day \in [1 .. n -> B]
      /\ \A i, j \in 1 .. n : i < j => day[i].ts < day[j].ts
  BY SortedTrack, FS_EmptySet DEF Track
<1>2. S = {item[k] : k \in 2 .. n}
  BY ConsecutiveSorted
<1>3. \A k \in 2 .. n : counter[k] = counter[k - 1] + F[item[k]]
  OBVIOUS
<1>4. \A j, k \in 2 .. n : item[j] = item[k] => j = k
  <2> HIDE DEF n, day
  <2> SUFFICES ASSUME NEW j \in 2 .. n, NEW k \in 2 .. n, item[j] = item[k] PROVE j = k
    OBVIOUS
  <2>1. day[j] = day[k] /\ j \in 1 .. n /\ k \in 1 .. n
    BY <1>1
  <2>2. day[j].ts \in Nat
    BY <1>1, <2>1, PingFields DEF Track
  <2> QED BY <1>1, <2>1, <2>2
<1>5. \A k \in 1 .. n : counter[k] \in Int
  OBVIOUS
<1> HIDE DEF n, day, item, S
<1> DEFINE lo == 1
<1>6. lo \in Nat /\ lo <= n /\ lo + 1 = 2
  BY <1>1
<1>7. g[S] = counter[n] - counter[lo]
  <2>1. \A k \in lo .. n : counter[k] \in Int
    BY <1>5
  <2> HIDE DEF lo
  <2>2. /\ S = {item[k] : k \in lo + 1 .. n}
        /\ \A j, k \in lo + 1 .. n : item[j] = item[k] => j = k
        /\ \A k \in lo + 1 .. n : counter[k] = counter[k - 1] + F[item[k]]
    BY <1>2, <1>3, <1>4, <1>6
  <2>3. F \in [S -> Int] /\ Sums(F, S, g)
    BY DEF S
  <2>4. Tally(S, item, lo, n, F, counter)
    BY <1>1, <1>6, <2>1, <2>2, <2>3 DEF Tally
  <2> HIDE DEF item
  <2> QED BY <2>3, <2>4, SumAlong
<1>8. counter[n] \in Int
  BY <1>1, <1>5
<1> QED
  BY <1>7, <1>8 DEF n, S

-----------------------------------------------------------------------------
(* The row: what a run adds up *)

\* What a ping by itself, and with the one before, adds to the sums.
LEMMA CountFields ==
  ASSUME NEW sum \in DaySum, NEW p \in DayPing
  PROVE  LET c == Count(sum, p)
         IN /\ c.distance = sum.distance /\ c.moving = sum.moving /\ c.idle = sum.idle /\ c.used = sum.used
            /\ c.max = IF \E v \in p.speed : v > sum.max THEN Total(p.speed) ELSE sum.max
            /\ c.fuel = (sum.fuel \/ p.fuel # {})
BY DEF Count, DaySum

LEMMA BetweenFields ==
  ASSUME NEW sum \in DaySum, NEW q \in DayPing, NEW p \in DayPing
  PROVE  LET b == Between(sum, q, p)
             gap == Capped(Gap(q, p))
         IN /\ b.distance = sum.distance + Distance(q, p)
            /\ b.moving = sum.moving + (IF Moving(q, p) THEN gap ELSE 0)
            /\ b.idle = sum.idle + (IF Moving(q, p) THEN 0 ELSE gap)
            /\ b.used = sum.used + Fall(q, p)
            /\ b.max = sum.max /\ b.fuel = sum.fuel
<1>1. Fall(q, p) = Total({-d : d \in {x \in Delta(q, p) : x < 0}})
  BY FallUsed
<1> DEFINE used == Total({-d : d \in {x \in Delta(q, p) : x < 0}})
           km == sum.distance + Distance(q, p)
           m == sum.moving + (IF Moving(q, p) THEN Capped(Gap(q, p)) ELSE 0)
           i == sum.idle + (IF Moving(q, p) THEN 0 ELSE Capped(Gap(q, p)))
           u == sum.used + used
           e == sum.events \cup FuelEvents(q, p)
<1>2. Between(sum, q, p) = [sum EXCEPT !.distance = km, !.moving = m, !.idle = i, !.used = u, !.events = e]
  BY DEF Between
<1>3. u = sum.used + Fall(q, p)
  BY <1>1
<1> HIDE DEF used, u, e
<1> QED
  BY <1>2, <1>3 DEF DaySum

\* The sums that a run goes through.
AggregateRun(B, sum) ==
  /\ sum \in [0 .. Cardinality(B) -> DaySum] /\ sum[0] = Zero
  /\ \A k \in 1 .. Cardinality(B) : sum[k] = AddPing(Sorted(B), k, sum[k - 1])

\* What the i-th ping adds to them.
Advance(day, sum, i) ==
  /\ sum[i].max = IF \E v \in day[i].speed : v > sum[i - 1].max THEN Total(day[i].speed) ELSE sum[i - 1].max
  /\ sum[i].fuel = (sum[i - 1].fuel \/ day[i].fuel # {})
  /\ i = 1 => sum[i].distance = 0 /\ sum[i].moving = 0 /\ sum[i].idle = 0 /\ sum[i].used = 0
  /\ i # 1 => /\ sum[i].distance = sum[i - 1].distance + Distance(day[i - 1], day[i])
              /\ sum[i].moving = sum[i - 1].moving
                   + (IF Moving(day[i - 1], day[i]) THEN Counted(day[i - 1], day[i]) ELSE 0)
              /\ sum[i].idle = sum[i - 1].idle
                   + (IF Moving(day[i - 1], day[i]) THEN 0 ELSE Counted(day[i - 1], day[i]))
              /\ sum[i].used = sum[i - 1].used + Fall(day[i - 1], day[i])
              /\ Counted(day[i - 1], day[i]) \in Nat \ {0}

\* Each ping adds what Advance says.
LEMMA RunSteps ==
  ASSUME NEW B, Track(B), NEW sum, AggregateRun(B, sum), NEW i \in 1 .. Cardinality(B)
  PROVE  Advance(Sorted(B), sum, i)
<1> DEFINE n == Cardinality(B)
           day == Sorted(B)
           c == Count(sum[i - 1], day[i])
<1>1. /\ n \in Nat /\ day \in [1 .. n -> B]
      /\ \A j, k \in 1 .. n : j < k => day[j].ts < day[k].ts
  BY SortedTrack
<1> HIDE DEF n, day
<1>2. i \in 1 .. n /\ sum[i] = AddPing(day, i, sum[i - 1]) /\ sum \in [0 .. n -> DaySum] /\ sum[0] = Zero
  BY DEF n, day, AggregateRun
<1>3. sum[i - 1] \in DaySum /\ day[i] \in DayPing /\ (i = 1 => sum[i - 1] = Zero)
  BY <1>1, <1>2 DEF Track, n
<1>4. /\ c \in DaySum
      /\ c.distance = sum[i - 1].distance /\ c.moving = sum[i - 1].moving /\ c.idle = sum[i - 1].idle
      /\ c.used = sum[i - 1].used
      /\ c.max = IF \E v \in day[i].speed : v > sum[i - 1].max THEN Total(day[i].speed) ELSE sum[i - 1].max
      /\ c.fuel = (sum[i - 1].fuel \/ day[i].fuel # {})
  BY <1>3, CountType, CountFields
<1>5. CASE i = 1
  <2>1. sum[i] = c
    BY <1>2, <1>5 DEF AddPing
  <2>2. sum[i - 1].distance = 0 /\ sum[i - 1].moving = 0 /\ sum[i - 1].idle = 0 /\ sum[i - 1].used = 0
    BY <1>3, <1>5 DEF Zero
  <2> HIDE DEF c
  <2> QED BY <1>4, <1>5, <2>1, <2>2 DEF day, Advance
<1>6. CASE i # 1
  <2> DEFINE q == day[i - 1]
             p == day[i]
  <2>1. q \in DayPing /\ p \in DayPing /\ q.ts < p.ts
    BY <1>1, <1>2, <1>6 DEF Track
  <2>2. sum[i] = Between(c, q, p)
    BY <1>2, <1>6 DEF AddPing
  <2>3. q.ts \in Nat /\ p.ts \in Nat
    BY <2>1, PingFields
  <2> HIDE DEF c, q, p
  <2>4. Capped(Gap(q, p)) = Counted(q, p) /\ Counted(q, p) \in Nat \ {0}
    BY <2>1, <2>3 DEF Capped, Gap, GapCap, Counted
  <2>5. /\ sum[i].distance = c.distance + Distance(q, p)
        /\ sum[i].moving = c.moving + (IF Moving(q, p) THEN Counted(q, p) ELSE 0)
        /\ sum[i].idle = c.idle + (IF Moving(q, p) THEN 0 ELSE Counted(q, p))
        /\ sum[i].used = c.used + Fall(q, p)
        /\ sum[i].max = c.max /\ sum[i].fuel = c.fuel
    BY <1>4, <2>1, <2>2, <2>4, BetweenFields
  <2> QED BY <1>4, <1>6, <2>4, <2>5 DEF q, p, day, Advance
<1> QED
  BY <1>5, <1>6

\* Minutes in motion and the two maxima, after the first i pings.
LEMMA RunShows ==
  ASSUME NEW B, Track(B), NEW sum, AggregateRun(B, sum)
  PROVE  LET day == Sorted(B)
             n   == Cardinality(B)
         IN /\ sum[n].moving >= 0
            /\ sum[n].moving > 0 <=> \E k \in 2 .. n : Moving(day[k - 1], day[k])
            /\ sum[n].max = 0 \/ \E k \in 1 .. n : sum[n].max \in day[k].speed
            /\ \A k \in 1 .. n : \A w \in day[k].speed : w <= sum[n].max
            /\ sum[n].fuel <=> \E k \in 1 .. n : day[k].fuel # {}
<1> DEFINE n == Cardinality(B)
           day == Sorted(B)
           Shown(i) == /\ sum[i].moving >= 0
                       /\ sum[i].moving > 0 <=> \E k \in 2 .. i : Moving(day[k - 1], day[k])
                       /\ sum[i].max = 0 \/ \E k \in 1 .. i : sum[i].max \in day[k].speed
                       /\ \A k \in 1 .. i : \A w \in day[k].speed : w <= sum[i].max
                       /\ sum[i].fuel <=> \E k \in 1 .. i : day[k].fuel # {}
           S == {i \in 0 .. n : Shown(i)}
<1>1. n \in Nat /\ day \in [1 .. n -> B] /\ sum \in [0 .. n -> DaySum] /\ sum[0] = Zero
  BY SortedTrack DEF AggregateRun
<1>2. 0 \in S
  BY <1>1 DEF Zero
<1>3. ASSUME NEW i \in 1 .. n, i - 1 \in S PROVE i \in S
  <2>1. /\ sum[i].max = IF \E v \in day[i].speed : v > sum[i - 1].max THEN Total(day[i].speed) ELSE sum[i - 1].max
        /\ sum[i].fuel = (sum[i - 1].fuel \/ day[i].fuel # {})
        /\ i = 1 => sum[i].moving = 0
        /\ i # 1 => /\ sum[i].moving = sum[i - 1].moving
                             + (IF Moving(day[i - 1], day[i]) THEN Counted(day[i - 1], day[i]) ELSE 0)
                    /\ Counted(day[i - 1], day[i]) \in Nat \ {0}
    <3>1. Advance(day, sum, i)
      BY RunSteps
    <3> HIDE DEF day
    <3> QED BY <3>1 DEF Advance
  <2> HIDE DEF n, day
  <2>2. Shown(i - 1) /\ i \in 0 .. n /\ i - 1 \in 0 .. n
    <3> HIDE DEF Shown
    <3> QED BY <1>1, <1>3
  <2>3. sum[i - 1] \in DaySum /\ sum[i] \in DaySum /\ day[i] \in DayPing
    BY <1>1, <2>2 DEF Track, n
  <2>4. /\ sum[i - 1].moving \in Int /\ sum[i - 1].max \in Nat /\ sum[i].max \in Nat
        /\ sum[i - 1].fuel \in BOOLEAN /\ sum[i].fuel \in BOOLEAN
    BY <2>3 DEF DaySum
  <2>5. sum[i].moving >= 0 /\ (sum[i].moving > 0 <=> \E k \in 2 .. i : Moving(day[k - 1], day[k]))
    <3>1. CASE i = 1
      BY <2>1, <3>1
    <3>2. CASE i # 1
      <4>1. (\E k \in 2 .. i : Moving(day[k - 1], day[k]))
              <=> (\E k \in 2 .. i - 1 : Moving(day[k - 1], day[k])) \/ Moving(day[i - 1], day[i])
        <5>1. 2 .. i = (2 .. i - 1) \cup {i}
          BY <3>2
        <5> QED BY <5>1
      <4>2. CASE Moving(day[i - 1], day[i])
        <5>1. sum[i].moving = sum[i - 1].moving + Counted(day[i - 1], day[i]) /\ sum[i].moving > 0
          BY <2>1, <2>2, <2>4, <3>2, <4>2
        <5>2. sum[i].moving >= 0
          BY <2>1, <2>2, <2>4, <3>2, <4>2
        <5>3. \E k \in 2 .. i : Moving(day[k - 1], day[k])
          BY <4>1, <4>2
        <5> QED BY <5>1, <5>2, <5>3
      <4>3. CASE ~Moving(day[i - 1], day[i])
        <5>1. sum[i].moving = sum[i - 1].moving
          BY <2>1, <2>4, <3>2, <4>3
        <5> QED BY <2>2, <4>1, <4>3, <5>1
      <4> QED BY <4>2, <4>3
    <3> QED BY <3>1, <3>2
  <2>6. /\ sum[i].max = 0 \/ \E k \in 1 .. i : sum[i].max \in day[k].speed
        /\ \A k \in 1 .. i : \A w \in day[k].speed : w <= sum[i].max
    <3>1. \A k \in 1 .. i : k \in 1 .. i - 1 \/ k = i
      OBVIOUS
    <3>2. \A k \in 1 .. i - 1 : k \in 1 .. i
      OBVIOUS
    <3>3. CASE day[i].speed = {}
      <4>1. sum[i].max = sum[i - 1].max
        BY <2>1, <3>3
      <4> QED BY <2>2, <3>1, <3>2, <3>3, <4>1
    <3>4. CASE day[i].speed # {}
      <4>1. PICK v \in PingSpeeds : day[i].speed = {v}
        BY <2>3, <3>4, PingFields DEF AtMostOne
      <4>2. v \in Int /\ Total(day[i].speed) = v
        BY <4>1, TotalOne, DayAssumption
      <4>3. sum[i].max = IF v > sum[i - 1].max THEN v ELSE sum[i - 1].max
        BY <2>1, <4>1, <4>2
      <4>4. \A k \in 1 .. i - 1 : \A w \in day[k].speed : w <= sum[i - 1].max /\ w \in Int
        <5>1. \A k \in 1 .. i - 1 : day[k] \in DayPing
          BY <1>1 DEF Track
        <5>2. \A k \in 1 .. i - 1 : \A w \in day[k].speed : w \in Int
          BY <5>1, PingFields, DayAssumption DEF AtMostOne
        <5> QED BY <2>2, <5>2
      <4>5. CASE v > sum[i - 1].max
        <5>1. sum[i].max = v
          BY <4>3, <4>5
        <5>2. i \in 1 .. i /\ sum[i].max \in day[i].speed
          BY <4>1, <5>1
        <5>3. \A k \in 1 .. i - 1 : \A w \in day[k].speed : w <= v
          BY <2>4, <4>2, <4>4, <4>5
        <5>4. \A w \in day[i].speed : w <= v
          BY <4>1, <4>2
        <5> QED BY <3>1, <5>1, <5>2, <5>3, <5>4
      <4>6. CASE ~ (v > sum[i - 1].max)
        <5>1. sum[i].max = sum[i - 1].max /\ v <= sum[i].max
          BY <2>4, <4>2, <4>3, <4>6
        <5>2. \A w \in day[i].speed : w <= sum[i].max
          BY <4>1, <5>1
        <5> QED BY <2>2, <3>1, <3>2, <5>1, <5>2
      <4> QED BY <4>5, <4>6
    <3> QED BY <3>3, <3>4
  <2>7. sum[i].fuel <=> \E k \in 1 .. i : day[k].fuel # {}
    <3>1. 1 .. i = (1 .. i - 1) \cup {i}
      OBVIOUS
    <3>2. (\E k \in 1 .. i : day[k].fuel # {}) <=> (\E k \in 1 .. i - 1 : day[k].fuel # {}) \/ day[i].fuel # {}
      BY <3>1
    <3> QED BY <2>1, <2>2, <2>4, <3>2
  <2> QED BY <2>2, <2>5, <2>6, <2>7
<1>4. Shown(n)
  <2>0. n \in Nat
    BY <1>1
  <2> HIDE DEF S, n
  <2>1. \A i \in 0 .. n : i \in S
    BY <2>0, <1>2, <1>3, UpTo
  <2> QED BY <2>0, <2>1 DEF S
<1> QED
  BY <1>4

\* A track has finitely many pairs.
LEMMA FiniteConsecutive ==
  ASSUME NEW B, Track(B)
  PROVE  IsFiniteSet(Consecutive(B)) /\ Consecutive(B) \subseteq DayPing \X DayPing
<1> DEFINE n == Cardinality(B)
           day == Sorted(B)
           I == 2 .. n
           f == [k \in I |-> <<day[k - 1], day[k]>>]
<1>1. IsFiniteSet(I)
  <2>1. n \in Int
    BY SortedTrack
  <2> QED BY <2>1, FS_Interval
<1>2. f \in Surjection(I, Consecutive(B))
  <2>1. f \in [I -> Consecutive(B)] /\ \A t \in Consecutive(B) : \E k \in I : f[k] = t
    BY ConsecutiveSorted
  <2> HIDE DEF I, f
  <2> QED BY <2>1, Fun_IsSurj
<1>3. IsFiniteSet(Consecutive(B))
  <2> HIDE DEF I, f
  <2> QED BY <1>1, <1>2, FS_Surjection
<1>4. Consecutive(B) \subseteq DayPing \X DayPing
  BY DEF Consecutive, Track
<1> QED
  BY <1>3, <1>4

\* The three sums of the row.
LEMMA RunTotals ==
  ASSUME NEW B, Track(B), B # {}, NEW sum, AggregateRun(B, sum)
  PROVE  LET n == Cardinality(B)
             C == Consecutive(B)
         IN /\ sum[n].distance = SumOver(C, Distance)
            /\ sum[n].moving + sum[n].idle = SumOver(C, Counted)
            /\ sum[n].used = SumOver(C, Fall)
<1> DEFINE n == Cardinality(B)
           C == Consecutive(B)
           day == Sorted(B)
<1>1. IsFiniteSet(C) /\ C \subseteq DayPing \X DayPing
  BY FiniteConsecutive
<1>2. n \in Nat /\ n # 0 /\ sum \in [0 .. n -> DaySum]
  BY SortedTrack, FS_EmptySet DEF AggregateRun, Track
<1>3. \A i \in 1 .. n : Advance(day, sum, i)
  BY RunSteps
<1>4. \A i \in 1 .. n : /\ sum[i].distance \in Int /\ sum[i].moving \in Int /\ sum[i].idle \in Int
                        /\ sum[i].used \in Int
  <2> HIDE DEF n
  <2>1. \A i \in 1 .. n : sum[i] \in DaySum
    BY <1>2
  <2> QED BY <2>1 DEF DaySum
<1>5. C = {<<day[k - 1], day[k]>> : k \in 2 .. n}
  BY ConsecutiveSorted
<1>6. \A k \in 2 .. n : /\ k \in 1 .. n /\ k # 1
                        /\ k - 1 \in 1 .. n
                        /\ <<day[k - 1], day[k]>> \in C
  <2> HIDE DEF n, day, C
  <2> QED BY <1>2, <1>5
<1>7. 1 \in 1 .. n
  BY <1>2
<1>8. sum[n].distance = SumOver(C, Distance)
  <2> DEFINE F == [pair \in C |-> Distance(pair[1], pair[2])]
             counter == [k \in 1 .. n |-> sum[k].distance]
  <2>1. PICK g : Sums(F, C, g) /\ SumOver(C, Distance) = g[C]
    BY <1>1, DistanceSum
  <2>2. F \in [C -> Int]
    BY <1>1, PingFields DEF Distance
  <2>3. counter[1] = 0 /\ \A k \in 1 .. n : counter[k] \in Int
    BY <1>3, <1>4, <1>7 DEF Advance
  <2>4. \A k \in 2 .. n : counter[k] = counter[k - 1] + F[<<day[k - 1], day[k]>>]
    <3> HIDE DEF n, day, C
    <3> QED BY <1>3, <1>6 DEF Advance
  <2>5. counter[n] = sum[n].distance
    BY <1>2
  <2> HIDE DEF F, counter
  <2>6. counter[n] = g[C]
    BY <2>1, <2>2, <2>3, <2>4, CounterSum
  <2> QED BY <2>1, <2>5, <2>6
<1>9. sum[n].moving + sum[n].idle = SumOver(C, Counted)
  <2> DEFINE F == [pair \in C |-> Counted(pair[1], pair[2])]
             counter == [k \in 1 .. n |-> sum[k].moving + sum[k].idle]
  <2>1. PICK g : Sums(F, C, g) /\ SumOver(C, Counted) = g[C]
    BY <1>1, CountedSum
  <2>2. F \in [C -> Int]
    BY <1>1, PingFields DEF Counted
  <2>3. counter[1] = 0 /\ \A k \in 1 .. n : counter[k] \in Int
    BY <1>3, <1>4, <1>7 DEF Advance
  <2>4. \A k \in 2 .. n : counter[k] = counter[k - 1] + F[<<day[k - 1], day[k]>>]
    <3> HIDE DEF n, day, C
    <3> TAKE k \in 2 .. n
    <3>1. /\ sum[k].moving = sum[k - 1].moving
               + (IF Moving(day[k - 1], day[k]) THEN Counted(day[k - 1], day[k]) ELSE 0)
          /\ sum[k].idle = sum[k - 1].idle
               + (IF Moving(day[k - 1], day[k]) THEN 0 ELSE Counted(day[k - 1], day[k]))
          /\ Counted(day[k - 1], day[k]) \in Nat
      BY <1>3, <1>6 DEF Advance
    <3>2. sum[k - 1].moving \in Int /\ sum[k - 1].idle \in Int
      BY <1>4, <1>6
    <3>3. sum[k].moving + sum[k].idle = sum[k - 1].moving + sum[k - 1].idle + Counted(day[k - 1], day[k])
      BY <3>1, <3>2
    <3>4. F[<<day[k - 1], day[k]>>] = Counted(day[k - 1], day[k])
      BY <1>6
    <3>5. counter[k] = sum[k].moving + sum[k].idle /\ counter[k - 1] = sum[k - 1].moving + sum[k - 1].idle
      BY <1>6
    <3> HIDE DEF F, counter
    <3> QED BY <3>3, <3>4, <3>5
  <2>5. counter[n] = sum[n].moving + sum[n].idle
    BY <1>2
  <2> HIDE DEF F, counter
  <2>6. counter[n] = g[C]
    BY <2>1, <2>2, <2>3, <2>4, CounterSum
  <2> QED BY <2>1, <2>5, <2>6
<1>10. sum[n].used = SumOver(C, Fall)
  <2> DEFINE F == [pair \in C |-> Fall(pair[1], pair[2])]
             counter == [k \in 1 .. n |-> sum[k].used]
  <2>1. PICK g : Sums(F, C, g) /\ SumOver(C, Fall) = g[C]
    BY <1>1, FallSum
  <2>2. F \in [C -> Int]
    <3>1. \A pair \in C : Fall(pair[1], pair[2]) \in Int
      <4> TAKE pair \in C
      <4>1. pair[1] \in DayPing /\ pair[2] \in DayPing
        BY <1>1
      <4>2. Fall(pair[1], pair[2]) \in Nat
        BY <4>1, FallUsed, UsedType
      <4> QED BY <4>2
    <3> QED BY <3>1
  <2>3. counter[1] = 0 /\ \A k \in 1 .. n : counter[k] \in Int
    BY <1>3, <1>4, <1>7 DEF Advance
  <2>4. \A k \in 2 .. n : counter[k] = counter[k - 1] + F[<<day[k - 1], day[k]>>]
    <3> HIDE DEF n, day, C
    <3> QED BY <1>3, <1>6 DEF Advance
  <2>5. counter[n] = sum[n].used
    BY <1>2
  <2> HIDE DEF F, counter
  <2>6. counter[n] = g[C]
    BY <2>1, <2>2, <2>3, <2>4, CounterSum
  <2> QED BY <2>1, <2>5, <2>6
<1> QED
  BY <1>8, <1>9, <1>10

\* The row of a day is what its pings show.
LEMMA SummaryShows ==
  ASSUME NEW B, Track(B), B # {} PROVE RowShows(Summary(B), B)
<1> DEFINE n == Cardinality(B)
           C == Consecutive(B)
           day == Sorted(B)
           row == Summary(B)
<1>1. /\ n \in Nat /\ n # 0 /\ day \in [1 .. n -> B] /\ Len(day) = n
      /\ \A i, j \in 1 .. n : i < j => day[i].ts < day[j].ts
      /\ \A p \in B : \E i \in 1 .. n : day[i] = p
  BY SortedTrack, FS_EmptySet DEF Track
<1>2. PICK sum : AggregateRun(B, sum) /\ AggregateDay(B) = sum[n]
  BY AggregateRuns DEF AggregateRun
<1>3. sum[n] \in DaySum
  <2> HIDE DEF n
  <2> QED BY <1>1, <1>2 DEF AggregateRun, n
<1>4. /\ sum[n].distance = SumOver(C, Distance)
      /\ sum[n].moving + sum[n].idle = SumOver(C, Counted)
      /\ sum[n].used = SumOver(C, Fall)
  BY <1>2, RunTotals
<1>5. /\ sum[n].moving > 0 <=> \E k \in 2 .. n : Moving(day[k - 1], day[k])
      /\ sum[n].max = 0 \/ \E k \in 1 .. n : sum[n].max \in day[k].speed
      /\ \A k \in 1 .. n : \A w \in day[k].speed : w <= sum[n].max
      /\ sum[n].fuel <=> \E k \in 1 .. n : day[k].fuel # {}
  BY <1>2, RunShows
<1>6. C = {<<day[k - 1], day[k]>> : k \in 2 .. n}
  BY ConsecutiveSorted
<1>7. /\ row.count = n /\ row.first = day[1].ts /\ row.last = day[n].ts
      /\ row.distance = sum[n].distance /\ row.moving = sum[n].moving /\ row.idle = sum[n].idle
      /\ row.max = (IF sum[n].max > 0 THEN {sum[n].max} ELSE {})
      /\ row.used = (IF sum[n].fuel THEN {sum[n].used} ELSE {})
  <2>1. Len(day) = n /\ AggregateDay(B) = sum[n]
    BY <1>1, <1>2
  <2> HIDE DEF n
  <2> QED BY <2>1 DEF Summary
<1> HIDE DEF n, day, row, C
<1>8. \A i \in 1 .. n : day[i] \in B /\ day[i] \in DayPing /\ day[i].ts \in Nat
  BY <1>1, PingFields DEF Track
<1>9. \A p \in B : row.first <= p.ts /\ p.ts <= row.last
  <2> SUFFICES ASSUME NEW p \in B PROVE day[1].ts <= p.ts /\ p.ts <= day[n].ts
    BY <1>7
  <2>1. PICK i \in 1 .. n : day[i] = p
    BY <1>1
  <2>2. 1 \in 1 .. n /\ n \in 1 .. n
    BY <1>1
  <2>3. (i = 1 \/ 1 < i) /\ (i = n \/ i < n)
    BY <1>1
  <2> QED BY <1>1, <1>8, <2>1, <2>2, <2>3
<1>10. row.moving > 0 <=> \E pair \in C : Moving(pair[1], pair[2])
  <2>1. ASSUME NEW k \in 2 .. n, Moving(day[k - 1], day[k]) PROVE \E pair \in C : Moving(pair[1], pair[2])
    <3> DEFINE pair == <<day[k - 1], day[k]>>
    <3>1. pair \in C /\ pair[1] = day[k - 1] /\ pair[2] = day[k]
      BY <1>6
    <3> HIDE DEF pair
    <3> QED BY <2>1, <3>1
  <2>2. ASSUME NEW pair \in C, Moving(pair[1], pair[2]) PROVE \E k \in 2 .. n : Moving(day[k - 1], day[k])
    <3>1. PICK k \in 2 .. n : pair[1] = day[k - 1] /\ pair[2] = day[k]
      BY <1>6
    <3> QED BY <2>2, <3>1
  <2> QED BY <1>5, <1>7, <2>1, <2>2
<1>11. row.max = {v \in PingSpeeds : /\ v > 0 /\ \E p \in B : v \in p.speed
                                     /\ \A p \in B : \A w \in p.speed : w <= v}
  <2> DEFINE Highest == {v \in PingSpeeds : /\ v > 0 /\ \E p \in B : v \in p.speed
                                            /\ \A p \in B : \A w \in p.speed : w <= v}
             m == sum[n].max
  <2>1. m \in Nat
    BY <1>3 DEF DaySum
  <2>2. \A p \in B : \A w \in p.speed : w \in PingSpeeds /\ w \in Int /\ w <= m
    <3>1. \A p \in B : \A w \in p.speed : w \in PingSpeeds
      BY PingFields DEF AtMostOne, Track
    <3> QED BY <1>1, <1>5, <3>1, DayAssumption
  <2>3. CASE m > 0
    <3>1. PICK p \in B : m \in p.speed
      BY <1>5, <1>8, <2>3
    <3>2. m \in Highest
      BY <2>1, <2>2, <2>3, <3>1
    <3>3. ASSUME NEW v \in Highest PROVE v = m
      <4>1. v \in Int /\ v <= m /\ m <= v
        BY <2>2, <3>1
      <4> QED BY <2>1, <4>1
    <3> HIDE DEF Highest, m
    <3>4. Highest = {m}
      BY <3>2, <3>3
    <3>5. row.max = {m}
      BY <1>7, <2>3 DEF m
    <3> QED BY <3>4, <3>5 DEF Highest
  <2>4. CASE ~ (m > 0)
    <3>1. m = 0
      BY <2>1, <2>4
    <3>2. ASSUME NEW v \in Highest PROVE FALSE
      <4>1. v \in Int /\ v <= 0 /\ v > 0
        BY <2>2, <3>1
      <4> QED BY <4>1
    <3>3. row.max = {}
      BY <1>7, <2>4
    <3> HIDE DEF Highest
    <3>4. Highest = {}
      BY <3>2
    <3> QED BY <3>3, <3>4 DEF Highest
  <2> QED BY <2>3, <2>4
<1>12. row.used = IF \A p \in B : p.fuel = {} THEN {} ELSE {SumOver(C, Fall)}
  <2>1. (\A p \in B : p.fuel = {}) <=> ~sum[n].fuel
    <3>1. (\E k \in 1 .. n : day[k].fuel # {}) <=> \E p \in B : p.fuel # {}
      BY <1>1, <1>8
    <3> QED BY <1>5, <3>1
  <2>2. CASE sum[n].fuel
    <3>1. row.used = {sum[n].used} /\ ~ (\A p \in B : p.fuel = {})
      BY <1>7, <2>1, <2>2
    <3> QED BY <1>4, <3>1 DEF n, C
  <2>3. CASE ~sum[n].fuel
    BY <1>7, <2>1, <2>3
  <2> QED BY <2>2, <2>3
<1>13. /\ row.distance = SumOver(C, Distance) /\ row.moving + row.idle = SumOver(C, Counted)
       /\ row.count = Cardinality(B)
  BY <1>4, <1>7 DEF n, C
<1> QED
  BY <1>9, <1>10, <1>11, <1>12, <1>13 DEF RowShows, row, C

-----------------------------------------------------------------------------
(* The trips: drives of a track *)

\* The k-th ping of a day goes on from the one before.
GoesOn(day, k) == Fast(day[k - 1]) /\ Gap(day[k - 1], day[k]) <= TripEndGap

\* A drive begins with the s-th ping, and is not over before the e-th.
Begins(day, s)    == Fast(day[s]) /\ (s = 1 \/ ~GoesOn(day, s))
Drives(day, s, e) == s <= e /\ Begins(day, s) /\ \A k \in s + 1 .. e : GoesOn(day, k)

\* Long and far enough for a trip, by an odometer km.
LongEnough(day, km, s, e) == km[e] - km[s] >= TripMinKm /\ day[e].ts - day[s].ts >= TripMinDur

\* A drive long enough for a trip ends with a slow ping.
EndsSlow(day, km, s, i) == LongEnough(day, km, s, i) /\ ~Fast(day[i])

\* The trip from the s-th ping to the e-th.
TripAt(day, km, s, e) == [start |-> day[s].ts, end |-> day[e].ts, km |-> km[e] - km[s]]

\* The drives that the first i pings show to be over.
Over(day, km, n, i) ==
  {d \in (1 .. n) \X (1 .. n) : /\ Drives(day, d[1], d[2]) /\ LongEnough(day, km, d[1], d[2])
                                /\ (d[2] < i /\ ~GoesOn(day, d[2] + 1)) \/ (d[2] = i /\ ~Fast(day[i]))}

\* The trips of drives.
TripsAt(day, km, D) == {TripAt(day, km, d[1], d[2]) : d \in D}

\* km[i] is the way from the first ping to the i-th.
Odometer(day, n, km) ==
  /\ \A i \in 1 .. n : km[i] \in Int
  /\ \A k \in 2 .. n : km[k] = km[k - 1] + Distance(day[k - 1], day[k])

\* Drives that have a ping in common began with the same one.
LEMMA OneBeginning ==
  ASSUME NEW day, NEW r \in Nat \ {0}, NEW s \in Nat \ {0}, NEW e \in Nat, Drives(day, r, e), Drives(day, s, e)
  PROVE  r = s
<1>1. ~ (r < s)
  <2> SUFFICES ASSUME r < s PROVE FALSE
    OBVIOUS
  <2>1. s \in r + 1 .. e /\ s # 1
    BY DEF Drives
  <2> QED BY <2>1 DEF Drives, Begins
<1>2. ~ (s < r)
  <2> SUFFICES ASSUME s < r PROVE FALSE
    OBVIOUS
  <2>1. r \in s + 1 .. e /\ r # 1
    BY DEF Drives
  <2> QED BY <2>1 DEF Drives, Begins
<1> QED
  BY <1>1, <1>2

\* A drive goes on ping by ping.
LEMMA DrivesOn ==
  ASSUME NEW day, NEW s \in Nat \ {0}, NEW i \in Nat, s < i
  PROVE  Drives(day, s, i) <=> Drives(day, s, i - 1) /\ GoesOn(day, i)
<1>1. s + 1 .. i = (s + 1 .. i - 1) \cup {i}
  OBVIOUS
<1> QED
  BY <1>1 DEF Drives

\* After a slow ping, or a long gap, no drive goes on to the i-th.
LEMMA NoDriveTo ==
  ASSUME NEW day, NEW n \in Nat, NEW i \in 2 .. n, ~GoesOn(day, i), NEW s \in 1 .. n, Drives(day, s, i)
  PROVE  s = i /\ Fast(day[i])
<1>1. s \in Nat \ {0} /\ i \in Nat /\ s <= i
  BY DEF Drives
<1>2. ~ (s < i)
  BY <1>1, DrivesOn
<1> QED
  BY <1>1, <1>2 DEF Drives, Begins

\* After a slow ping, no drive ends with the i-th ...
LEMMA OverAfterSlow ==
  ASSUME NEW day, NEW km, NEW n \in Nat, NEW i \in 2 .. n, ~Fast(day[i - 1])
  PROVE  Over(day, km, n, i) = Over(day, km, n, i - 1)
<1>1. ~GoesOn(day, i)
  BY DEF GoesOn
<1>2. ASSUME NEW d \in (1 .. n) \X (1 .. n), Drives(day, d[1], d[2])
      PROVE  (d[2] < i /\ ~GoesOn(day, d[2] + 1)) \/ (d[2] = i /\ ~Fast(day[i]))
               <=> (d[2] < i - 1 /\ ~GoesOn(day, d[2] + 1)) \/ (d[2] = i - 1 /\ ~Fast(day[i - 1]))
  <2>1. d[1] \in 1 .. n /\ d[2] \in 1 .. n
    OBVIOUS
  <2>2. CASE d[2] = i
    BY <1>1, <1>2, <2>1, <2>2, NoDriveTo
  <2>3. CASE d[2] = i - 1
    <3>1. d[2] + 1 = i
      BY <2>3
    <3> QED BY <1>1, <2>3, <3>1
  <2>4. CASE d[2] # i /\ d[2] # i - 1
    BY <2>1, <2>4
  <2> QED BY <2>2, <2>3, <2>4
<1> QED
  BY <1>2 DEF Over

\* ... after a gap, the one that the ping before belongs to has ended there ...
LEMMA OverAfterGap ==
  ASSUME NEW day, NEW km, NEW n \in Nat, NEW i \in 2 .. n, Fast(day[i - 1]), ~GoesOn(day, i),
         NEW s \in 1 .. n, Drives(day, s, i - 1)
  PROVE  /\ LongEnough(day, km, s, i - 1) => Over(day, km, n, i) = Over(day, km, n, i - 1) \cup {<<s, i - 1>>}
         /\ ~LongEnough(day, km, s, i - 1) => Over(day, km, n, i) = Over(day, km, n, i - 1)
<1>1. ASSUME NEW d \in (1 .. n) \X (1 .. n), Drives(day, d[1], d[2])
      PROVE  (d[2] < i /\ ~GoesOn(day, d[2] + 1)) \/ (d[2] = i /\ ~Fast(day[i]))
               <=> \/ (d[2] < i - 1 /\ ~GoesOn(day, d[2] + 1)) \/ (d[2] = i - 1 /\ ~Fast(day[i - 1]))
                   \/ d = <<s, i - 1>>
  <2>1. d[1] \in 1 .. n /\ d[2] \in 1 .. n /\ d = <<d[1], d[2]>>
    OBVIOUS
  <2>2. CASE d[2] = i
    <3>1. ~ (d[2] = i /\ ~Fast(day[i]))
      BY <1>1, <2>1, <2>2, NoDriveTo
    <3> QED BY <2>1, <2>2, <3>1
  <2>3. CASE d[2] = i - 1
    <3>1. d[1] = s
      BY <1>1, <2>1, <2>3, OneBeginning
    <3>2. d[2] + 1 = i /\ d = <<s, i - 1>>
      BY <2>1, <2>3, <3>1
    <3> QED BY <2>3, <3>2
  <2>4. CASE d[2] # i /\ d[2] # i - 1
    <3>1. d # <<s, i - 1>>
      BY <2>4
    <3> QED BY <2>1, <2>4, <3>1
  <2> QED BY <2>2, <2>3, <2>4
<1>2. <<s, i - 1>> \in (1 .. n) \X (1 .. n) /\ <<s, i - 1>>[1] = s /\ <<s, i - 1>>[2] = i - 1
  OBVIOUS
<1> QED
  BY <1>1, <1>2 DEF Over

\* ... and a drive that goes on ends with the i-th ping if that is slow.
LEMMA OverAfterDrive ==
  ASSUME NEW day, NEW km, NEW n \in Nat, NEW i \in 2 .. n, GoesOn(day, i), NEW s \in 1 .. n, Drives(day, s, i)
  PROVE  /\ EndsSlow(day, km, s, i) => Over(day, km, n, i) = Over(day, km, n, i - 1) \cup {<<s, i>>}
         /\ ~EndsSlow(day, km, s, i) => Over(day, km, n, i) = Over(day, km, n, i - 1)
<1>1. Fast(day[i - 1])
  BY DEF GoesOn
<1>2. ASSUME NEW d \in (1 .. n) \X (1 .. n), Drives(day, d[1], d[2])
      PROVE  (d[2] < i /\ ~GoesOn(day, d[2] + 1)) \/ (d[2] = i /\ ~Fast(day[i]))
               <=> \/ (d[2] < i - 1 /\ ~GoesOn(day, d[2] + 1)) \/ (d[2] = i - 1 /\ ~Fast(day[i - 1]))
                   \/ (d = <<s, i>> /\ ~Fast(day[i]))
  <2>1. d[1] \in 1 .. n /\ d[2] \in 1 .. n /\ d = <<d[1], d[2]>>
    OBVIOUS
  <2>2. CASE d[2] = i
    <3>1. d[1] = s
      BY <1>2, <2>1, <2>2, OneBeginning
    <3>2. d = <<s, i>>
      BY <2>1, <2>2, <3>1
    <3> QED BY <2>2, <3>2
  <2>3. CASE d[2] = i - 1
    <3>1. d[2] + 1 = i /\ d # <<s, i>>
      BY <2>3
    <3> QED BY <1>1, <2>3, <3>1
  <2>4. CASE d[2] # i /\ d[2] # i - 1
    <3>1. d # <<s, i>>
      BY <2>4
    <3> QED BY <2>1, <2>4, <3>1
  <2> QED BY <2>2, <2>3, <2>4
<1>3. <<s, i>> \in (1 .. n) \X (1 .. n) /\ <<s, i>>[1] = s /\ <<s, i>>[2] = i
  OBVIOUS
<1> QED
  BY <1>2, <1>3 DEF Over, EndsSlow

-----------------------------------------------------------------------------

\* What the end of a trip stores.
LEMMA CloseTripIs ==
  ASSUME NEW t \in TripState
  PROVE  LET c == CloseTrip(t)
         IN /\ ~c.active /\ c.km = 0
            /\ c.out = t.out \cup (IF t.active /\ t.km >= TripMinKm /\ t.last - t.start >= TripMinDur
                                   THEN {[start |-> t.start, end |-> t.last, km |-> t.km]} ELSE {})
BY DEF CloseTrip, Idle

\* A ping while no trip is on.
LEMMA DriveFromIdle ==
  ASSUME NEW t \in TripState, ~t.active, t.km = 0, NEW q \in DayPing, NEW p \in DayPing
  PROVE  LET d == Drive(t, q, p)
         IN /\ d.active <=> Fast(p)
            /\ d.out = t.out /\ d.km = 0
            /\ Fast(p) => d.start = p.ts /\ d.last = p.ts
BY DEF Drive, TripState

\* A ping while one is on.
LEMMA DriveOnTrip ==
  ASSUME NEW t \in TripState, t.active, NEW q \in DayPing, NEW p \in DayPing
  PROVE  LET d  == Drive(t, q, p)
             km == t.km + Distance(q, p)
         IN /\ d.active <=> Fast(p)
            /\ Fast(p) => d.out = t.out /\ d.km = km /\ d.start = t.start /\ d.last = p.ts
            /\ ~Fast(p) => /\ d.km = 0
                           /\ d.out = t.out \cup (IF km >= TripMinKm /\ p.ts - t.start >= TripMinDur
                                                  THEN {[start |-> t.start, end |-> p.ts, km |-> km]} ELSE {})
<1> DEFINE km == t.km + Distance(q, p)
           on == [t EXCEPT !.km = km, !.last = p.ts]
<1>1. Distance(q, p) \in Nat
  BY PingFields DEF Distance
<1>2. km \in Nat
  BY <1>1 DEF TripState
<1> HIDE DEF km
<1>3. on \in TripState /\ on.active /\ on.km = km /\ on.last = p.ts /\ on.start = t.start /\ on.out = t.out
  BY <1>2, PingFields DEF TripState
<1>4. CASE Fast(p)
  <2>1. Drive(t, q, p) = on
    BY <1>4 DEF Drive, km
  <2> HIDE DEF on
  <2> QED BY <1>3, <1>4, <2>1 DEF km
<1>5. CASE ~Fast(p)
  <2>1. Drive(t, q, p) = CloseTrip(on)
    BY <1>5 DEF Drive, km
  <2> HIDE DEF on
  <2>2. /\ ~CloseTrip(on).active /\ CloseTrip(on).km = 0
        /\ CloseTrip(on).out = on.out \cup (IF on.active /\ on.km >= TripMinKm /\ on.last - on.start >= TripMinDur
                                   THEN {[start |-> on.start, end |-> on.last, km |-> on.km]} ELSE {})
    BY <1>3, CloseTripIs
  <2> QED BY <1>3, <1>5, <2>1, <2>2 DEF km
<1> QED
  BY <1>4, <1>5

\* The states that the detection of trips goes through.
TripRun(B, trip) ==
  /\ trip \in [0 .. Cardinality(B) -> TripState] /\ trip[0] = Idle
  /\ \A i \in 1 .. Cardinality(B) : trip[i] = AddToTrip(Sorted(B), i, trip[i - 1])

\* What the state after the i-th ping says.
TripSays(day, km, n, i, t) ==
  /\ t.active <=> Fast(day[i])
  /\ t.out = TripsAt(day, km, Over(day, km, n, i))
  /\ t.active => \E s \in 1 .. i : /\ Drives(day, s, i) /\ t.start = day[s].ts /\ t.last = day[i].ts
                                   /\ t.km = km[i] - km[s]
  /\ ~t.active => t.km = 0

\* The first ping.
LEMMA TripFirst ==
  ASSUME NEW day, NEW n \in Nat \ {0}, day \in [1 .. n -> DayPing], NEW km, km[1] \in Int
  PROVE  TripSays(day, km, n, 1, Drive(Idle, day[1], day[1]))
<1> DEFINE d == Drive(Idle, day[1], day[1])
<1>1. day[1] \in DayPing
  OBVIOUS
<1>2. Idle \in TripState /\ ~Idle.active /\ Idle.km = 0 /\ Idle.out = {}
  BY IdleType DEF Idle
<1>3. /\ d.active <=> Fast(day[1])
      /\ d.out = {} /\ d.km = 0
      /\ Fast(day[1]) => d.start = day[1].ts /\ d.last = day[1].ts
  BY <1>1, <1>2, DriveFromIdle
<1>4. Over(day, km, n, 1) = {}
  <2> SUFFICES ASSUME NEW e \in Over(day, km, n, 1) PROVE FALSE
    OBVIOUS
  <2>1. e[1] \in 1 .. n /\ e[2] \in 1 .. n /\ Drives(day, e[1], e[2]) /\ e[2] = 1 /\ ~Fast(day[1])
    BY DEF Over
  <2>2. e[1] = 1
    BY <2>1 DEF Drives
  <2> QED BY <2>1, <2>2 DEF Drives, Begins
<1>5. Fast(day[1]) => Drives(day, 1, 1) /\ km[1] - km[1] = 0
  BY DEF Drives, Begins
<1>6. TripsAt(day, km, {}) = {}
  BY DEF TripsAt
<1> HIDE DEF d
<1>7. d.active => \E s \in 1 .. 1 : /\ Drives(day, s, 1) /\ d.start = day[s].ts /\ d.last = day[1].ts
                                    /\ d.km = km[1] - km[s]
  BY <1>3, <1>5
<1> QED
  BY <1>3, <1>4, <1>6, <1>7 DEF TripSays, d

\* A ping that no drive goes on to.
LEMMA TripAnew ==
  ASSUME NEW day, NEW n \in Nat, NEW i \in 2 .. n, day \in [1 .. n -> DayPing], NEW km, km[i] \in Int,
         ~GoesOn(day, i), NEW u \in TripState, ~u.active, u.km = 0, u.out = TripsAt(day, km, Over(day, km, n, i))
  PROVE  TripSays(day, km, n, i, Drive(u, day[i - 1], day[i]))
<1> DEFINE d == Drive(u, day[i - 1], day[i])
<1>1. day[i] \in DayPing /\ day[i - 1] \in DayPing /\ i \in 1 .. i
  OBVIOUS
<1>2. /\ d.active <=> Fast(day[i])
      /\ d.out = u.out /\ d.km = 0
      /\ Fast(day[i]) => d.start = day[i].ts /\ d.last = day[i].ts
  BY <1>1, DriveFromIdle
<1>3. Fast(day[i]) => Drives(day, i, i) /\ km[i] - km[i] = 0
  BY DEF Drives, Begins
<1> HIDE DEF d
<1> QED
  BY <1>1, <1>2, <1>3 DEF TripSays, d

\* Any later ping.
LEMMA TripNext ==
  ASSUME NEW day, NEW n \in Nat, NEW i \in 2 .. n, day \in [1 .. n -> DayPing], NEW km, Odometer(day, n, km),
         NEW t \in TripState, TripSays(day, km, n, i - 1, t)
  PROVE  TripSays(day, km, n, i, Follow(t, day[i - 1], day[i]))
<1> DEFINE q == day[i - 1]
           p == day[i]
           u == IF Gap(q, p) > TripEndGap THEN CloseTrip(t) ELSE t
<1>1. q \in DayPing /\ p \in DayPing /\ i \in 1 .. n /\ i - 1 \in 1 .. n
  OBVIOUS
<1>2. km[i] \in Int /\ km[i - 1] \in Int /\ km[i] = km[i - 1] + Distance(q, p)
  BY <1>1 DEF Odometer
<1>3. Follow(t, q, p) = Drive(u, q, p)
  BY DEF Follow
<1>4. u \in TripState
  BY CloseTripType
<1>5. /\ ~CloseTrip(t).active /\ CloseTrip(t).km = 0
      /\ CloseTrip(t).out = t.out \cup (IF t.active /\ t.km >= TripMinKm /\ t.last - t.start >= TripMinDur
                                   THEN {[start |-> t.start, end |-> t.last, km |-> t.km]} ELSE {})
  BY CloseTripIs
<1>6. /\ t.active <=> Fast(q)
      /\ t.out = TripsAt(day, km, Over(day, km, n, i - 1))
      /\ t.active => \E s \in 1 .. i - 1 : /\ Drives(day, s, i - 1) /\ t.start = day[s].ts
                                           /\ t.last = day[i - 1].ts /\ t.km = km[i - 1] - km[s]
      /\ ~t.active => t.km = 0
  BY DEF TripSays
<1>7. Gap(q, p) \in Int
  BY <1>1, PingFields DEF Gap
<1>8. CASE ~Fast(q)
  <2>1. ~GoesOn(day, i)
    BY <1>8 DEF GoesOn
  <2>2. Over(day, km, n, i) = Over(day, km, n, i - 1)
    BY <1>8, OverAfterSlow
  <2>3. ~u.active /\ u.km = 0 /\ u.out = TripsAt(day, km, Over(day, km, n, i))
    BY <1>5, <1>6, <1>8, <2>2
  <2> HIDE DEF u
  <2>4. TripSays(day, km, n, i, Drive(u, day[i - 1], day[i]))
    BY <1>2, <1>4, <2>1, <2>3, TripAnew
  <2> QED BY <1>3, <2>4
<1>9. CASE Fast(q) /\ Gap(q, p) > TripEndGap
  <2>1. ~GoesOn(day, i)
    BY <1>7, <1>9 DEF GoesOn, TripEndGap
  <2>2. PICK s \in 1 .. i - 1 : /\ Drives(day, s, i - 1) /\ t.start = day[s].ts /\ t.last = day[i - 1].ts
                                /\ t.km = km[i - 1] - km[s]
    BY <1>6, <1>9
  <2>3. s \in 1 .. n
    OBVIOUS
  <2> DEFINE b == LongEnough(day, km, s, i - 1)
  <2>4. TripsAt(day, km, Over(day, km, n, i)) = IF b THEN t.out \cup {TripAt(day, km, s, i - 1)} ELSE t.out
    <3>1. Fast(day[i - 1])
      BY <1>9
    <3> HIDE DEF q, p, u
    <3>2. /\ b => Over(day, km, n, i) = Over(day, km, n, i - 1) \cup {<<s, i - 1>>}
          /\ ~b => Over(day, km, n, i) = Over(day, km, n, i - 1)
      BY <2>1, <2>2, <2>3, <3>1, OverAfterGap
    <3> HIDE DEF b
    <3>3. <<s, i - 1>>[1] = s /\ <<s, i - 1>>[2] = i - 1
      OBVIOUS
    <3>4. TripsAt(day, km, Over(day, km, n, i - 1) \cup {<<s, i - 1>>})
            = TripsAt(day, km, Over(day, km, n, i - 1)) \cup {TripAt(day, km, s, i - 1)}
      BY <3>3 DEF TripsAt
    <3> QED BY <1>6, <3>2, <3>4
  <2>5. CloseTrip(t).out = IF b THEN t.out \cup {TripAt(day, km, s, i - 1)} ELSE t.out
    BY <1>5, <1>6, <1>9, <2>2 DEF LongEnough, TripAt
  <2>6. u = CloseTrip(t)
    BY <1>9
  <2> HIDE DEF u, b
  <2>7. TripSays(day, km, n, i, Drive(u, day[i - 1], day[i]))
    BY <1>2, <1>4, <1>5, <2>1, <2>4, <2>5, <2>6, TripAnew
  <2> QED BY <1>3, <2>7
<1>10. CASE Fast(q) /\ ~ (Gap(q, p) > TripEndGap)
  <2> DEFINE d == Drive(t, q, p)
  <2>1. GoesOn(day, i)
    BY <1>7, <1>10 DEF GoesOn, TripEndGap
  <2>2. PICK s \in 1 .. i - 1 : /\ Drives(day, s, i - 1) /\ t.start = day[s].ts /\ t.last = day[i - 1].ts
                                /\ t.km = km[i - 1] - km[s]
    BY <1>6, <1>10
  <2>3. s \in 1 .. n /\ s \in Nat \ {0} /\ i \in Nat /\ s < i
    OBVIOUS
  <2>4. Drives(day, s, i)
    BY <2>1, <2>2, <2>3, DrivesOn
  <2>5. km[s] \in Int /\ t.km + Distance(q, p) = km[i] - km[s]
    <3>1. Distance(q, p) \in Int /\ km[s] \in Int
      BY <1>1, <2>3, PingFields DEF Distance, Odometer
    <3> QED BY <1>2, <2>2, <3>1
  <2> DEFINE b == EndsSlow(day, km, s, i)
  <2>6. TripsAt(day, km, Over(day, km, n, i)) = IF b THEN t.out \cup {TripAt(day, km, s, i)} ELSE t.out
    <3> HIDE DEF q, p, u, d
    <3>1. /\ b => Over(day, km, n, i) = Over(day, km, n, i - 1) \cup {<<s, i>>}
          /\ ~b => Over(day, km, n, i) = Over(day, km, n, i - 1)
      BY <2>1, <2>3, <2>4, OverAfterDrive
    <3> HIDE DEF b
    <3>2. <<s, i>>[1] = s /\ <<s, i>>[2] = i
      OBVIOUS
    <3>3. TripsAt(day, km, Over(day, km, n, i - 1) \cup {<<s, i>>})
            = TripsAt(day, km, Over(day, km, n, i - 1)) \cup {TripAt(day, km, s, i)}
      BY <3>2 DEF TripsAt
    <3> QED BY <1>6, <3>1, <3>3
  <2>7. /\ d.active <=> Fast(p)
        /\ Fast(p) => d.out = t.out /\ d.km = km[i] - km[s] /\ d.start = t.start /\ d.last = p.ts
        /\ ~Fast(p) => /\ d.km = 0
                       /\ d.out = t.out \cup (IF km[i] - km[s] >= TripMinKm /\ p.ts - t.start >= TripMinDur
                                              THEN {[start |-> t.start, end |-> p.ts, km |-> km[i] - km[s]]} ELSE {})
    BY <1>1, <1>6, <1>10, <2>5, DriveOnTrip
  <2> HIDE DEF d
  <2>8. d.out = TripsAt(day, km, Over(day, km, n, i))
    BY <2>2, <2>6, <2>7 DEF EndsSlow, LongEnough, TripAt
  <2>9. d.active => /\ s \in 1 .. i /\ Drives(day, s, i) /\ d.start = day[s].ts
                     /\ d.last = day[i].ts /\ d.km = km[i] - km[s]
    BY <2>2, <2>3, <2>4, <2>7
  <2>10. TripSays(day, km, n, i, d)
    BY <2>7, <2>8, <2>9 DEF TripSays
  <2>11. u = t
    BY <1>10
  <2> QED BY <1>3, <2>10, <2>11 DEF d
<1> QED
  BY <1>8, <1>9, <1>10

\* All drives of a day.
AllDrives(day, km, n) ==
  {d \in (1 .. n) \X (1 .. n) : /\ Drives(day, d[1], d[2]) /\ LongEnough(day, km, d[1], d[2])
                                /\ d[2] = n \/ ~GoesOn(day, d[2] + 1)}

\* The drive that the last ping belongs to.
LEMMA LastDrive ==
  ASSUME NEW day, NEW km, NEW n \in Nat, NEW s \in 1 .. n, Fast(day[n]), Drives(day, s, n)
  PROVE  TripsAt(day, km, AllDrives(day, km, n))
           = IF LongEnough(day, km, s, n)
             THEN TripsAt(day, km, Over(day, km, n, n)) \cup {TripAt(day, km, s, n)}
             ELSE TripsAt(day, km, Over(day, km, n, n))
<1>1. ASSUME NEW d \in (1 .. n) \X (1 .. n), Drives(day, d[1], d[2])
      PROVE  (d[2] = n \/ ~GoesOn(day, d[2] + 1))
               <=> (d[2] < n /\ ~GoesOn(day, d[2] + 1)) \/ (d[2] = n /\ ~Fast(day[n])) \/ d = <<s, n>>
  <2>1. d[1] \in 1 .. n /\ d[2] \in 1 .. n /\ d = <<d[1], d[2]>>
    OBVIOUS
  <2>2. CASE d[2] = n
    <3>1. d[1] \in Nat \ {0} /\ s \in Nat \ {0} /\ Drives(day, d[1], n)
      BY <1>1, <2>1, <2>2
    <3>2. d[1] = s
      BY <3>1, OneBeginning
    <3> QED BY <2>1, <2>2, <3>2
  <2>3. CASE d[2] # n
    <3>1. d # <<s, n>>
      BY <2>3
    <3> QED BY <2>1, <2>3, <3>1
  <2> QED BY <2>2, <2>3
<1>2. <<s, n>> \in (1 .. n) \X (1 .. n) /\ <<s, n>>[1] = s /\ <<s, n>>[2] = n
  OBVIOUS
<1>3. /\ LongEnough(day, km, s, n) => AllDrives(day, km, n) = Over(day, km, n, n) \cup {<<s, n>>}
      /\ ~LongEnough(day, km, s, n) => AllDrives(day, km, n) = Over(day, km, n, n)
  BY <1>1, <1>2 DEF AllDrives, Over
<1>4. TripsAt(day, km, Over(day, km, n, n) \cup {<<s, n>>})
        = TripsAt(day, km, Over(day, km, n, n)) \cup {TripAt(day, km, s, n)}
  BY <1>2 DEF TripsAt
<1> QED
  BY <1>3, <1>4

\* DetectTrips finds the drives that are long enough.
LEMMA TripsDriven ==
  ASSUME NEW B, Track(B), NEW km, Odometer(Sorted(B), Cardinality(B), km)
  PROVE  DetectTrips(B) = TripsAt(Sorted(B), km, AllDrives(Sorted(B), km, Cardinality(B)))
<1> DEFINE n == Cardinality(B)
           day == Sorted(B)
<1>1. n \in Nat /\ day \in [1 .. n -> B] /\ day \in [1 .. n -> DayPing]
  BY SortedTrack DEF Track
<1>2. PICK trip : TripRun(B, trip) /\ DetectTrips(B) = IF n < 2 THEN {} ELSE CloseTrip(trip[n]).out
  BY TripsRun DEF TripRun
<1>3. /\ trip \in [0 .. n -> TripState] /\ trip[0] = Idle
      /\ \A i \in 1 .. n : trip[i] = AddToTrip(day, i, trip[i - 1])
  BY <1>2 DEF TripRun
<1>4. Odometer(day, n, km)
  OBVIOUS
<1> HIDE DEF n, day
<1>5. CASE n < 2
  <2>1. AllDrives(day, km, n) = {}
    <3> SUFFICES ASSUME NEW d \in AllDrives(day, km, n) PROVE FALSE
      OBVIOUS
    <3>1. d[1] = 1 /\ d[2] = 1 /\ n = 1
      BY <1>1, <1>5 DEF AllDrives
    <3>2. day[1].ts - day[1].ts >= TripMinDur
      BY <3>1 DEF AllDrives, LongEnough
    <3>3. day[1].ts \in Nat
      BY <1>1, <3>1, PingFields
    <3> QED BY <3>2, <3>3 DEF TripMinDur
  <2>2. TripsAt(day, km, {}) = {}
    BY DEF TripsAt
  <2> QED BY <1>2, <1>5, <2>1, <2>2 DEF n, day
<1>6. CASE ~ (n < 2)
  <2> DEFINE S == {i \in 0 .. n : i = 0 \/ TripSays(day, km, n, i, trip[i])}
  <2>1. 0 \in S
    BY <1>1
  <2>2. ASSUME NEW i \in 1 .. n, i - 1 \in S PROVE i \in S
    <3>1. trip[i] = AddToTrip(day, i, trip[i - 1]) /\ trip[i - 1] \in TripState
      BY <1>1, <1>3
    <3>2. CASE i = 1
      <4>1. km[1] \in Int /\ n \in Nat \ {0}
        BY <1>1, <1>4, <3>2 DEF Odometer
      <4>2. TripSays(day, km, n, 1, Drive(Idle, day[1], day[1]))
        BY <1>1, <4>1, TripFirst
      <4> QED BY <1>1, <3>1, <3>2, <4>2 DEF AddToTrip
    <3>3. CASE i # 1
      <4>1. i \in 2 .. n /\ TripSays(day, km, n, i - 1, trip[i - 1])
        BY <1>1, <2>2, <3>3
      <4>2. TripSays(day, km, n, i, Follow(trip[i - 1], day[i - 1], day[i]))
        BY <1>1, <1>4, <3>1, <4>1, TripNext
      <4> QED BY <1>1, <3>1, <3>3, <4>2 DEF AddToTrip
    <3> QED BY <3>2, <3>3
  <2>3. TripSays(day, km, n, n, trip[n])
    <3> HIDE DEF S
    <3>1. \A i \in 0 .. n : i \in S
      BY <1>1, <2>1, <2>2, UpTo
    <3> QED BY <1>1, <1>6, <3>1 DEF S
  <2> DEFINE t == trip[n]
  <2>4. t \in TripState
    BY <1>1, <1>3
  <2> HIDE DEF t
  <2>5. CloseTrip(t).out = t.out \cup (IF t.active /\ t.km >= TripMinKm /\ t.last - t.start >= TripMinDur
                                       THEN {[start |-> t.start, end |-> t.last, km |-> t.km]} ELSE {})
    BY <2>4, CloseTripIs
  <2>6. /\ t.active <=> Fast(day[n])
        /\ t.out = TripsAt(day, km, Over(day, km, n, n))
        /\ t.active => \E s \in 1 .. n : /\ Drives(day, s, n) /\ t.start = day[s].ts /\ t.last = day[n].ts
                                         /\ t.km = km[n] - km[s]
    BY <2>3 DEF TripSays, t
  <2>7. CASE ~Fast(day[n])
    <3>1. AllDrives(day, km, n) = Over(day, km, n, n)
      <4>1. \A e \in 1 .. n : (e = n \/ ~GoesOn(day, e + 1))
                               <=> (e < n /\ ~GoesOn(day, e + 1)) \/ (e = n /\ ~Fast(day[n]))
        BY <1>1, <2>7
      <4>2. \A d \in (1 .. n) \X (1 .. n) : d[2] \in 1 .. n
        OBVIOUS
      <4> QED BY <4>1, <4>2 DEF AllDrives, Over
    <3>2. CloseTrip(t).out = TripsAt(day, km, AllDrives(day, km, n))
      BY <2>5, <2>6, <2>7, <3>1
    <3> QED BY <1>2, <1>6, <3>2 DEF t, n, day
  <2>8. CASE Fast(day[n])
    <3>1. PICK s \in 1 .. n : /\ Drives(day, s, n) /\ t.start = day[s].ts /\ t.last = day[n].ts
                              /\ t.km = km[n] - km[s]
      BY <2>6, <2>8
    <3> DEFINE b == LongEnough(day, km, s, n)
    <3>2. TripsAt(day, km, AllDrives(day, km, n)) = IF b THEN t.out \cup {TripAt(day, km, s, n)} ELSE t.out
      BY <1>1, <2>6, <2>8, <3>1, LastDrive
    <3>3. CloseTrip(t).out = IF b THEN t.out \cup {TripAt(day, km, s, n)} ELSE t.out
      BY <2>5, <2>6, <2>8, <3>1 DEF LongEnough, TripAt
    <3>4. CloseTrip(t).out = TripsAt(day, km, AllDrives(day, km, n))
      BY <3>2, <3>3
    <3> QED BY <1>2, <1>6, <3>4 DEF t, n, day
  <2> QED BY <2>7, <2>8
<1> QED
  BY <1>5, <1>6

-----------------------------------------------------------------------------
(* The trips that the track shows *)

\* A drive does not go on after the e-th ping of n.
Stops(day, n, e) == e = n \/ ~GoesOn(day, e + 1)

\* The parts of TripsOf.
StartsOf(B) ==
  {p \in B : /\ Fast(p)
             /\ \A pair \in Consecutive(B) : pair[2] = p => ~ (Fast(pair[1]) /\ p.ts - pair[1].ts <= TripEndGap)}
StopsOf(B) ==
  {p \in B : ~Fast(p)} \cup
  {p \in B : \A pair \in Consecutive(B) : pair[1] = p => ~ (Fast(p) /\ pair[2].ts - p.ts <= TripEndGap)}
EndOf(B, p) ==
  CHOOSE q \in StopsOf(B) : q.ts >= p.ts /\ \A r \in StopsOf(B) : r.ts >= p.ts => r.ts >= q.ts
PairsFrom(B, p, q) == {pair \in Consecutive(B) : p.ts <= pair[1].ts /\ pair[2].ts <= q.ts}

\* TripsOf in these terms.
LEMMA TripsInParts ==
  ASSUME NEW B
  PROVE  TripsOf(B) = {trip \in {[start |-> p.ts, end |-> EndOf(B, p).ts,
                                  km |-> SumOver(PairsFrom(B, p, EndOf(B, p)), Distance)] : p \in StartsOf(B)} :
                         trip.km >= TripMinKm /\ trip.end - trip.start >= TripMinDur}
BY DEF TripsOf, StartsOf, StopsOf, EndOf, PairsFrom

\* Pings are ordered as their times are.
LEMMA SamePing ==
  ASSUME NEW B, Track(B), NEW i \in 1 .. Cardinality(B), NEW j \in 1 .. Cardinality(B),
         Sorted(B)[i].ts <= Sorted(B)[j].ts
  PROVE  i <= j
<1>1. Cardinality(B) \in Nat /\ Sorted(B)[i] \in B /\ Sorted(B)[j] \in B
  BY SortedTrack
<1>2. Sorted(B)[i].ts \in Nat /\ Sorted(B)[j].ts \in Nat
  BY <1>1, PingFields DEF Track
<1>3. j < i => Sorted(B)[j].ts < Sorted(B)[i].ts
  BY SortedTrack
<1> QED
  BY <1>1, <1>2, <1>3

\* The pings that begin a trip, and those that end one, by their place in the day.
LEMMA StartsSorted ==
  ASSUME NEW B, Track(B), NEW s \in 1 .. Cardinality(B)
  PROVE  Sorted(B)[s] \in StartsOf(B) <=> Begins(Sorted(B), s)
<1> DEFINE n == Cardinality(B)
           day == Sorted(B)
<1>1. n \in Nat /\ day[s] \in B
  BY SortedTrack
<1>2. Consecutive(B) = {<<day[k - 1], day[k]>> : k \in 2 .. n}
  BY ConsecutiveSorted
<1>3. ASSUME NEW k \in 2 .. n, day[k] = day[s] PROVE k = s
  <2>1. k \in 1 .. n /\ day[k].ts <= day[s].ts /\ day[s].ts <= day[k].ts
    BY <1>1, <1>3, PingFields DEF Track
  <2>2. k <= s /\ s <= k
    BY <2>1, SamePing
  <2> QED BY <1>1, <2>1, <2>2
<1> HIDE DEF n, day
<1>4. (\E pair \in Consecutive(B) : pair[2] = day[s] /\ Fast(pair[1]) /\ day[s].ts - pair[1].ts <= TripEndGap)
        <=> s # 1 /\ GoesOn(day, s)
  <2>1. ASSUME NEW pair \in Consecutive(B), pair[2] = day[s], Fast(pair[1]),
               day[s].ts - pair[1].ts <= TripEndGap
        PROVE  s # 1 /\ GoesOn(day, s)
    <3>1. PICK k \in 2 .. n : pair[1] = day[k - 1] /\ pair[2] = day[k]
      BY <1>2
    <3>2. k = s
      BY <1>3, <2>1, <3>1
    <3> QED BY <2>1, <3>1, <3>2 DEF GoesOn, Gap
  <2>2. ASSUME s # 1, GoesOn(day, s)
        PROVE  \E pair \in Consecutive(B) :
                 pair[2] = day[s] /\ Fast(pair[1]) /\ day[s].ts - pair[1].ts <= TripEndGap
    <3> DEFINE pair == <<day[s - 1], day[s]>>
    <3>1. s \in 2 .. n
      BY <1>1, <2>2 DEF n
    <3>2. pair \in Consecutive(B) /\ pair[1] = day[s - 1] /\ pair[2] = day[s]
      BY <1>2, <3>1
    <3> HIDE DEF pair
    <3> QED BY <2>2, <3>2 DEF GoesOn, Gap
  <2> QED BY <2>1, <2>2
<1>5. day[s] \in StartsOf(B) <=> Begins(day, s)
  BY <1>1, <1>4 DEF StartsOf, Begins
<1> QED
  BY <1>5 DEF day

LEMMA StopsSorted ==
  ASSUME NEW B, Track(B), NEW e \in 1 .. Cardinality(B)
  PROVE  Sorted(B)[e] \in StopsOf(B) <=> Stops(Sorted(B), Cardinality(B), e)
<1> DEFINE n == Cardinality(B)
           day == Sorted(B)
<1>1. n \in Nat /\ day[e] \in B /\ e \in 1 .. n
  BY SortedTrack
<1>2. Consecutive(B) = {<<day[k - 1], day[k]>> : k \in 2 .. n}
  BY ConsecutiveSorted
<1>3. ASSUME NEW k \in 2 .. n, day[k - 1] = day[e] PROVE k = e + 1
  <2>1. k - 1 \in 1 .. n /\ day[k - 1].ts <= day[e].ts /\ day[e].ts <= day[k - 1].ts
    BY <1>1, <1>3, PingFields DEF Track
  <2>2. k - 1 <= e /\ e <= k - 1
    BY <2>1, SamePing
  <2> QED BY <1>1, <2>1, <2>2
<1> HIDE DEF n, day
<1>4. (\E pair \in Consecutive(B) : pair[1] = day[e] /\ Fast(day[e]) /\ pair[2].ts - day[e].ts <= TripEndGap)
        <=> e # n /\ GoesOn(day, e + 1)
  <2>1. ASSUME NEW pair \in Consecutive(B), pair[1] = day[e], Fast(day[e]),
               pair[2].ts - day[e].ts <= TripEndGap
        PROVE  e # n /\ GoesOn(day, e + 1)
    <3>1. PICK k \in 2 .. n : pair[1] = day[k - 1] /\ pair[2] = day[k]
      BY <1>2
    <3>2. k = e + 1 /\ k - 1 = e
      BY <1>1, <1>3, <2>1, <3>1
    <3>3. e # n /\ e + 1 - 1 = e
      BY <1>1, <3>2
    <3> QED BY <2>1, <3>1, <3>2, <3>3 DEF GoesOn, Gap
  <2>2. ASSUME e # n, GoesOn(day, e + 1)
        PROVE  \E pair \in Consecutive(B) :
                 pair[1] = day[e] /\ Fast(day[e]) /\ pair[2].ts - day[e].ts <= TripEndGap
    <3> DEFINE pair == <<day[e], day[e + 1]>>
    <3>1. e + 1 \in 2 .. n /\ e + 1 - 1 = e
      BY <1>1, <2>2
    <3>2. pair \in Consecutive(B) /\ pair[1] = day[e] /\ pair[2] = day[e + 1]
      BY <1>2, <3>1
    <3> HIDE DEF pair
    <3> QED BY <2>2, <3>1, <3>2 DEF GoesOn, Gap
  <2> QED BY <2>1, <2>2
<1>5. ~Fast(day[e]) => ~GoesOn(day, e + 1)
  <2>1. e + 1 - 1 = e
    BY <1>1
  <2> QED BY <2>1 DEF GoesOn
<1>6. day[e] \in StopsOf(B) <=> Stops(day, n, e)
  BY <1>1, <1>4, <1>5 DEF StopsOf, Stops
<1> QED
  BY <1>6 DEF day, n

\* A drive has one end.
LEMMA OneStop ==
  ASSUME NEW day, NEW n \in Nat, NEW s \in 1 .. n, NEW e \in 1 .. n, NEW f \in 1 .. n,
         Drives(day, s, e), Stops(day, n, e), Drives(day, s, f), Stops(day, n, f)
  PROVE  e = f
<1>1. ~ (e < f)
  <2> SUFFICES ASSUME e < f PROVE FALSE
    OBVIOUS
  <2>1. e + 1 \in s + 1 .. f /\ e # n
    BY DEF Drives
  <2> QED BY <2>1 DEF Drives, Stops
<1>2. ~ (f < e)
  <2> SUFFICES ASSUME f < e PROVE FALSE
    OBVIOUS
  <2>1. f + 1 \in s + 1 .. e /\ f # n
    BY DEF Drives
  <2> QED BY <2>1 DEF Drives, Stops
<1> QED
  BY <1>1, <1>2

\* The first stop after the beginning of a drive is its end.
LEMMA DriveEnd ==
  ASSUME NEW B, Track(B), NEW s \in 1 .. Cardinality(B), Begins(Sorted(B), s)
  PROVE  \E e \in 1 .. Cardinality(B) : /\ Drives(Sorted(B), s, e) /\ Stops(Sorted(B), Cardinality(B), e)
                                        /\ EndOf(B, Sorted(B)[s]) = Sorted(B)[e]
<1> DEFINE n == Cardinality(B)
           day == Sorted(B)
           T == {e \in s .. n : Stops(day, n, e)}
<1>1. n \in Nat /\ s \in 1 .. n /\ \A i \in 1 .. n : day[i] \in B
  BY SortedTrack
<1>2. n \in T /\ T \subseteq Nat
  BY <1>1 DEF Stops
<1>3. PICK e \in T : \A m \in T : e <= m
  <2> HIDE DEF T
  <2> QED BY <1>2, LeastNat
<1>4. e \in 1 .. n /\ s <= e /\ Stops(day, n, e)
  BY <1>1, <1>3
<1> HIDE DEF n, day
<1>5. Drives(day, s, e)
  <2> SUFFICES ASSUME NEW k \in s + 1 .. e PROVE GoesOn(day, k)
    BY <1>4 DEF Drives, day
  <2>1. k - 1 \in s .. n /\ ~ (e <= k - 1) /\ k - 1 # n /\ k - 1 + 1 = k
    BY <1>1, <1>4
  <2>2. ~Stops(day, n, k - 1)
    BY <1>3, <2>1
  <2> QED BY <2>1, <2>2 DEF Stops
<1> HIDE DEF T
<1>6. \A i \in 1 .. n : day[i].ts \in Nat
  BY <1>1, PingFields DEF Track
<1>7. \A r \in StopsOf(B) : \E j \in 1 .. n : r = day[j] /\ Stops(day, n, j)
  <2> TAKE r \in StopsOf(B)
  <2>1. r \in B
    BY DEF StopsOf
  <2>2. PICK j \in 1 .. n : day[j] = r
    BY <2>1, SortedTrack DEF day, n
  <2> QED BY <2>2, StopsSorted DEF day, n
<1>8. \A r \in StopsOf(B) : r.ts >= day[s].ts => r.ts >= day[e].ts
  <2> SUFFICES ASSUME NEW r \in StopsOf(B), r.ts >= day[s].ts PROVE r.ts >= day[e].ts
    OBVIOUS
  <2>1. PICK j \in 1 .. n : r = day[j] /\ Stops(day, n, j)
    BY <1>7
  <2>2. day[s].ts <= day[j].ts
    BY <1>1, <1>6, <2>1
  <2>3. s <= j
    BY <1>1, <2>2, SamePing DEF day, n
  <2>4. j \in T
    BY <1>1, <2>1, <2>3 DEF T
  <2>5. e = j \/ e < j
    BY <1>1, <1>3, <1>4, <2>4
  <2>6. e < j => day[e].ts < day[j].ts
    BY <1>4, SortedTrack DEF day, n
  <2> QED BY <1>4, <1>6, <2>1, <2>5, <2>6
<1>9. day[e] \in StopsOf(B) /\ day[e].ts >= day[s].ts
  <2>1. day[e] \in StopsOf(B)
    BY <1>4, StopsSorted DEF day, n
  <2>2. s = e \/ s < e
    BY <1>1, <1>4
  <2>3. s < e => day[s].ts < day[e].ts
    BY <1>1, <1>4, SortedTrack DEF day, n
  <2> QED BY <1>1, <1>4, <1>6, <2>1, <2>2, <2>3
<1>10. ASSUME NEW q \in StopsOf(B), q.ts >= day[s].ts, \A r \in StopsOf(B) : r.ts >= day[s].ts => r.ts >= q.ts
       PROVE  q = day[e]
  <2>1. q.ts >= day[e].ts /\ day[e].ts >= q.ts
    BY <1>8, <1>9, <1>10
  <2>2. q \in B /\ day[e] \in B
    BY <1>1, <1>4 DEF StopsOf
  <2>3. q.ts = day[e].ts
    BY <2>1, <2>2, PingFields DEF Track
  <2> QED BY <2>2, <2>3 DEF Track
<1>11. EndOf(B, day[s]) = day[e]
  BY <1>8, <1>9, <1>10 DEF EndOf
<1> QED
  BY <1>4, <1>5, <1>11 DEF day, n

\* The way from one ping to another is a difference of the odometer.
LEMMA KmBetween ==
  ASSUME NEW B, Track(B), NEW km, Odometer(Sorted(B), Cardinality(B), km),
         NEW s \in 1 .. Cardinality(B), NEW e \in 1 .. Cardinality(B), s <= e
  PROVE  SumOver(PairsFrom(B, Sorted(B)[s], Sorted(B)[e]), Distance) = km[e] - km[s]
<1> DEFINE n == Cardinality(B)
           day == Sorted(B)
           S == PairsFrom(B, day[s], day[e])
           F == [pair \in S |-> Distance(pair[1], pair[2])]
           item == [k \in 2 .. n |-> <<day[k - 1], day[k]>>]
<1>1. n \in Nat /\ s \in 1 .. n /\ e \in 1 .. n /\ \A i \in 1 .. n : day[i] \in DayPing
  BY SortedTrack DEF Track
<1>2. \A i \in 1 .. n : day[i].ts \in Nat
  BY <1>1, PingFields
<1>3. \A i, j \in 1 .. n : day[i].ts <= day[j].ts <=> i <= j
  <2> TAKE i, j \in 1 .. n
  <2>1. i < j => day[i].ts < day[j].ts
    BY SortedTrack
  <2>2. day[i].ts <= day[j].ts => i <= j
    BY SamePing
  <2> QED BY <1>1, <1>2, <2>1, <2>2
<1>4. Consecutive(B) = {<<day[k - 1], day[k]>> : k \in 2 .. n}
  BY ConsecutiveSorted
<1>5. IsFiniteSet(S) /\ S \subseteq DayPing \X DayPing
  <2>1. S \subseteq Consecutive(B)
    BY DEF PairsFrom
  <2> HIDE DEF S
  <2> QED BY <2>1, FiniteConsecutive, FS_Subset
<1>6. PICK g : Sums(F, S, g) /\ SumOver(S, Distance) = g[S]
  <2> HIDE DEF S
  <2> QED BY <1>5, DistanceSum
<1>7. \A k \in 2 .. n : k \in 1 .. n /\ k - 1 \in 1 .. n
  BY <1>1
<1> HIDE DEF n, day
<1>8. \A k \in 2 .. n : item[k] \in S <=> k \in s + 1 .. e
  <2> TAKE k \in 2 .. n
  <2>1. item[k] \in Consecutive(B) /\ item[k][1] = day[k - 1] /\ item[k][2] = day[k]
    BY <1>4
  <2>2. item[k] \in S <=> day[s].ts <= day[k - 1].ts /\ day[k].ts <= day[e].ts
    BY <2>1 DEF PairsFrom
  <2>3. item[k] \in S <=> s <= k - 1 /\ k <= e
    BY <1>1, <1>3, <1>7, <2>2
  <2> QED BY <1>1, <2>3
<1>9. s + 1 .. e \subseteq 2 .. n
  BY <1>1
<1>10. S = {item[k] : k \in s + 1 .. e}
  <2>1. ASSUME NEW pair \in S PROVE \E k \in s + 1 .. e : pair = item[k]
    <3>1. PICK k \in 2 .. n : pair = item[k]
      BY <1>4 DEF PairsFrom
    <3> HIDE DEF S, item
    <3> QED BY <1>8, <2>1, <3>1
  <2> HIDE DEF S, item
  <2> QED BY <1>8, <1>9, <2>1
<1>11. \A j, k \in s + 1 .. e : item[j] = item[k] => j = k
  <2> SUFFICES ASSUME NEW j \in s + 1 .. e, NEW k \in s + 1 .. e, item[j] = item[k] PROVE j = k
    OBVIOUS
  <2>1. j \in 2 .. n /\ k \in 2 .. n /\ j \in 1 .. n /\ k \in 1 .. n
    BY <1>7, <1>9
  <2>2. day[j] = day[k]
    BY <2>1
  <2>3. day[j].ts <= day[k].ts /\ day[k].ts <= day[j].ts
    BY <1>2, <2>1, <2>2
  <2> QED BY <1>3, <2>1, <2>3
<1>12. F \in [S -> Int]
  <2>1. \A pair \in S : Distance(pair[1], pair[2]) \in Int
    BY <1>5, PingFields DEF Distance
  <2> HIDE DEF S
  <2> QED BY <2>1
<1>13. \A k \in 1 .. n : km[k] \in Int
  BY DEF Odometer, n
<1>14. \A k \in s .. e : km[k] \in Int
  BY <1>1, <1>13
<1>15. \A k \in s + 1 .. e : km[k] = km[k - 1] + F[item[k]]
  <2> TAKE k \in s + 1 .. e
  <2>1. k \in 2 .. n
    BY <1>9
  <2>2. item[k] \in S /\ item[k][1] = day[k - 1] /\ item[k][2] = day[k]
    BY <1>8, <2>1
  <2>3. km[k] = km[k - 1] + Distance(day[k - 1], day[k])
    BY <2>1 DEF Odometer, n, day
  <2> HIDE DEF S, item
  <2> QED BY <2>2, <2>3
<1>16. s \in Nat /\ e \in Nat
  BY <1>1
<1> HIDE DEF S, F, item
<1>17. Tally(S, item, s, e, F, km)
  BY <1>10, <1>11, <1>12, <1>14, <1>15, <1>16 DEF Tally
<1>18. g[S] = km[e] - km[s]
  BY <1>6, <1>17, SumAlong
<1> QED
  BY <1>6, <1>18 DEF S, day

\* The trips of a run are the drives of the track.
LEMMA TripsShown ==
  ASSUME NEW B, Track(B) PROVE DetectTrips(B) = TripsOf(B)
<1> DEFINE n == Cardinality(B)
           day == Sorted(B)
<1>1. n \in Nat /\ \A i \in 1 .. n : day[i] \in B
  BY SortedTrack
<1>2. PICK sum : AggregateRun(B, sum)
  BY AggregateRuns DEF AggregateRun
<1> DEFINE km == [i \in 1 .. n |-> sum[i].distance]
<1>3. Odometer(day, n, km)
  <2>1. \A i \in 1 .. n : Advance(day, sum, i) /\ sum[i] \in DaySum
    BY <1>1, <1>2, RunSteps DEF AggregateRun
  <2> HIDE DEF n, day
  <2>2. \A i \in 1 .. n : km[i] \in Int
    BY <2>1 DEF DaySum
  <2>3. \A k \in 2 .. n : km[k] = km[k - 1] + Distance(day[k - 1], day[k])
    <3> TAKE k \in 2 .. n
    <3>1. k \in 1 .. n /\ k - 1 \in 1 .. n /\ k # 1
      BY <1>1
    <3> QED BY <2>1, <3>1 DEF Advance
  <2> QED BY <2>2, <2>3 DEF Odometer
<1> HIDE DEF km
<1>4. DetectTrips(B) = TripsAt(day, km, AllDrives(day, km, n))
  BY <1>3, TripsDriven
<1>5. \A s, e \in 1 .. n : s <= e => SumOver(PairsFrom(B, day[s], day[e]), Distance) = km[e] - km[s]
  BY <1>3, KmBetween
<1>6. \A p \in StartsOf(B) : \E s, e \in 1 .. n : /\ Drives(day, s, e) /\ Stops(day, n, e)
                                                  /\ p = day[s] /\ EndOf(B, p) = day[e]
  <2> TAKE p \in StartsOf(B)
  <2>1. p \in B
    BY DEF StartsOf
  <2>2. PICK s \in 1 .. n : day[s] = p
    BY <2>1, SortedTrack
  <2>3. Begins(day, s)
    BY <2>2, StartsSorted
  <2> QED BY <2>2, <2>3, DriveEnd
<1>7. ASSUME NEW s \in 1 .. n, NEW e \in 1 .. n, Drives(day, s, e), Stops(day, n, e)
      PROVE  day[s] \in StartsOf(B) /\ EndOf(B, day[s]) = day[e]
  <2>1. Begins(day, s)
    BY <1>7 DEF Drives
  <2>2. PICK f \in 1 .. n : Drives(day, s, f) /\ Stops(day, n, f) /\ EndOf(B, day[s]) = day[f]
    BY <2>1, DriveEnd
  <2>3. e = f
    BY <1>1, <1>7, <2>2, OneStop
  <2> QED BY <2>1, <2>2, <2>3, StartsSorted
<1> DEFINE Trip(p) == [start |-> p.ts, end |-> EndOf(B, p).ts,
                       km |-> SumOver(PairsFrom(B, p, EndOf(B, p)), Distance)]
<1>8. \A s, e \in 1 .. n : s <= e /\ EndOf(B, day[s]) = day[e] => Trip(day[s]) = TripAt(day, km, s, e)
  BY <1>5 DEF TripAt
<1>9. TripsOf(B) = {x \in {Trip(p) : p \in StartsOf(B)} : x.km >= TripMinKm /\ x.end - x.start >= TripMinDur}
  BY TripsInParts
<1> HIDE DEF n, day, Trip
<1>10. \A s, e \in 1 .. n : LET x == TripAt(day, km, s, e)
                            IN x.km >= TripMinKm /\ x.end - x.start >= TripMinDur <=> LongEnough(day, km, s, e)
  BY DEF TripAt, LongEnough
<1>11. ASSUME NEW x \in TripsOf(B) PROVE x \in TripsAt(day, km, AllDrives(day, km, n))
  <2>1. PICK p \in StartsOf(B) : x = Trip(p)
    BY <1>9
  <2>2. PICK s \in 1 .. n, e \in 1 .. n : /\ Drives(day, s, e) /\ Stops(day, n, e)
                                          /\ p = day[s] /\ EndOf(B, p) = day[e]
    BY <1>6
  <2>3. x = TripAt(day, km, s, e)
    BY <1>8, <2>1, <2>2 DEF Drives
  <2>4. LongEnough(day, km, s, e)
    BY <1>9, <1>10, <2>3
  <2> DEFINE d == <<s, e>>
  <2>5. d \in (1 .. n) \X (1 .. n) /\ d[1] = s /\ d[2] = e
    OBVIOUS
  <2> HIDE DEF d
  <2>6. d \in AllDrives(day, km, n)
    BY <2>2, <2>4, <2>5 DEF AllDrives, Stops
  <2> QED BY <2>3, <2>5, <2>6 DEF TripsAt
<1>12. ASSUME NEW x \in TripsAt(day, km, AllDrives(day, km, n)) PROVE x \in TripsOf(B)
  <2>1. PICK d \in AllDrives(day, km, n) : x = TripAt(day, km, d[1], d[2])
    BY DEF TripsAt
  <2>2. /\ d[1] \in 1 .. n /\ d[2] \in 1 .. n /\ Drives(day, d[1], d[2]) /\ LongEnough(day, km, d[1], d[2])
        /\ Stops(day, n, d[2])
    BY DEF AllDrives, Stops
  <2>3. day[d[1]] \in StartsOf(B) /\ EndOf(B, day[d[1]]) = day[d[2]]
    BY <1>7, <2>2
  <2>4. x = Trip(day[d[1]])
    BY <1>8, <2>1, <2>2, <2>3 DEF Drives
  <2>5. x.km >= TripMinKm /\ x.end - x.start >= TripMinDur
    BY <1>10, <2>1, <2>2
  <2> QED BY <1>9, <2>3, <2>4, <2>5
<1>13. TripsOf(B) = TripsAt(day, km, AllDrives(day, km, n))
  BY <1>11, <1>12
<1> QED
  BY <1>4, <1>13

-----------------------------------------------------------------------------

\* Before the first run there is no report ...
LEMMA ReportStart == DayInit => ReportMatchesTrack
<1> SUFFICES ASSUME DayInit PROVE ReportMatchesTrack
  OBVIOUS
<1>1. daily = {} /\ summed = {}
  BY DEF DayInit
<1>2. Track(summed)
  BY <1>1, FS_EmptySet DEF Track
<1>3. DetectTrips(summed) = TripsOf(summed)
  BY <1>2, TripsShown
<1> QED
  BY <1>1, <1>3 DEF ReportMatchesTrack

\* ... and only the write of the row changes it.
LEMMA ReportStep ==
  ASSUME DayParts, ReportMatchesTrack, [DayNext]_dayVars PROVE ReportMatchesTrack'
<1>1. CASE UpsertDaily
  <2>1. daily' = {Summary(batch)} /\ summed' = batch /\ todo # {}
    BY <1>1 DEF UpsertDaily
  <2>2. Track(batch) /\ batch # {}
    BY <2>1 DEF DayParts
  <2>3. RowShows(Summary(batch), batch) /\ DetectTrips(batch) = TripsOf(batch)
    BY <2>2, SummaryShows, TripsShown
  <2>4. /\ \A row \in daily' : RowShows(row, summed')
        /\ DetectTrips(summed') = TripsOf(summed')
    BY <2>1, <2>3
  <2> QED BY <2>4 DEF ReportMatchesTrack
<1>2. CASE daily' = daily /\ summed' = summed
  BY <1>2 DEF ReportMatchesTrack
<1>3. ~UpsertDaily => daily' = daily /\ summed' = summed
  BY DEF DayNext, InsertRecord, InsertPosted, InsertPing, PurgeBefore, PingsForDay, InsertFuelEvents,
         Abandon, dayVars, reports
<1> QED
  BY <1>1, <1>2, <1>3

\* The row of a day is what the pings it was made of show, however many and wherever:
\* the sums are over the pairs of consecutive pings (AggregateDay).  And the trips that
\* DetectTripsFromPings makes of these are the drives, from the first fast ping to the
\* next slow one or the last before a gap.
THEOREM ReportMatches == DaySpec => []ReportMatchesTrack
<1>1. DayInit => DayTypeOK /\ DayParts /\ ReportMatchesTrack
  BY DayStart, ReportStart
<1>2. DayTypeOK /\ DayParts /\ ReportMatchesTrack /\ [DayNext]_dayVars
        => (DayTypeOK /\ DayParts /\ ReportMatchesTrack)'
  BY DayStep, ReportStep
<1> QED
  BY <1>1, <1>2, PTL DEF DaySpec
=============================================================================
