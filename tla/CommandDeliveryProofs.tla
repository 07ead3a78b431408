------------------------ MODULE CommandDeliveryProofs ------------------------
(***************************************************************************)
(* Proofs about CommandDelivery, for every number of devices, connections  *)
(* and commands, every interlock configuration and every clock skew.       *)
(***************************************************************************)
EXTENDS CommandDelivery, TLAPS

-----------------------------------------------------------------------------
(* Typing *)

\* What VehicleSnapshotFor returns is a snapshot.
LEMMA SnapshotType ==
  ASSUME TypeOK, NEW v
  PROVE  VehicleSnapshotFor(v) \in Snapshot
BY ConfigAssumption DEF TypeOK, VehicleSnapshotFor, Snapshot, NoSnapshot, Fix, Reading

\* The locals that Return leaves behind have their types.
LEMMA ReturnType ==
  ASSUME TypeOK, NEW H, Return(H)
  PROVE  /\ pc' \in [Handlers -> Stages]
         /\ held' \in [Handlers -> Commands \cup {NoCommand}]
         /\ decision' \in [Handlers -> Decision]
BY DEF TypeOK, Return, Stages, Decision, NoDecision, NoSnapshot, Snapshot, Reading

\* Forgetting deliveries leaves sets of commands.
LEMMA ForgetType ==
  ASSUME TypeOK, NEW H, Forget(H)
  PROVE  delivered' \in [Handlers -> SUBSET Commands]
BY DEF TypeOK, Forget

\* A handler that has left the lookup holds a command of its own device, and
\* that command has been queued.
HoldsOwnCommand ==
  \A h \in Handlers : pc[h] # "idle" =>
    /\ held[h] \in Commands
    /\ commands[held[h]].status # "none"
    /\ commands[held[h]].device = serves[h]

\* Recording an outcome keeps the table a table, and changes only the status
\* and the snapshot of the row the handler holds.
LEMMA RecordType ==
  ASSUME TypeOK, HoldsOwnCommand, NEW h \in Handlers, pc[h] # "idle",
         NEW outcome \in {"sent", "refused"}, Record(h, outcome)
  PROVE  /\ commands' \in [Commands -> Row]
         /\ held[h] \in Commands
         /\ commands'[held[h]].status = outcome
         /\ commands'[held[h]].basis = decision[h].snap
         /\ \A c \in Commands \ {held[h]} : commands'[c] = commands[c]
         /\ \A c \in Commands :
              /\ commands'[c].device = commands[c].device
              /\ commands'[c].kind = commands[c].kind
              /\ commands'[c].requestedAt = commands[c].requestedAt
              /\ commands[c].status # "none" => commands'[c].status # "none"
<1> DEFINE row == commands[held[h]]
           new == [row EXCEPT !.status = outcome, !.basis = decision[h].snap]
<1>1. held[h] \in Commands /\ row \in Row /\ decision[h].snap \in Snapshot
  BY DEF HoldsOwnCommand, TypeOK, Decision
<1>2. new \in Row /\ new.status = outcome /\ new.basis = decision[h].snap
      /\ new.device = row.device /\ new.kind = row.kind /\ new.requestedAt = row.requestedAt
  BY <1>1 DEF Row
<1>3. commands' = [commands EXCEPT ![held[h]] = new]
  BY DEF Record
<1> HIDE DEF new
<1>4. /\ commands' \in [Commands -> Row]
      /\ commands'[held[h]] = new
      /\ \A c \in Commands \ {held[h]} : commands'[c] = commands[c]
  BY <1>1, <1>2, <1>3 DEF TypeOK
<1> QED BY <1>1, <1>2, <1>4

\* Type correctness and what the handlers hold, which each other's steps need.
TypeInv == TypeOK /\ HoldsOwnCommand

LEMMA TypeInvInit == Init => TypeInv
BY ConfigAssumption, IdAssumption
   DEF Init, TypeInv, TypeOK, HoldsOwnCommand, NoRow, Row, Kinds, NoFix, Fix, Reading,
       NoDecision, Decision, NoSnapshot, Snapshot, Stages, Mobilize, Immobilize

LEMMA TypeInvNext == TypeInv /\ [Next]_vars => TypeInv'
<1> SUFFICES ASSUME TypeInv, [Next]_vars PROVE TypeInv'
  OBVIOUS
<1> USE DEF TypeInv
<1>1. ASSUME NEW c \in Commands, NEW d \in Devices, NEW k \in Kinds, NEW ttl \in TTLs,
             EnqueueCommand(c, d, k, ttl)
      PROVE  TypeInv'
  <2>1. [device |-> d, vehicle |-> vehicleOf[d], kind |-> k, status |-> "pending",
         requestedAt |-> now, expiresAt |-> now + (IF ttl <= 0 THEN MaxQueueAge ELSE ttl),
         basis |-> NoSnapshot] \in Row
    BY ConfigAssumption DEF TypeOK, Row, NoSnapshot, Snapshot, Reading
  <2>2. TypeOK'
    BY <1>1, <2>1 DEF EnqueueCommand, TypeOK, environment, handling, history
  <2>3. HoldsOwnCommand'
    BY <1>1 DEF EnqueueCommand, TypeOK, HoldsOwnCommand, environment, handling, history
  <2> QED BY <2>2, <2>3
<1>2. ASSUME NEW d \in Devices, NEW v \in Vehicles \cup {NoVehicle}, UpdateDevice(d, v)
      PROVE  TypeInv'
  BY <1>2 DEF UpdateDevice, TypeOK, HoldsOwnCommand, handling, history
<1>3. ASSUME NEW v \in Vehicles, NEW ts \in 0 .. now + ClockSkew, NEW s \in Reading,
             InsertPing(v, ts, s)
      PROVE  TypeInv'
  BY <1>3 DEF InsertPing, TypeOK, Fix, HoldsOwnCommand, handling, history
<1>4. CASE Tick
  BY <1>4 DEF Tick, TypeOK, HoldsOwnCommand, handling, history
<1>5. ASSUME NEW h \in Handlers, NextPendingCommand(h)
      PROVE  TypeInv'
  BY <1>5 DEF NextPendingCommand, Goto, PendingFor, TypeOK, Stages, HoldsOwnCommand,
              environment, history
<1>6. ASSUME NEW h \in Handlers, Judge(h)
      PROVE  TypeInv'
  <2>1. Verdict(h).snap \in Snapshot
    BY SnapshotType DEF Verdict
  <2>2. [at |-> now, snap |-> Verdict(h).snap] \in Decision
    BY <2>1 DEF Decision, TypeOK
  <2>3. pc' \in [Handlers -> Stages]
    BY <1>6 DEF Judge, Goto, TypeOK, Stages
  <2>4. TypeOK'
    BY <1>6, <2>2, <2>3 DEF Judge, TypeOK, environment, history
  <2>5. HoldsOwnCommand'
    BY <1>6 DEF Judge, Goto, TypeOK, HoldsOwnCommand, environment, history
  <2> QED BY <2>4, <2>5
<1>7. ASSUME NEW h \in Handlers, MarkCommandRefused(h)
      PROVE  TypeInv'
  <2>1. pc[h] # "idle" /\ Record(h, "refused") /\ Return({h})
    BY <1>7 DEF MarkCommandRefused
  <2>2. TypeOK'
    BY <1>7, <2>1, RecordType, ReturnType
       DEF MarkCommandRefused, TypeOK, environment, history
  <2>3. ASSUME NEW g \in Handlers, pc'[g] # "idle"
        PROVE  /\ held'[g] \in Commands
               /\ commands'[held'[g]].status # "none"
               /\ commands'[held'[g]].device = serves'[g]
    <3>1. serves' = serves
      BY <1>7 DEF MarkCommandRefused, environment
    <3>2. pc[g] # "idle" /\ held'[g] = held[g]
      BY <2>1, <2>3 DEF Return, TypeOK
    <3>3. /\ held[g] \in Commands
          /\ commands[held[g]].status # "none"
          /\ commands[held[g]].device = serves[g]
      BY <3>2 DEF HoldsOwnCommand
    <3>4. \A c \in Commands :
            /\ commands'[c].device = commands[c].device
            /\ commands[c].status # "none" => commands'[c].status # "none"
      BY <2>1, RecordType
    <3> QED BY <3>1, <3>2, <3>3, <3>4
  <2>4. HoldsOwnCommand'
    BY <2>3 DEF HoldsOwnCommand
  <2> QED BY <2>2, <2>4
<1>8. ASSUME NEW h \in Handlers, Write(h)
      PROVE  TypeInv'
  BY <1>8 DEF Write, Goto, TypeOK, Stages, HoldsOwnCommand, environment
<1>9. ASSUME NEW h \in Handlers, MarkCommandSent(h)
      PROVE  TypeInv'
  <2>1. pc[h] # "idle" /\ Record(h, "sent") /\ Return({h})
    BY <1>9 DEF MarkCommandSent
  <2>2. TypeOK'
    BY <1>9, <2>1, RecordType, ReturnType
       DEF MarkCommandSent, TypeOK, environment, history
  <2>3. ASSUME NEW g \in Handlers, pc'[g] # "idle"
        PROVE  /\ held'[g] \in Commands
               /\ commands'[held'[g]].status # "none"
               /\ commands'[held'[g]].device = serves'[g]
    <3>1. serves' = serves
      BY <1>9 DEF MarkCommandSent, environment
    <3>2. pc[g] # "idle" /\ held'[g] = held[g]
      BY <2>1, <2>3 DEF Return, TypeOK
    <3>3. /\ held[g] \in Commands
          /\ commands[held[g]].status # "none"
          /\ commands[held[g]].device = serves[g]
      BY <3>2 DEF HoldsOwnCommand
    <3>4. \A c \in Commands :
            /\ commands'[c].device = commands[c].device
            /\ commands[c].status # "none" => commands'[c].status # "none"
      BY <2>1, RecordType
    <3> QED BY <3>1, <3>2, <3>3, <3>4
  <2>4. HoldsOwnCommand'
    BY <2>3 DEF HoldsOwnCommand
  <2> QED BY <2>2, <2>4
<1>10. ASSUME NEW h \in Handlers, Fail(h)
       PROVE  TypeInv'
  <2>1. TypeOK'
    BY <1>10, ReturnType, ForgetType, ConfigAssumption DEF Fail, Fault, TypeOK, environment
  <2>2. HoldsOwnCommand'
    BY <1>10 DEF Fail, Return, TypeOK, HoldsOwnCommand, environment
  <2> QED BY <2>1, <2>2
<1>11. CASE Crash
  <2>1. TypeOK'
    BY <1>11, ReturnType, ForgetType, ConfigAssumption DEF Crash, Fault, TypeOK, environment
  <2>2. HoldsOwnCommand'
    BY <1>11 DEF Crash, Return, TypeOK, HoldsOwnCommand, environment
  <2> QED BY <2>1, <2>2
<1>12. CASE UNCHANGED vars
  BY <1>12 DEF vars, environment, handling, history, TypeOK, HoldsOwnCommand
<1> QED
  BY <1>1, <1>2, <1>3, <1>4, <1>5, <1>6, <1>7, <1>8, <1>9, <1>10, <1>11, <1>12
     DEF Next, Fleet, Deliver

\* Every variable keeps its type in every behaviour.
THEOREM TypeCorrect == Spec => []TypeOK
<1>1. TypeInv => TypeOK
  BY DEF TypeInv
<1> QED BY <1>1, TypeInvInit, TypeInvNext, PTL DEF Spec

-----------------------------------------------------------------------------
(* The interlock *)

\* What a handler on its way to the socket, or just past it, was allowed by.
Judged ==
  \A h \in Handlers : pc[h] \in {"write", "mark"} =>
    /\ decision[h] \in Decision
    /\ EvaluateInterlock(commands[held[h]].kind,
                         decision[h].at - commands[held[h]].requestedAt,
                         decision[h].snap)

\* A step that leaves the handlers' locals and the immutable columns of the
\* queued commands alone preserves Judged.
LEMMA JudgedFrame ==
  ASSUME TypeInv, Judged, serves' = serves,
         \A h \in Handlers : pc'[h] \in {"write", "mark"} =>
            /\ pc[h] \in {"write", "mark"}
            /\ held'[h] = held[h]
            /\ decision'[h] = decision[h],
         \A c \in Commands : commands[c].status # "none" =>
            /\ commands'[c].kind = commands[c].kind
            /\ commands'[c].requestedAt = commands[c].requestedAt
  PROVE  Judged'
<1> SUFFICES ASSUME NEW h \in Handlers, pc'[h] \in {"write", "mark"}
             PROVE  (/\ decision[h] \in Decision
                     /\ EvaluateInterlock(commands[held[h]].kind,
                          decision[h].at - commands[held[h]].requestedAt,
                          decision[h].snap))'
  BY DEF Judged
<1>1. /\ pc[h] \in {"write", "mark"}
      /\ held'[h] = held[h] /\ decision'[h] = decision[h]
  OBVIOUS
<1>2. held[h] \in Commands /\ commands[held[h]].status # "none"
  BY <1>1 DEF TypeInv, HoldsOwnCommand
<1>3. /\ commands'[held[h]].kind = commands[held[h]].kind
      /\ commands'[held[h]].requestedAt = commands[held[h]].requestedAt
  BY <1>2
<1>4. /\ decision[h] \in Decision
      /\ EvaluateInterlock(commands[held[h]].kind,
           decision[h].at - commands[held[h]].requestedAt, decision[h].snap)
  BY <1>1 DEF Judged
<1> QED BY <1>1, <1>3, <1>4 DEF EvaluateInterlock

LEMMA JudgedNext == TypeInv /\ Judged /\ [Next]_vars => Judged'
<1> SUFFICES ASSUME TypeInv, Judged, [Next]_vars PROVE Judged'
  OBVIOUS
<1>1. ASSUME NEW c \in Commands, NEW d \in Devices, NEW k \in Kinds, NEW ttl \in TTLs,
             EnqueueCommand(c, d, k, ttl)
      PROVE  Judged'
  <2>1. serves' = serves /\ pc' = pc /\ held' = held /\ decision' = decision
    BY <1>1 DEF EnqueueCommand, environment, handling
  <2>2. \A b \in Commands : commands[b].status # "none" => commands'[b] = commands[b]
    BY <1>1 DEF EnqueueCommand, TypeInv, TypeOK
  <2> QED BY <2>1, <2>2, JudgedFrame
<1>2. ASSUME NEW d \in Devices, NEW v \in Vehicles \cup {NoVehicle}, UpdateDevice(d, v)
      PROVE  Judged'
  BY <1>2, JudgedFrame DEF UpdateDevice, handling
<1>3. ASSUME NEW v \in Vehicles, NEW ts \in 0 .. now + ClockSkew, NEW s \in Reading,
             InsertPing(v, ts, s)
      PROVE  Judged'
  BY <1>3, JudgedFrame DEF InsertPing, handling
<1>4. CASE Tick
  BY <1>4, JudgedFrame DEF Tick, handling
<1>5. ASSUME NEW h \in Handlers, NextPendingCommand(h)
      PROVE  Judged'
  <2>1. \A g \in Handlers : pc'[g] \in {"write", "mark"} => g # h /\ pc'[g] = pc[g]
    BY <1>5 DEF NextPendingCommand, Goto, TypeInv, TypeOK
  <2>2. \A g \in Handlers : g # h => held'[g] = held[g]
    BY <1>5 DEF NextPendingCommand, TypeInv, TypeOK
  <2> QED
    BY <1>5, <2>1, <2>2, JudgedFrame DEF NextPendingCommand, environment
<1>6. ASSUME NEW h \in Handlers, Judge(h)
      PROVE  Judged'
  <2>1. serves' = serves /\ commands' = commands /\ held' = held
    BY <1>6 DEF Judge, environment
  <2>2. ASSUME NEW g \in Handlers, g # h, pc'[g] \in {"write", "mark"}
        PROVE  (/\ decision[g] \in Decision
                /\ EvaluateInterlock(commands[held[g]].kind,
                     decision[g].at - commands[held[g]].requestedAt, decision[g].snap))'
    <3>1. pc[g] \in {"write", "mark"} /\ decision'[g] = decision[g]
      BY <1>6, <2>2 DEF Judge, Goto, TypeInv, TypeOK
    <3> QED BY <2>1, <3>1 DEF Judged, EvaluateInterlock
  <2>3. ASSUME pc'[h] \in {"write", "mark"}
        PROVE  (/\ decision[h] \in Decision
                /\ EvaluateInterlock(commands[held[h]].kind,
                     decision[h].at - commands[held[h]].requestedAt, decision[h].snap))'
    <3>1. Verdict(h).allowed
      BY <1>6, <2>3 DEF Judge, Goto, TypeInv, TypeOK
    <3>2. decision'[h] = [at |-> now, snap |-> Verdict(h).snap]
      BY <1>6 DEF Judge, TypeInv, TypeOK
    <3>3. Verdict(h).snap \in Snapshot
      BY SnapshotType DEF Verdict, TypeInv
    <3>4. decision'[h] \in Decision
      BY <3>2, <3>3 DEF Decision, TypeInv, TypeOK
    <3>5. EvaluateInterlock(commands[held[h]].kind,
            now - commands[held[h]].requestedAt, Verdict(h).snap)
      BY <3>1 DEF Verdict
    <3> QED BY <2>1, <3>1, <3>2, <3>4, <3>5 DEF EvaluateInterlock
  <2> QED BY <2>2, <2>3 DEF Judged
<1>7. ASSUME NEW h \in Handlers, MarkCommandRefused(h)
      PROVE  Judged'
  <2>1. pc[h] # "idle" /\ Record(h, "refused") /\ Return({h}) /\ serves' = serves
    BY <1>7 DEF MarkCommandRefused, environment
  <2>2. \A c \in Commands : /\ commands'[c].kind = commands[c].kind
                            /\ commands'[c].requestedAt = commands[c].requestedAt
    BY <2>1, RecordType DEF TypeInv
  <2> QED BY <2>1, <2>2, JudgedFrame DEF Return
<1>8. ASSUME NEW h \in Handlers, Write(h)
      PROVE  Judged'
  BY <1>8, JudgedFrame DEF Write, Goto, TypeInv, TypeOK, environment
<1>9. ASSUME NEW h \in Handlers, MarkCommandSent(h)
      PROVE  Judged'
  <2>1. pc[h] # "idle" /\ Record(h, "sent") /\ Return({h}) /\ serves' = serves
    BY <1>9 DEF MarkCommandSent, environment
  <2>2. \A c \in Commands : /\ commands'[c].kind = commands[c].kind
                            /\ commands'[c].requestedAt = commands[c].requestedAt
    BY <2>1, RecordType DEF TypeInv
  <2> QED BY <2>1, <2>2, JudgedFrame DEF Return
<1>10. ASSUME NEW h \in Handlers, Fail(h)
       PROVE  Judged'
  BY <1>10, JudgedFrame DEF Fail, Return, environment
<1>11. CASE Crash
  BY <1>11, JudgedFrame DEF Crash, Return, environment
<1>12. CASE UNCHANGED vars
  BY <1>12, JudgedFrame DEF vars, environment, handling
<1> QED
  BY <1>1, <1>2, <1>3, <1>4, <1>5, <1>6, <1>7, <1>8, <1>9, <1>10, <1>11, <1>12
     DEF Next, Fleet, Deliver

-----------------------------------------------------------------------------
(* Order *)

Queued == {c \in Commands : commands[c].status # "none"}

\* A pending command is the last one queued for its device, for the index lets
\* nobody queue another; nothing was queued in the future; what was written had
\* been queued; and what a sole handler holds and has not written is pending,
\* for nobody else decides it.
Ordered ==
  /\ \A c \in Queued : commands[c].requestedAt <= now
  /\ \A c, b \in Queued :
       commands[c].status = "pending" /\ commands[b].device = commands[c].device =>
         commands[b].requestedAt <= commands[c].requestedAt
  /\ wire \subseteq Queued
  /\ \A h \in Handlers : SoleHandler(h) /\ pc[h] \in {"judge", "refuse", "write"} =>
       commands[held[h]].status = "pending"

\* Steps that leave the table and the history alone, and after which a handler
\* holds a command not yet written only if it did so before.
LEMMA OrderedFrame ==
  ASSUME TypeInv, Ordered, commands' = commands, serves' = serves, wire' = wire,
         now' \in Int, now <= now',
         \A h \in Handlers : pc'[h] \in {"judge", "refuse", "write"} =>
           pc[h] \in {"judge", "refuse", "write"} /\ held'[h] = held[h]
  PROVE  Ordered'
<1>1. \A c \in Commands : commands[c].requestedAt \in Int /\ now \in Int
  BY DEF TypeInv, TypeOK, Row
<1>2. (\A c \in Queued : commands[c].requestedAt <= now)'
  BY <1>1 DEF Ordered, Queued
<1> QED BY <1>2 DEF Ordered, Queued, SoleHandler

\* Recording an outcome takes one row out of the pending ones, which no other
\* sole handler holds.
LEMMA OrderedRecord ==
  ASSUME TypeInv, Ordered, NEW h \in Handlers, pc[h] # "idle",
         NEW outcome \in {"sent", "refused"}, Record(h, outcome), Return({h}),
         serves' = serves, wire' = wire, now' = now
  PROVE  Ordered'
<1>1. /\ held[h] \in Commands
      /\ commands'[held[h]].status = outcome
      /\ \A c \in Commands \ {held[h]} : commands'[c] = commands[c]
      /\ \A c \in Commands : /\ commands'[c].device = commands[c].device
                             /\ commands'[c].requestedAt = commands[c].requestedAt
  BY RecordType DEF TypeInv
<1>2. held[h] \in Queued /\ commands[held[h]].device = serves[h]
  BY DEF TypeInv, HoldsOwnCommand, Queued
<1>3. Queued' = Queued
  BY <1>1, <1>2 DEF Queued
<1>4. \A c \in Queued : commands'[c].status = "pending" => commands[c].status = "pending"
  BY <1>1 DEF Queued
<1>5. \A c \in Queued : c \in Commands
  BY DEF Queued
<1>6. (\A c \in Queued : commands[c].requestedAt <= now)'
  BY <1>1, <1>3, <1>5 DEF Ordered
<1>7. (\A c, b \in Queued :
         commands[c].status = "pending" /\ commands[b].device = commands[c].device =>
           commands[b].requestedAt <= commands[c].requestedAt)'
  BY <1>1, <1>3, <1>4, <1>5 DEF Ordered
<1>8. (wire \subseteq Queued)'
  BY <1>3 DEF Ordered
<1>9. ASSUME NEW g \in Handlers, SoleHandler(g), pc'[g] \in {"judge", "refuse", "write"}
      PROVE  commands'[held'[g]].status = "pending"
  <2>1. g # h /\ pc'[g] = pc[g] /\ held'[g] = held[g]
    BY <1>9 DEF Return
  <2>2. held[g] \in Commands /\ commands[held[g]].device = serves[g]
    BY <1>9, <2>1 DEF TypeInv, HoldsOwnCommand
  <2>3. held[g] # held[h]
    BY <1>2, <1>9, <2>1, <2>2 DEF SoleHandler
  <2>4. commands[held[g]].status = "pending"
    BY <1>9, <2>1 DEF Ordered
  <2> QED BY <1>1, <2>1, <2>2, <2>3, <2>4
<1>10. (\A g \in Handlers : SoleHandler(g) /\ pc[g] \in {"judge", "refuse", "write"} =>
          commands[held[g]].status = "pending")'
  BY <1>9 DEF SoleHandler
<1> QED BY <1>6, <1>7, <1>8, <1>10 DEF Ordered

LEMMA OrderedNext == TypeInv /\ Ordered /\ [Next]_vars => Ordered'
<1> SUFFICES ASSUME TypeInv, Ordered, [Next]_vars PROVE Ordered'
  OBVIOUS
<1>0. now \in Int /\ now <= now
  BY DEF TypeInv, TypeOK
<1>1. ASSUME NEW c \in Commands, NEW d \in Devices, NEW k \in Kinds, NEW ttl \in TTLs,
             EnqueueCommand(c, d, k, ttl)
      PROVE  Ordered'
  <2>1. /\ commands[c].status = "none" /\ PendingFor(d) = {}
        /\ commands'[c].device = d /\ commands'[c].status = "pending"
        /\ commands'[c].requestedAt = now
        /\ \A b \in Commands \ {c} : commands'[b] = commands[b]
        /\ serves' = serves /\ now' = now /\ pc' = pc /\ held' = held /\ wire' = wire
    BY <1>1 DEF EnqueueCommand, TypeInv, TypeOK, environment, handling, history
  <2>2. Queued' = Queued \cup {c} /\ c \notin Queued /\ Queued \subseteq Commands
    BY <2>1 DEF Queued
  <2>3. \A b \in Queued : commands'[b] = commands[b]
    BY <2>1, <2>2
  <2>4. \A b \in Queued : commands[b].device = d => commands[b].status # "pending"
    BY <2>1, <2>2 DEF PendingFor
  <2>5. (\A b \in Queued : commands[b].requestedAt <= now)'
    BY <1>0, <2>1, <2>2, <2>3 DEF Ordered
  <2>6. ASSUME NEW a \in Queued', NEW b \in Queued', commands'[a].status = "pending",
               commands'[b].device = commands'[a].device
        PROVE  commands'[b].requestedAt <= commands'[a].requestedAt
    <3>1. CASE a = c
      BY <2>1, <2>5, <3>1
    <3>2. CASE a # c /\ b = c
      BY <2>1, <2>2, <2>3, <2>4, <2>6, <3>2
    <3>3. CASE a # c /\ b # c
      BY <2>2, <2>3, <2>6, <3>3 DEF Ordered
    <3> QED BY <3>1, <3>2, <3>3
  <2>7. (wire \subseteq Queued)'
    BY <2>1, <2>2 DEF Ordered
  <2>8. ASSUME NEW g \in Handlers, SoleHandler(g), pc'[g] \in {"judge", "refuse", "write"}
        PROVE  commands'[held'[g]].status = "pending"
    <3>1. commands[held[g]].status = "pending" /\ held[g] \in Commands
      BY <2>1, <2>8 DEF Ordered, TypeInv, HoldsOwnCommand
    <3> QED BY <2>1, <3>1
  <2>9. (\A g \in Handlers : SoleHandler(g) /\ pc[g] \in {"judge", "refuse", "write"} =>
           commands[held[g]].status = "pending")'
    BY <2>1, <2>8 DEF SoleHandler
  <2> QED BY <2>5, <2>6, <2>7, <2>9 DEF Ordered
<1>2. ASSUME NEW d \in Devices, NEW v \in Vehicles \cup {NoVehicle}, UpdateDevice(d, v)
      PROVE  Ordered'
  BY <1>0, <1>2, OrderedFrame DEF UpdateDevice, handling, history
<1>3. ASSUME NEW v \in Vehicles, NEW ts \in 0 .. now + ClockSkew, NEW s \in Reading,
             InsertPing(v, ts, s)
      PROVE  Ordered'
  BY <1>0, <1>3, OrderedFrame DEF InsertPing, handling, history
<1>4. CASE Tick
  <2>1. now' \in Int /\ now <= now'
    BY <1>0, <1>4 DEF Tick
  <2> QED BY <1>4, <2>1, OrderedFrame DEF Tick, handling, history
<1>5. ASSUME NEW h \in Handlers, NextPendingCommand(h)
      PROVE  Ordered'
  <2>1. /\ pc' = [pc EXCEPT ![h] = "judge"]
        /\ commands' = commands /\ serves' = serves /\ wire' = wire /\ now' = now
    BY <1>5 DEF NextPendingCommand, Goto, environment, history
  <2>2. PICK c \in PendingFor(serves[h]) : held' = [held EXCEPT ![h] = c]
    BY <1>5 DEF NextPendingCommand
  <2>3. ASSUME NEW g \in Handlers, SoleHandler(g), pc'[g] \in {"judge", "refuse", "write"}
        PROVE  commands'[held'[g]].status = "pending"
    <3>1. CASE g = h
      BY <2>1, <2>2, <3>1 DEF PendingFor, TypeInv, TypeOK
    <3>2. CASE g # h
      BY <2>1, <2>2, <2>3, <3>2 DEF Ordered, TypeInv, TypeOK
    <3> QED BY <3>1, <3>2
  <2> QED BY <2>1, <2>3 DEF Ordered, Queued, SoleHandler
<1>6. ASSUME NEW h \in Handlers, Judge(h)
      PROVE  Ordered'
  <2>1. \A g \in Handlers : pc'[g] \in {"judge", "refuse", "write"}
                            => pc[g] \in {"judge", "refuse", "write"}
    BY <1>6 DEF Judge, Goto, TypeInv, TypeOK
  <2> QED BY <1>0, <1>6, <2>1, OrderedFrame DEF Judge, environment, history
<1>7. ASSUME NEW h \in Handlers, MarkCommandRefused(h)
      PROVE  Ordered'
  BY <1>7, OrderedRecord DEF MarkCommandRefused, environment, history
<1>8. ASSUME NEW h \in Handlers, Write(h)
      PROVE  Ordered'
  <2>1. /\ pc[h] = "write" /\ pc' = [pc EXCEPT ![h] = "mark"] /\ held' = held
        /\ wire' = wire \cup {held[h]}
        /\ commands' = commands /\ serves' = serves /\ now' = now
    BY <1>8 DEF Write, Goto, environment
  <2>2. held[h] \in Queued
    BY <2>1 DEF TypeInv, HoldsOwnCommand, Queued
  <2>3. \A g \in Handlers : pc'[g] \in {"judge", "refuse", "write"} => pc'[g] = pc[g]
    BY <2>1 DEF TypeInv, TypeOK
  <2> QED BY <2>1, <2>2, <2>3 DEF Ordered, Queued, SoleHandler
<1>9. ASSUME NEW h \in Handlers, MarkCommandSent(h)
      PROVE  Ordered'
  BY <1>9, OrderedRecord DEF MarkCommandSent, environment, history
<1>10. ASSUME NEW h \in Handlers, Fail(h)
       PROVE  Ordered'
  BY <1>0, <1>10, OrderedFrame DEF Fail, Return, environment
<1>11. CASE Crash
  BY <1>0, <1>11, OrderedFrame DEF Crash, Return, environment
<1>12. CASE UNCHANGED vars
  BY <1>0, <1>12, OrderedFrame DEF vars, environment, handling, history
<1> QED
  BY <1>1, <1>2, <1>3, <1>4, <1>5, <1>6, <1>7, <1>8, <1>9, <1>10, <1>11, <1>12
     DEF Next, Fleet, Deliver

\* In every behaviour a device served by one connection gets its commands in the
\* order they were given.
THEOREM OrderKept == Spec => []CommandsKeepTheirOrder
<1>1. Init => Ordered
  BY DEF Init, Ordered, Queued, NoRow
<1>2. TypeInv /\ Ordered => CommandsKeepTheirOrder
  <2> SUFFICES ASSUME TypeInv, Ordered, NEW h \in Handlers, SoleHandler(h), pc[h] = "write",
                      NEW c \in wire, commands[c].device = serves[h]
               PROVE  commands[c].requestedAt <= commands[held[h]].requestedAt
    BY DEF CommandsKeepTheirOrder
  <2>1. /\ held[h] \in Queued /\ commands[held[h]].device = serves[h]
        /\ commands[held[h]].status = "pending"
    BY DEF TypeInv, HoldsOwnCommand, Ordered, Queued
  <2> QED BY <2>1 DEF Ordered
<1> QED BY <1>1, <1>2, TypeInvInit, TypeInvNext, OrderedNext, PTL DEF Spec

-----------------------------------------------------------------------------
(* The audit trail *)

\* What has just been written is in the history of writes, and every row that
\* says `sent' is true.
SentTrue ==
  /\ \A h \in Handlers : pc[h] = "mark" => held[h] \in wire
  /\ SentRowsAreTrue

\* A snapshot that permits a command after some time in the queue permits it
\* without any.
LEMMA InterlockUnqueued ==
  ASSUME NEW kind, NEW q, NEW v, EvaluateInterlock(kind, q, v)
  PROVE  EvaluateInterlock(kind, 0, v)
BY ConfigAssumption DEF EvaluateInterlock

\* The rows an action does not touch stay true while the history only grows.
LEMMA SentTrueFrame ==
  ASSUME TypeInv, SentTrue, wire \subseteq wire',
         \A h \in Handlers : pc'[h] = "mark" => pc[h] = "mark" /\ held'[h] = held[h],
         \A c \in Commands : commands'[c].status = "sent" => commands'[c] = commands[c]
  PROVE  SentTrue'
<1>1. ASSUME NEW c \in Commands, commands'[c].status = "sent"
      PROVE  (c \in wire /\ EvaluateInterlock(commands[c].kind, 0, commands[c].basis))'
  <2>1. commands'[c] = commands[c]
    BY <1>1
  <2>2. c \in wire /\ EvaluateInterlock(commands[c].kind, 0, commands[c].basis)
    BY <1>1, <2>1 DEF SentTrue, SentRowsAreTrue
  <2> QED BY <2>1, <2>2 DEF EvaluateInterlock
<1> QED BY <1>1 DEF SentTrue, SentRowsAreTrue

LEMMA SentTrueNext == TypeInv /\ Judged /\ SentTrue /\ [Next]_vars => SentTrue'
<1> SUFFICES ASSUME TypeInv, Judged, SentTrue, [Next]_vars PROVE SentTrue'
  OBVIOUS
<1>1. ASSUME NEW c \in Commands, NEW d \in Devices, NEW k \in Kinds, NEW ttl \in TTLs,
             EnqueueCommand(c, d, k, ttl)
      PROVE  SentTrue'
  <2>1. \A b \in Commands : commands'[b].status = "sent" => commands'[b] = commands[b]
    BY <1>1 DEF EnqueueCommand, TypeInv, TypeOK
  <2> QED BY <1>1, <2>1, SentTrueFrame DEF EnqueueCommand, handling, history
<1>2. ASSUME NEW d \in Devices, NEW v \in Vehicles \cup {NoVehicle}, UpdateDevice(d, v)
      PROVE  SentTrue'
  BY <1>2, SentTrueFrame DEF UpdateDevice, handling, history
<1>3. ASSUME NEW v \in Vehicles, NEW ts \in 0 .. now + ClockSkew, NEW s \in Reading,
             InsertPing(v, ts, s)
      PROVE  SentTrue'
  BY <1>3, SentTrueFrame DEF InsertPing, handling, history
<1>4. CASE Tick
  BY <1>4, SentTrueFrame DEF Tick, handling, history
<1>5. ASSUME NEW h \in Handlers, NextPendingCommand(h)
      PROVE  SentTrue'
  <2>1. \A g \in Handlers : pc'[g] = "mark" => pc[g] = "mark" /\ held'[g] = held[g]
    BY <1>5 DEF NextPendingCommand, Goto, TypeInv, TypeOK
  <2> QED BY <1>5, <2>1, SentTrueFrame DEF NextPendingCommand, history
<1>6. ASSUME NEW h \in Handlers, Judge(h)
      PROVE  SentTrue'
  <2>1. \A g \in Handlers : pc'[g] = "mark" => pc[g] = "mark" /\ held'[g] = held[g]
    BY <1>6 DEF Judge, Goto, TypeInv, TypeOK
  <2> QED BY <1>6, <2>1, SentTrueFrame DEF Judge, history
<1>7. ASSUME NEW h \in Handlers, MarkCommandRefused(h)
      PROVE  SentTrue'
  <2>1. pc[h] # "idle" /\ Record(h, "refused") /\ Return({h}) /\ wire' = wire
    BY <1>7 DEF MarkCommandRefused, history
  <2>2. \A c \in Commands : commands'[c].status = "sent" => commands'[c] = commands[c]
    BY <2>1, RecordType DEF TypeInv
  <2> QED BY <2>1, <2>2, SentTrueFrame DEF Return
<1>8. ASSUME NEW h \in Handlers, Write(h)
      PROVE  SentTrue'
  <2>1. \A g \in Handlers : pc'[g] = "mark" => held'[g] \in wire'
    BY <1>8 DEF Write, Goto, TypeInv, TypeOK, SentTrue
  <2>2. SentRowsAreTrue'
    BY <1>8 DEF Write, SentTrue, SentRowsAreTrue, EvaluateInterlock
  <2> QED BY <2>1, <2>2 DEF SentTrue
<1>9. ASSUME NEW h \in Handlers, MarkCommandSent(h)
      PROVE  SentTrue'
  <2>1. pc[h] = "mark" /\ Record(h, "sent") /\ Return({h}) /\ wire' = wire
    BY <1>9 DEF MarkCommandSent, history
  <2>2. \A g \in Handlers : pc'[g] = "mark" => held'[g] \in wire'
    BY <2>1 DEF Return, SentTrue
  <2>3. held[h] \in wire /\ EvaluateInterlock(commands[held[h]].kind, 0, decision[h].snap)
    BY <2>1, InterlockUnqueued DEF SentTrue, Judged
  <2>4. ASSUME NEW c \in Commands, commands'[c].status = "sent"
        PROVE  (c \in wire /\ EvaluateInterlock(commands[c].kind, 0, commands[c].basis))'
    <3>1. CASE c = held[h]
      <4>1. /\ commands'[c].kind = commands[held[h]].kind
            /\ commands'[c].basis = decision[h].snap
        BY <2>1, <3>1, RecordType DEF TypeInv
      <4> QED BY <2>1, <2>3, <3>1, <4>1 DEF EvaluateInterlock
    <3>2. CASE c # held[h]
      <4>1. commands'[c] = commands[c]
        BY <2>1, <3>2, RecordType DEF TypeInv
      <4>2. c \in wire /\ EvaluateInterlock(commands[c].kind, 0, commands[c].basis)
        BY <2>4, <4>1 DEF SentTrue, SentRowsAreTrue
      <4> QED BY <2>1, <4>1, <4>2 DEF EvaluateInterlock
    <3> QED BY <3>1, <3>2
  <2> QED BY <2>2, <2>4 DEF SentTrue, SentRowsAreTrue
<1>10. ASSUME NEW h \in Handlers, Fail(h)
       PROVE  SentTrue'
  BY <1>10, SentTrueFrame DEF Fail, Return
<1>11. CASE Crash
  BY <1>11, SentTrueFrame DEF Crash, Return
<1>12. CASE UNCHANGED vars
  BY <1>12, SentTrueFrame DEF vars, handling, history
<1> QED
  BY <1>1, <1>2, <1>3, <1>4, <1>5, <1>6, <1>7, <1>8, <1>9, <1>10, <1>11, <1>12
     DEF Next, Fleet, Deliver

-----------------------------------------------------------------------------
(* Repetition *)

\* A delivery on record in a handler is of its own device, and its command has
\* been decided unless the handler is about to record it.
Settled ==
  \A h \in Handlers : \A c \in delivered[h] :
    /\ commands[c].device = serves[h]
    /\ commands[c].status # "none"
    /\ commands[c].status # "pending" \/ (pc[h] = "mark" /\ held[h] = c)

\* A handler that holds a command and has not written it yet never wrote it.
FirstTime ==
  \A h \in Handlers : pc[h] \in {"judge", "refuse", "write"} => held[h] \notin delivered[h]

DeliveredInv == Settled /\ FirstTime /\ SoleDeliveryStaysRecorded

\* Steps that neither write nor record anything: the queued rows stay as they
\* are, and no handler holds a command it did not hold.
LEMMA DeliveredFrame ==
  ASSUME TypeInv, DeliveredInv, serves' = serves, delivered' = delivered,
         pc' = pc, held' = held,
         \A c \in Commands : commands[c].status # "none" => commands'[c] = commands[c]
  PROVE  DeliveredInv'
<1>1. \A h \in Handlers : \A c \in delivered[h] : commands'[c] = commands[c]
  BY DEF TypeInv, TypeOK, DeliveredInv, Settled
<1>2. Settled'
  BY <1>1 DEF DeliveredInv, Settled
<1>3. FirstTime'
  BY DEF DeliveredInv, FirstTime
<1>4. SoleDeliveryStaysRecorded'
  BY <1>1 DEF DeliveredInv, SoleDeliveryStaysRecorded, SoleHandler
<1> QED BY <1>2, <1>3, <1>4 DEF DeliveredInv

\* Handlers that stop before recording what they wrote forget it.
LEMMA DeliveredForget ==
  ASSUME TypeInv, DeliveredInv, NEW H, Return(H), Forget(H),
         serves' = serves, commands' = commands
  PROVE  DeliveredInv'
<1>1. \A h \in Handlers : \A c \in delivered'[h] :
        /\ c \in delivered[h]
        /\ pc[h] = "mark" /\ held[h] = c => pc'[h] = "mark" /\ held'[h] = c
  BY DEF Return, Forget, TypeInv, TypeOK
<1>2. Settled'
  BY <1>1 DEF DeliveredInv, Settled
<1>3. FirstTime'
  BY DEF Return, Forget, DeliveredInv, FirstTime
<1>4. SoleDeliveryStaysRecorded'
  BY <1>1 DEF DeliveredInv, SoleDeliveryStaysRecorded, SoleHandler
<1> QED BY <1>2, <1>3, <1>4 DEF DeliveredInv

LEMMA DeliveredNext == TypeInv /\ DeliveredInv /\ [Next]_vars => DeliveredInv'
<1> SUFFICES ASSUME TypeInv, DeliveredInv, [Next]_vars PROVE DeliveredInv'
  OBVIOUS
<1>1. ASSUME NEW c \in Commands, NEW d \in Devices, NEW k \in Kinds, NEW ttl \in TTLs,
             EnqueueCommand(c, d, k, ttl)
      PROVE  DeliveredInv'
  <2>1. \A b \in Commands : commands[b].status # "none" => commands'[b] = commands[b]
    BY <1>1 DEF EnqueueCommand, TypeInv, TypeOK
  <2> QED BY <1>1, <2>1, DeliveredFrame DEF EnqueueCommand, environment, handling, history
<1>2. ASSUME NEW d \in Devices, NEW v \in Vehicles \cup {NoVehicle}, UpdateDevice(d, v)
      PROVE  DeliveredInv'
  BY <1>2, DeliveredFrame DEF UpdateDevice, handling, history
<1>3. ASSUME NEW v \in Vehicles, NEW ts \in 0 .. now + ClockSkew, NEW s \in Reading,
             InsertPing(v, ts, s)
      PROVE  DeliveredInv'
  BY <1>3, DeliveredFrame DEF InsertPing, handling, history
<1>4. CASE Tick
  BY <1>4, DeliveredFrame DEF Tick, handling, history
<1>5. ASSUME NEW h \in Handlers, NextPendingCommand(h)
      PROVE  DeliveredInv'
  <2>1. /\ pc[h] = "idle" /\ pc' = [pc EXCEPT ![h] = "judge"]
        /\ commands' = commands /\ serves' = serves /\ delivered' = delivered
    BY <1>5 DEF NextPendingCommand, Goto, environment, history
  <2>2. PICK c \in PendingFor(serves[h]) : held' = [held EXCEPT ![h] = c]
    BY <1>5 DEF NextPendingCommand
  <2>3. c \notin delivered[h]
    BY <2>1 DEF PendingFor, DeliveredInv, Settled
  <2>4. \A g \in Handlers : pc[g] = "mark" => pc'[g] = pc[g] /\ held'[g] = held[g]
    BY <2>1, <2>2 DEF TypeInv, TypeOK
  <2>5. Settled'
    BY <2>1, <2>4 DEF DeliveredInv, Settled
  <2>6. FirstTime'
    BY <2>1, <2>2, <2>3 DEF DeliveredInv, FirstTime, TypeInv, TypeOK
  <2>7. SoleDeliveryStaysRecorded'
    BY <2>1, <2>4 DEF DeliveredInv, SoleDeliveryStaysRecorded, SoleHandler
  <2> QED BY <2>5, <2>6, <2>7 DEF DeliveredInv
<1>6. ASSUME NEW h \in Handlers, Judge(h)
      PROVE  DeliveredInv'
  <2>1. /\ commands' = commands /\ serves' = serves /\ delivered' = delivered
        /\ held' = held
    BY <1>6 DEF Judge, environment, history
  <2>2. \A g \in Handlers : pc[g] = "mark" => pc'[g] = pc[g]
    BY <1>6 DEF Judge, Goto, TypeInv, TypeOK
  <2>3. \A g \in Handlers : pc'[g] \in {"judge", "refuse", "write"}
                            => pc[g] \in {"judge", "refuse", "write"}
    BY <1>6 DEF Judge, Goto, TypeInv, TypeOK
  <2>4. Settled'
    BY <2>1, <2>2 DEF DeliveredInv, Settled
  <2>5. FirstTime'
    BY <2>1, <2>3 DEF DeliveredInv, FirstTime
  <2>6. SoleDeliveryStaysRecorded'
    BY <2>1, <2>2 DEF DeliveredInv, SoleDeliveryStaysRecorded, SoleHandler
  <2> QED BY <2>4, <2>5, <2>6 DEF DeliveredInv
<1>7. ASSUME NEW h \in Handlers, MarkCommandRefused(h)
      PROVE  DeliveredInv'
  <2>1. /\ pc[h] = "refuse" /\ Record(h, "refused") /\ Return({h})
        /\ serves' = serves /\ delivered' = delivered
    BY <1>7 DEF MarkCommandRefused, environment, history
  <2>2. \A g \in Handlers : pc[g] = "mark" => pc'[g] = pc[g] /\ held'[g] = held[g]
    BY <2>1 DEF Return
  <2>3. /\ held[h] \in Commands /\ held[h] \notin delivered[h]
        /\ commands[held[h]].device = serves[h]
    BY <2>1 DEF DeliveredInv, FirstTime, TypeInv, HoldsOwnCommand
  <2>4. /\ commands'[held[h]].status = "refused"
        /\ \A c \in Commands \ {held[h]} : commands'[c] = commands[c]
        /\ \A c \in Commands : commands'[c].device = commands[c].device
    BY <2>1, RecordType DEF TypeInv
  <2>5. \A g \in Handlers : delivered[g] \subseteq Commands
    BY DEF TypeInv, TypeOK
  <2>6. Settled'
    BY <2>1, <2>2, <2>3, <2>4, <2>5 DEF DeliveredInv, Settled
  <2>7. FirstTime'
    BY <2>1 DEF DeliveredInv, FirstTime, Return
  <2>8. ASSUME NEW g \in Handlers, SoleHandler(g), NEW c \in delivered[g]
        PROVE  commands'[c].status = "sent" \/ (pc'[g] = "mark" /\ held'[g] = c)
    <3>1. c # held[h]
      BY <2>3, <2>8 DEF SoleHandler, DeliveredInv, Settled
    <3>2. commands'[c] = commands[c]
      BY <2>4, <2>5, <3>1
    <3>3. commands[c].status = "sent" \/ (pc[g] = "mark" /\ held[g] = c)
      BY <2>8 DEF DeliveredInv, SoleDeliveryStaysRecorded
    <3> QED BY <2>2, <3>2, <3>3
  <2>9. SoleDeliveryStaysRecorded'
    BY <2>1, <2>8 DEF SoleDeliveryStaysRecorded, SoleHandler
  <2> QED BY <2>6, <2>7, <2>9 DEF DeliveredInv
<1>8. ASSUME NEW h \in Handlers, Write(h)
      PROVE  DeliveredInv'
  <2>1. /\ pc[h] = "write" /\ pc' = [pc EXCEPT ![h] = "mark"] /\ held' = held
        /\ delivered' = [delivered EXCEPT ![h] = @ \cup {held[h]}]
        /\ serves' = serves /\ commands' = commands
    BY <1>8 DEF Write, Goto, environment
  <2>2. /\ commands[held[h]].device = serves[h]
        /\ commands[held[h]].status # "none"
    BY <2>1 DEF TypeInv, HoldsOwnCommand
  <2>3. \A g \in Handlers : \A c \in delivered'[g] :
          \/ g = h /\ c = held[h] /\ pc'[g] = "mark"
          \/ c \in delivered[g] /\ (pc[g] = "mark" => pc'[g] = "mark")
    BY <2>1 DEF TypeInv, TypeOK
  <2>4. Settled'
    BY <2>1, <2>2, <2>3 DEF DeliveredInv, Settled
  <2>5. FirstTime'
    BY <2>1 DEF DeliveredInv, FirstTime, TypeInv, TypeOK
  <2>6. SoleDeliveryStaysRecorded'
    BY <2>1, <2>3 DEF DeliveredInv, SoleDeliveryStaysRecorded, SoleHandler
  <2> QED BY <2>4, <2>5, <2>6 DEF DeliveredInv
<1>9. ASSUME NEW h \in Handlers, MarkCommandSent(h)
      PROVE  DeliveredInv'
  <2>1. /\ pc[h] = "mark" /\ Record(h, "sent") /\ Return({h})
        /\ serves' = serves /\ delivered' = delivered
    BY <1>9 DEF MarkCommandSent, environment, history
  <2>2. /\ held[h] \in Commands
        /\ commands'[held[h]].status = "sent"
        /\ \A c \in Commands \ {held[h]} : commands'[c] = commands[c]
        /\ \A c \in Commands : commands'[c].device = commands[c].device
    BY <2>1, RecordType DEF TypeInv
  <2>3. \A g \in Handlers : delivered[g] \subseteq Commands
    BY DEF TypeInv, TypeOK
  <2>4. ASSUME NEW g \in Handlers, NEW c \in delivered[g],
               pc[g] = "mark" /\ held[g] = c
        PROVE  commands'[c].status = "sent" \/ (pc'[g] = "mark" /\ held'[g] = c)
    BY <2>1, <2>2, <2>4 DEF Return
  <2>5. Settled'
    BY <2>1, <2>2, <2>3, <2>4 DEF DeliveredInv, Settled
  <2>6. FirstTime'
    BY <2>1 DEF DeliveredInv, FirstTime, Return
  <2>7. SoleDeliveryStaysRecorded'
    BY <2>1, <2>2, <2>3, <2>4 DEF DeliveredInv, SoleDeliveryStaysRecorded, SoleHandler
  <2> QED BY <2>5, <2>6, <2>7 DEF DeliveredInv
<1>10. ASSUME NEW h \in Handlers, Fail(h)
       PROVE  DeliveredInv'
  BY <1>10, DeliveredForget DEF Fail, environment
<1>11. CASE Crash
  BY <1>11, DeliveredForget DEF Crash, environment
<1>12. CASE UNCHANGED vars
  BY <1>12, DeliveredFrame DEF vars, environment, handling, history
<1> QED
  BY <1>1, <1>2, <1>3, <1>4, <1>5, <1>6, <1>7, <1>8, <1>9, <1>10, <1>11, <1>12
     DEF Next, Fleet, Deliver

LEMMA DeliveredInit == Init => DeliveredInv
BY DEF Init, DeliveredInv, Settled, FirstTime, SoleDeliveryStaysRecorded

\* In every behaviour a connection writes a command again only if the record of
\* its earlier write was lost.
THEOREM NoRepetition == Spec => []NoRepeatedDelivery
<1>1. DeliveredInv => NoRepeatedDelivery
  BY DEF DeliveredInv, FirstTime, NoRepeatedDelivery
<1> QED BY <1>1, TypeInvInit, TypeInvNext, DeliveredInit, DeliveredNext, PTL DEF Spec

\* In every behaviour a row that says `sent' belongs to a command that was written, on
\* a snapshot that permits it, and a device served by one connection keeps the record
\* of every delivery that was recorded.
THEOREM AuditTrailTrue == Spec => []AuditTrailIsTrue
<1>1. Init => Judged
  BY DEF Init, Judged
<1>2. Init => SentTrue
  BY DEF Init, SentTrue, SentRowsAreTrue, NoRow
<1>3. SentTrue /\ DeliveredInv => AuditTrailIsTrue
  BY DEF SentTrue, DeliveredInv, AuditTrailIsTrue
<1> QED
  BY <1>1, <1>2, <1>3, TypeInvInit, TypeInvNext, JudgedNext, SentTrueNext,
     DeliveredInit, DeliveredNext, PTL DEF Spec
=============================================================================
