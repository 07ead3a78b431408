--------------------------- MODULE OverspeedProofs ---------------------------
(***************************************************************************)
(* Proofs about OverspeedMonitor, for any number of handlers, any times,   *)
(* speeds and limits, and whatever the handlers' statements interleave.    *)
(***************************************************************************)
EXTENDS OverspeedMonitor, FiniteSetTheorems, TLAPS

-----------------------------------------------------------------------------
(* The inductive invariant *)

Started(r) == r.breaching => r.startedAt \in over

\* Somebody has raised, will raise or was kept from raising the alert of the
\* breach that began at s.
Covered(s, raised_, lost_, at, d) ==
  \/ s \in raised_ \cup lost_
  \/ \E h \in Handlers : at[h] = "insert" /\ d[h].next.startedAt = s

\* What a handler is about to save began with a sample over the limit; an alert
\* it will raise is sustained; and if it marks the breach as alerted without
\* raising the alert itself, that has been seen to.
DecisionInv(h) ==
  LET d == decision[h] IN
  /\ pc[h] # "idle" => Started(d.next)
  /\ pc[h] = "insert" => d.alert
  /\ d.alert => d.next.breaching /\ SustainedFrom(d.next.startedAt, over)
  /\ pc[h] = "save" /\ d.next.alerted /\ ~d.alert
        => Covered(d.next.startedAt, events, lost, pc, decision)

IInv ==
  /\ TypeOK
  /\ AlertsAreSustained
  /\ AlertedIsRaised
  /\ Started(breach)
  /\ \A h \in Handlers : DecisionInv(h)

\* While ingests come one at a time, the row that is there, or about to be saved, is an
\* account of the stretch: it began when the stretch did, has not been clear since, and
\* is marked as alerted once the stretch is long enough.
Accounts(r, stretch_, slowed_) ==
  /\ r.breaching <=> stretch_ # NoStretch
  /\ r.breaching =>
       /\ stretch_.from = r.startedAt /\ r.startedAt \notin slowed_
       /\ ~r.alerted => stretch_.to - stretch_.from < MinDuration

\* Only the handler that is at work may hold another row than the table.
Alone ==
  /\ \A g, h \in Handlers : pc[g] # "idle" /\ pc[h] # "idle" => g = h
  /\ Quiet => Accounts(breach, stretch, slowed)
  /\ \A h \in Handlers : pc[h] # "idle" => Accounts(decision[h].next, stretch, slowed)
  /\ \A h \in Handlers : pc[h] = "insert" => breach = decision[h].next

\* The alerts of the stretch, of the last one if the vehicle is clear, are at most one.
OneRaised ==
  /\ \E s \in Times \cup {ZeroTime} : raised \subseteq {s}
  /\ stretch # NoStretch => raised \subseteq {stretch.from}

OrderlyInv == Orderly => lost = {} /\ Alone /\ OneRaised /\ AlertsAreUnbroken

-----------------------------------------------------------------------------
(* The rule *)

LEMMA MinDurationType == MinDuration \in Nat \ {0}
BY DataAssumption DEF MinDuration

LEMMA SpeedLimitType == TypeOK => SpeedLimit \in Nat
BY DataAssumption DEF TypeOK, SpeedLimit

LEMMA NotBreachingType ==
  NotBreaching \in Breach /\ ~NotBreaching.breaching /\ ~NotBreaching.alerted
BY DEF NotBreaching, Breach

LEMMA BreachingType ==
  ASSUME NEW r \in Breach, r.breaching
  PROVE  /\ r \in [breaching : {TRUE}, startedAt : Times, peak : Speeds, alerted : BOOLEAN]
         /\ r.startedAt \in Times
<1>1. r # NotBreaching
  BY NotBreachingType
<1>2. r \in [breaching : {TRUE}, startedAt : Times, peak : Speeds, alerted : BOOLEAN]
  BY <1>1 DEF Breach
<1> QED
  BY <1>2

\* What evaluateOverspeed returns, for any row and sample.
LEMMA Evaluation ==
  ASSUME NEW prev \in Breach, NEW speed \in Speeds, NEW lim \in Nat, NEW ts \in Times,
         NEW minDur \in Nat \ {0}, NEW d, d = EvaluateOverspeed(prev, speed, lim, ts, minDur)
  PROVE  /\ d \in Decision
         /\ d.alert => /\ prev.breaching /\ d.next.breaching
                       /\ d.next.startedAt = prev.startedAt
                       /\ ts - prev.startedAt >= minDur
                       /\ ~Unusable(speed, lim) /\ speed > lim
         /\ d.next.breaching =>
              \/ prev.breaching /\ d.next.startedAt = prev.startedAt
              \/ d.next.startedAt = ts /\ ~Unusable(speed, lim) /\ speed > lim
         /\ d.next.alerted /\ ~d.alert => prev.alerted /\ d.next.startedAt = prev.startedAt
<1> DEFINE alert == IF prev.breaching THEN Sustained(prev, ts, minDur) ELSE minDur = 0
<1>1. CASE Unusable(speed, lim)
  BY <1>1 DEF EvaluateOverspeed, Decision, Breach, NotBreaching
<1>2. CASE ~Unusable(speed, lim) /\ speed > lim /\ ~prev.breaching
  <2>1. d = [next |-> Opened(speed, ts, minDur), alert |-> FALSE]
    BY <1>2 DEF EvaluateOverspeed
  <2>2. Opened(speed, ts, minDur) \in Breach /\ ~Opened(speed, ts, minDur).alerted
        /\ Opened(speed, ts, minDur).startedAt = ts
    BY DEF Opened, Breach
  <2> QED
    BY <1>2, <2>1, <2>2 DEF Decision
<1>3. CASE ~Unusable(speed, lim) /\ speed > lim /\ prev.breaching
  <2> DEFINE b == Sustained(prev, ts, minDur)
  <2>0. b \in BOOLEAN
    BY DEF Sustained
  <2>1. d = [next |-> Continued(prev, speed, b), alert |-> b]
    BY <1>3 DEF EvaluateOverspeed
  <2>2. /\ Continued(prev, speed, b) \in Breach
        /\ Continued(prev, speed, b).breaching
        /\ Continued(prev, speed, b).startedAt = prev.startedAt
        /\ Continued(prev, speed, b).alerted = (prev.alerted \/ b)
    <3>1. /\ prev \in [breaching : {TRUE}, startedAt : Times, peak : Speeds, alerted : BOOLEAN]
      BY <1>3, BreachingType
    <3>2. Larger(prev.peak, speed) \in Speeds
      BY <3>1 DEF Larger
    <3> HIDE DEF b
    <3> QED
      BY <2>0, <3>1, <3>2 DEF Continued, Breach
  <2>3. b => ts - prev.startedAt >= minDur
    BY DEF Sustained
  <2> HIDE DEF b
  <2> QED
    BY <1>3, <2>0, <2>1, <2>2, <2>3 DEF Decision
<1>4. CASE ~Unusable(speed, lim) /\ ~(speed > lim)
  <2>1. d.alert = FALSE /\ d.next \in {prev, NotBreaching} /\ d = [next |-> d.next, alert |-> FALSE]
    BY <1>4 DEF EvaluateOverspeed, Closed
  <2> QED
    BY <2>1, NotBreachingType DEF Decision
<1> QED
  BY <1>1, <1>2, <1>3, <1>4

-----------------------------------------------------------------------------
(* Types *)

LEMMA FaultType == TypeOK /\ Fault => faults' \in 0 .. MaxFaults
BY DataAssumption DEF TypeOK, Fault

LEMMA NoDecisionType == NoDecision \in Decision /\ ~NoDecision.alert
BY NotBreachingType DEF NoDecision, Decision

LEMMA ReturnType ==
  ASSUME TypeOK, NEW h \in Handlers, Return(h)
  PROVE  pc' \in [Handlers -> {"idle", "save", "insert"}] /\ decision' \in [Handlers -> Decision]
BY NoDecisionType DEF TypeOK, Return

LEMMA NoteType ==
  ASSUME TypeOK, NEW h \in Handlers, NEW speed \in Speeds, NEW ts \in Times, NEW lim \in Nat,
         Note(h, speed, ts, lim)
  PROVE  /\ over' \subseteq Times /\ overlap' \in BOOLEAN
         /\ stretch' \in [from : Times \cup {ZeroTime}, to : Times \cup {ZeroTime}]
         /\ raised' \subseteq Times /\ slowed' \subseteq Times
<1> DEFINE isOver  == ~Unusable(speed, lim) /\ speed > lim
           isClear == ~Unusable(speed, lim) /\ ~isOver /\ speed <= lim - Hysteresis
<1>1. over' \subseteq Times /\ overlap' \in BOOLEAN /\ raised' \subseteq Times
  BY DEF TypeOK, Note
<1>2. breach.breaching => breach.startedAt \in Times
  BY BreachingType DEF TypeOK
<1>3. slowed' \subseteq Times
  BY <1>2 DEF TypeOK, Note
<1>4. stretch' \in [from : Times \cup {ZeroTime}, to : Times \cup {ZeroTime}]
  <2>1. NoStretch \in [from : Times \cup {ZeroTime}, to : Times \cup {ZeroTime}]
    BY DEF NoStretch
  <2>2. [from |-> ts, to |-> ts] \in [from : Times \cup {ZeroTime}, to : Times \cup {ZeroTime}]
    OBVIOUS
  <2>3. Larger(stretch.to, ts) \in Times \cup {ZeroTime}
    BY DEF TypeOK, Larger
  <2>4. [stretch EXCEPT !.to = Larger(stretch.to, ts)]
          \in [from : Times \cup {ZeroTime}, to : Times \cup {ZeroTime}]
    BY <2>3 DEF TypeOK
  <2>5. stretch' \in {NoStretch, stretch, [from |-> ts, to |-> ts],
                      [stretch EXCEPT !.to = Larger(stretch.to, ts)]}
    BY DEF Note
  <2> QED
    BY <2>1, <2>2, <2>4, <2>5 DEF TypeOK
<1> QED
  BY <1>1, <1>3, <1>4

LEMMA TypeNext == IInv /\ [Next]_vars => TypeOK'
<1> SUFFICES ASSUME IInv, [Next]_vars PROVE TypeOK'
  OBVIOUS
<1> USE DEF IInv
<1>1. ASSUME NEW h \in Handlers, NEW speed \in Speeds, NEW ts \in Times, Load(h, speed, ts)
      PROVE  TypeOK'
  <2> DEFINE d == EvaluateOverspeed(breach, speed, SpeedLimit, ts, MinDuration)
  <2>1. d \in Decision
    BY Evaluation, MinDurationType, SpeedLimitType DEF TypeOK
  <2>2. pc' \in [Handlers -> {"idle", "save", "insert"}] /\ decision' \in [Handlers -> Decision]
    <3> HIDE DEF d
    <3>1. CASE UNCHANGED handler
      BY <3>1 DEF TypeOK, handler
    <3>2. CASE pc' = [pc EXCEPT ![h] = "save"] /\ decision' = [decision EXCEPT ![h] = d]
      BY <2>1, <3>2 DEF TypeOK
    <3> QED
      BY <1>1, <3>1, <3>2 DEF Load, d
  <2>3. Note(h, speed, ts, SpeedLimit)
    BY <1>1 DEF Load
  <2>4. /\ over' \subseteq Times /\ overlap' \in BOOLEAN
        /\ stretch' \in [from : Times \cup {ZeroTime}, to : Times \cup {ZeroTime}]
        /\ raised' \subseteq Times /\ slowed' \subseteq Times
    BY <2>3, NoteType, SpeedLimitType
  <2> QED
    BY <1>1, <2>2, <2>4 DEF Load, TypeOK, table
<1>2. ASSUME NEW h \in Handlers, Save(h) PROVE TypeOK'
  <2>1. pc' \in [Handlers -> {"idle", "save", "insert"}] /\ decision' \in [Handlers -> Decision]
    BY <1>2, ReturnType DEF Save, TypeOK
  <2>2. decision[h].next \in Breach
    BY DEF TypeOK, Decision
  <2> QED
    BY <1>2, <2>1, <2>2 DEF Save, TypeOK, samples
<1>3. ASSUME NEW h \in Handlers, Insert(h) PROVE TypeOK'
  <2>1. decision[h].next.startedAt \in Times
    BY <1>3, BreachingType DEF Insert, TypeOK, Decision, DecisionInv
  <2>2. events' \subseteq Times /\ raised' \subseteq Times
    BY <1>3, <2>1 DEF Insert, TypeOK
  <2> QED
    BY <1>3, <2>2, ReturnType DEF Insert, TypeOK, samples
<1>4. ASSUME NEW h \in Handlers, Fail(h) PROVE TypeOK'
  <2>1. decision[h].next \in Breach
    BY DEF TypeOK, Decision
  <2>2. decision[h].alert => decision[h].next.startedAt \in Times
    BY <2>1, BreachingType DEF DecisionInv
  <2>3. lost' \subseteq Times /\ breach' \in Breach
    BY <1>4, <2>1, <2>2 DEF Fail, TypeOK
  <2> QED
    BY <1>4, <2>3, ReturnType, FaultType DEF Fail, TypeOK, samples
<1>5. ASSUME NEW l \in Limits \cup {NoLimit}, SetLimit(l) PROVE TypeOK'
  BY <1>5 DEF SetLimit, TypeOK, handler, samples
<1>6. CASE UNCHANGED vars
  BY <1>6 DEF TypeOK, vars, table, handler, samples
<1> QED
  BY <1>1, <1>2, <1>3, <1>4, <1>5, <1>6 DEF Next

-----------------------------------------------------------------------------
(* The invariant is kept *)

LEMMA SustainedMonotone ==
  ASSUME NEW s, NEW S, NEW T, S \subseteq T, SustainedFrom(s, S) PROVE SustainedFrom(s, T)
BY DEF SustainedFrom

\* A breach seen to stays seen to, whatever a handler does.
LEMMA CoveredStays ==
  ASSUME IInv, [Next]_vars
  PROVE  \A s : Covered(s, events, lost, pc, decision)
                  => Covered(s, events', lost', pc', decision')
<1> SUFFICES ASSUME NEW s, Covered(s, events, lost, pc, decision)
             PROVE  Covered(s, events', lost', pc', decision')
  OBVIOUS
<1> USE DEF IInv, TypeOK
<1>1. ASSUME NEW h \in Handlers, NEW speed \in Speeds, NEW ts \in Times, Load(h, speed, ts)
      PROVE  Covered(s, events', lost', pc', decision')
  <2>1. UNCHANGED <<events, lost>>
    BY <1>1 DEF Load, table
  <2>2. ASSUME NEW g \in Handlers, pc[g] = "insert"
        PROVE  pc'[g] = "insert" /\ decision'[g] = decision[g]
    BY <1>1, <2>2 DEF Load, handler
  <2> QED
    BY <2>1, <2>2 DEF Covered
<1>2. ASSUME NEW h \in Handlers, Save(h) PROVE Covered(s, events', lost', pc', decision')
  <2>1. UNCHANGED <<events, lost>>
    BY <1>2 DEF Save
  <2>2. ASSUME NEW g \in Handlers, pc[g] = "insert"
        PROVE  pc'[g] = "insert" /\ decision'[g] = decision[g]
    BY <1>2, <2>2 DEF Save, Return
  <2> QED
    BY <2>1, <2>2 DEF Covered
<1>3. ASSUME NEW h \in Handlers, Insert(h) PROVE Covered(s, events', lost', pc', decision')
  <2>1. events' = events \cup {decision[h].next.startedAt} /\ lost' = lost
    BY <1>3 DEF Insert
  <2>2. ASSUME NEW g \in Handlers, g # h
        PROVE  pc'[g] = pc[g] /\ decision'[g] = decision[g]
    BY <1>3, <2>2 DEF Insert, Return
  <2> QED
    BY <2>1, <2>2 DEF Covered
<1>4. ASSUME NEW h \in Handlers, Fail(h) PROVE Covered(s, events', lost', pc', decision')
  <2>1. /\ events' = events
        /\ lost' = IF decision[h].alert THEN lost \cup {decision[h].next.startedAt} ELSE lost
    BY <1>4 DEF Fail
  <2>2. pc[h] = "insert" => decision[h].alert
    BY DEF DecisionInv
  <2>3. ASSUME NEW g \in Handlers, g # h
        PROVE  pc'[g] = pc[g] /\ decision'[g] = decision[g]
    BY <1>4, <2>3 DEF Fail, Return
  <2> QED
    BY <2>1, <2>2, <2>3 DEF Covered
<1>5. ASSUME NEW l \in Limits \cup {NoLimit}, SetLimit(l)
      PROVE  Covered(s, events', lost', pc', decision')
  BY <1>5 DEF SetLimit, handler, Covered
<1>6. CASE UNCHANGED vars
  BY <1>6 DEF vars, table, handler, Covered
<1> QED
  BY <1>1, <1>2, <1>3, <1>4, <1>5, <1>6 DEF Next

\* Samples are only ever added.
LEMMA OverGrows == IInv /\ [Next]_vars => over \subseteq over'
BY DEF Next, Load, Note, Save, Insert, Fail, SetLimit, samples, vars

\* The invariant of a handler that a step leaves alone.
LEMMA DecisionFrame ==
  ASSUME IInv, [Next]_vars, NEW g \in Handlers, pc'[g] = pc[g], decision'[g] = decision[g]
  PROVE  DecisionInv(g)'
<1>1. DecisionInv(g) /\ over \subseteq over'
  BY OverGrows DEF IInv
<1>2. Covered(decision[g].next.startedAt, events, lost, pc, decision)
      => Covered(decision[g].next.startedAt, events', lost', pc', decision')
  BY CoveredStays
<1>3. SustainedFrom(decision[g].next.startedAt, over)
        => SustainedFrom(decision[g].next.startedAt, over')
  BY <1>1, SustainedMonotone
<1> QED
  BY <1>1, <1>2, <1>3 DEF DecisionInv, Started

LEMMA IdleDecision ==
  ASSUME NEW g \in Handlers, pc'[g] = "idle", decision'[g] = NoDecision
  PROVE  DecisionInv(g)'
BY NoDecisionType DEF DecisionInv

LEMMA LoadKeeps ==
  ASSUME IInv, [Next]_vars, NEW h \in Handlers, NEW speed \in Speeds, NEW ts \in Times,
         Load(h, speed, ts)
  PROVE  Started(breach)' /\ AlertsAreSustained' /\ AlertedIsRaised'
         /\ \A g \in Handlers : DecisionInv(g)'
<1> DEFINE d == EvaluateOverspeed(breach, speed, SpeedLimit, ts, MinDuration)
           isOver == ~Unusable(speed, SpeedLimit) /\ speed > SpeedLimit
<1>1. /\ d \in Decision
      /\ d.alert => /\ breach.breaching /\ d.next.breaching
                    /\ d.next.startedAt = breach.startedAt
                    /\ ts - breach.startedAt >= MinDuration /\ isOver
      /\ d.next.breaching => \/ breach.breaching /\ d.next.startedAt = breach.startedAt
                             \/ d.next.startedAt = ts /\ isOver
      /\ d.next.alerted /\ ~d.alert => breach.alerted /\ d.next.startedAt = breach.startedAt
  BY Evaluation, MinDurationType, SpeedLimitType DEF IInv, TypeOK
<1>2. over \subseteq over' /\ UNCHANGED <<breach, events, limit>>
  BY OverGrows DEF Load, table
<1>3. isOver => ts \in over'
  BY DEF Load, Note
<1>4. Started(breach)' /\ AlertsAreSustained'
  BY <1>2, SustainedMonotone DEF IInv, Started, AlertsAreSustained
<1>5. AlertedIsRaised'
  <2>1. breach.alerted => Covered(breach.startedAt, events, lost, pc, decision)
    BY DEF IInv, AlertedIsRaised, Covered
  <2>2. breach.alerted => Covered(breach.startedAt, events', lost', pc', decision')
    BY <2>1, CoveredStays
  <2> QED
    BY <1>2, <2>2 DEF AlertedIsRaised, Covered
<1>6. ASSUME NEW g \in Handlers PROVE DecisionInv(g)'
  <2>1. CASE g # h \/ UNCHANGED handler
    <3>1. pc'[g] = pc[g] /\ decision'[g] = decision[g]
      BY <2>1 DEF Load, handler, IInv, TypeOK
    <3> QED
      BY <3>1, DecisionFrame
  <2>2. CASE g = h /\ ~UNCHANGED handler
    <3> HIDE DEF d
    <3>1. pc'[h] = "save" /\ decision'[h] = d
      BY <2>2 DEF Load, IInv, TypeOK, d
    <3>2. d.next.breaching => d.next.startedAt \in over'
      BY <1>1, <1>2, <1>3 DEF Started, IInv
    <3>3. d.alert => SustainedFrom(d.next.startedAt, over')
      BY <1>1, <1>2, <1>3 DEF Started, IInv, SustainedFrom
    <3>4. d.next.alerted /\ ~d.alert
          => Covered(d.next.startedAt, events', lost', pc', decision')
      <4>1. breach.alerted => Covered(breach.startedAt, events, lost, pc, decision)
        BY DEF IInv, AlertedIsRaised, Covered
      <4>2. breach.alerted => Covered(breach.startedAt, events', lost', pc', decision')
        BY <4>1, CoveredStays
      <4> QED
        BY <1>1, <4>2
    <3> QED
      BY <1>1, <2>2, <3>1, <3>2, <3>3, <3>4 DEF DecisionInv, Started, Covered
  <2> QED
    BY <2>1, <2>2
<1> QED
  BY <1>4, <1>5, <1>6

LEMMA SaveKeeps ==
  ASSUME IInv, [Next]_vars, NEW h \in Handlers, Save(h)
  PROVE  Started(breach)' /\ AlertsAreSustained' /\ AlertedIsRaised'
         /\ \A g \in Handlers : DecisionInv(g)'
<1>1. /\ pc[h] = "save" /\ breach' = decision[h].next
      /\ UNCHANGED <<events, over, lost>>
  BY DEF Save, samples
<1>2. Started(breach)' /\ AlertsAreSustained'
  BY <1>1 DEF IInv, Started, AlertsAreSustained, DecisionInv
<1>3. DecisionInv(h)
  BY DEF IInv
<1>4. AlertedIsRaised'
  <2>1. CASE decision[h].alert
    <3>1. pc'[h] = "insert" /\ decision'[h] = decision[h]
      BY <2>1 DEF Save, IInv, TypeOK
    <3> QED
      BY <1>1, <3>1 DEF AlertedIsRaised
  <2>2. CASE ~decision[h].alert
    <3>1. decision[h].next.alerted
          => Covered(decision[h].next.startedAt, events, lost, pc, decision)
      BY <1>1, <1>3, <2>2 DEF DecisionInv
    <3>2. decision[h].next.alerted
          => Covered(decision[h].next.startedAt, events', lost', pc', decision')
      BY <3>1, CoveredStays
    <3> QED
      BY <1>1, <3>2 DEF AlertedIsRaised, Covered
  <2> QED
    BY <2>1, <2>2
<1>5. ASSUME NEW g \in Handlers PROVE DecisionInv(g)'
  <2>1. CASE g # h
    BY <2>1, DecisionFrame DEF Save, Return, IInv, TypeOK
  <2>2. CASE g = h /\ decision[h].alert
    <3>1. pc'[h] = "insert" /\ decision'[h] = decision[h]
      BY <2>2 DEF Save, IInv, TypeOK
    <3> QED
      BY <1>1, <1>3, <2>2, <3>1 DEF DecisionInv, Started
  <2>3. CASE g = h /\ ~decision[h].alert
    BY <2>3, IdleDecision DEF Save, Return, IInv, TypeOK
  <2> QED
    BY <2>1, <2>2, <2>3
<1> QED
  BY <1>2, <1>4, <1>5

LEMMA InsertKeeps ==
  ASSUME IInv, [Next]_vars, NEW h \in Handlers, Insert(h)
  PROVE  Started(breach)' /\ AlertsAreSustained' /\ AlertedIsRaised'
         /\ \A g \in Handlers : DecisionInv(g)'
<1>1. /\ pc[h] = "insert" /\ events' = events \cup {decision[h].next.startedAt}
      /\ UNCHANGED <<breach, over>>
  BY DEF Insert, samples
<1>2. SustainedFrom(decision[h].next.startedAt, over)
  BY <1>1 DEF IInv, DecisionInv
<1>3. Started(breach)' /\ AlertsAreSustained'
  BY <1>1, <1>2 DEF IInv, Started, AlertsAreSustained
<1>4. AlertedIsRaised'
  <2>1. breach.alerted => Covered(breach.startedAt, events, lost, pc, decision)
    BY DEF IInv, AlertedIsRaised, Covered
  <2>2. breach.alerted => Covered(breach.startedAt, events', lost', pc', decision')
    BY <2>1, CoveredStays
  <2> QED
    BY <1>1, <2>2 DEF AlertedIsRaised, Covered
<1>5. ASSUME NEW g \in Handlers PROVE DecisionInv(g)'
  BY DecisionFrame, IdleDecision DEF Insert, Return, IInv, TypeOK
<1> QED
  BY <1>3, <1>4, <1>5

LEMMA FailKeeps ==
  ASSUME IInv, [Next]_vars, NEW h \in Handlers, Fail(h)
  PROVE  Started(breach)' /\ AlertsAreSustained' /\ AlertedIsRaised'
         /\ \A g \in Handlers : DecisionInv(g)'
<1>1. /\ breach' = breach \/ (pc[h] = "save" /\ breach' = decision[h].next)
      /\ UNCHANGED <<events, over>>
      /\ decision[h].alert => decision[h].next.startedAt \in lost'
  <2>1. breach' = breach \/ (pc[h] = "save" /\ breach' = decision[h].next)
    BY DEF Fail
  <2>2. UNCHANGED <<events, over>>
    BY DEF Fail, samples
  <2>3. lost' = IF decision[h].alert THEN lost \cup {decision[h].next.startedAt} ELSE lost
    BY DEF Fail
  <2> QED
    BY <2>1, <2>2, <2>3
<1>2. Started(breach)' /\ AlertsAreSustained'
  BY <1>1 DEF IInv, Started, AlertsAreSustained, DecisionInv
<1>3. AlertedIsRaised'
  <2>1. CASE breach' = breach
    <3>1. breach.alerted => Covered(breach.startedAt, events, lost, pc, decision)
      BY DEF IInv, AlertedIsRaised, Covered
    <3>2. breach.alerted => Covered(breach.startedAt, events', lost', pc', decision')
      BY <3>1, CoveredStays
    <3> QED
      BY <2>1, <3>2 DEF AlertedIsRaised, Covered
  <2>2. CASE pc[h] = "save" /\ breach' = decision[h].next
    <3>1. decision[h].next.alerted /\ ~decision[h].alert
          => Covered(decision[h].next.startedAt, events, lost, pc, decision)
      BY <2>2 DEF IInv, DecisionInv
    <3>2. decision[h].next.alerted /\ ~decision[h].alert
          => Covered(decision[h].next.startedAt, events', lost', pc', decision')
      BY <3>1, CoveredStays
    <3> QED
      BY <1>1, <2>2, <3>2 DEF AlertedIsRaised, Covered
  <2> QED
    BY <1>1, <2>1, <2>2
<1>4. ASSUME NEW g \in Handlers PROVE DecisionInv(g)'
  BY DecisionFrame, IdleDecision DEF Fail, Return, IInv, TypeOK
<1> QED
  BY <1>2, <1>3, <1>4

LEMMA Inductive == IInv /\ [Next]_vars => IInv'
<1> SUFFICES ASSUME IInv, [Next]_vars PROVE IInv'
  OBVIOUS
<1>1. TypeOK'
  BY TypeNext
<1> DEFINE Kept == /\ Started(breach)' /\ AlertsAreSustained' /\ AlertedIsRaised'
                   /\ \A g \in Handlers : DecisionInv(g)'
<1>2. ASSUME NEW l \in Limits \cup {NoLimit}, SetLimit(l) PROVE Kept
  <2>1. UNCHANGED <<breach, events, pc, decision, over, lost>>
    BY <1>2 DEF SetLimit, handler, samples
  <2>2. \A g \in Handlers : DecisionInv(g)'
    BY <2>1, DecisionFrame
  <2> QED
    BY <2>1, <2>2 DEF IInv, Started, AlertsAreSustained, AlertedIsRaised
<1>3. ASSUME UNCHANGED vars PROVE Kept
  <2>1. UNCHANGED <<breach, events, pc, decision, over, lost>>
    BY <1>3 DEF vars, table, handler, samples
  <2>2. \A g \in Handlers : DecisionInv(g)'
    BY <2>1, DecisionFrame
  <2> QED
    BY <2>1, <2>2 DEF IInv, Started, AlertsAreSustained, AlertedIsRaised
<1>4. Kept
  BY <1>2, <1>3, LoadKeeps, SaveKeeps, InsertKeeps, FailKeeps DEF Next
<1> QED
  BY <1>1, <1>4 DEF IInv

LEMMA Initial == Init => IInv
<1> SUFFICES ASSUME Init PROVE IInv
  OBVIOUS
<1>1. TypeOK
  <2>1. breach \in Breach /\ decision \in [Handlers -> Decision]
    BY NotBreachingType, NoDecisionType DEF Init
  <2>2. stretch \in [from : Times \cup {ZeroTime}, to : Times \cup {ZeroTime}]
    BY DEF Init, NoStretch
  <2>3. overlap \in BOOLEAN
    BY DEF Init
  <2>4. faults \in 0 .. MaxFaults /\ limit \in Limits \cup {NoLimit}
    BY DataAssumption DEF Init
  <2>5. pc \in [Handlers -> {"idle", "save", "insert"}]
    BY DEF Init
  <2> QED
    BY <2>1, <2>2, <2>3, <2>4, <2>5 DEF Init, TypeOK
<1>2. Started(breach) /\ AlertsAreSustained /\ AlertedIsRaised
  BY NotBreachingType DEF Init, Started, AlertsAreSustained, AlertedIsRaised
<1>3. \A h \in Handlers : DecisionInv(h)
  BY NoDecisionType DEF Init, DecisionInv
<1> QED
  BY <1>1, <1>2, <1>3 DEF IInv

LEMMA Invariance == Spec => []IInv
BY Initial, Inductive, PTL DEF Spec

-----------------------------------------------------------------------------
(* One ingest at a time *)

LEMMA NoStretchType ==
  NoStretch \in [from : Times \cup {ZeroTime}, to : Times \cup {ZeroTime}]
BY DEF NoStretch

\* What a sample does to the row and what it does to the stretch agree.
LEMMA RowAndStretch ==
  ASSUME TypeOK, NEW h \in Handlers, NEW speed \in Speeds, NEW ts \in Times, NEW lim \in Nat,
         Note(h, speed, ts, lim), ~overlap', Accounts(breach, stretch, slowed),
         NEW d, d = EvaluateOverspeed(breach, speed, lim, ts, MinDuration)
  PROVE  Accounts(d.next, stretch', slowed')
<1> DEFINE usable  == ~Unusable(speed, lim)
           isOver  == usable /\ speed > lim
           isClear == usable /\ ~isOver /\ speed <= lim - Hysteresis
           waiting == breach.breaching /\ ~breach.alerted /\ breach.startedAt \notin events
           again   == IF isOver /\ ~breach.breaching THEN {ts} ELSE {}
<1>1. /\ stretch' = IF isClear THEN NoStretch
                    ELSE IF ~isOver THEN stretch
                    ELSE IF stretch = NoStretch THEN [from |-> ts, to |-> ts]
                    ELSE [stretch EXCEPT !.to = Larger(stretch.to, ts)]
      /\ slowed' = (IF isClear /\ waiting
                    THEN slowed \cup {breach.startedAt} ELSE slowed) \ again
  BY DEF Note
<1>2. CASE isOver /\ ~breach.breaching
  <2>1. d.next = Opened(speed, ts, MinDuration)
    BY <1>2 DEF EvaluateOverspeed
  <2>2. stretch' = [from |-> ts, to |-> ts] /\ stretch' # NoStretch /\ ts \notin slowed'
    <3>1. stretch = NoStretch
      BY <1>2 DEF Accounts
    <3>2. stretch' = [from |-> ts, to |-> ts] /\ ts \notin slowed'
      BY <1>1, <1>2, <3>1
    <3>3. stretch'.from # 0
      BY <3>2, DataAssumption
    <3> QED
      BY <3>2, <3>3 DEF NoStretch, ZeroTime
  <2>3. ts - ts < MinDuration
    BY MinDurationType, DataAssumption
  <2> QED
    BY <2>1, <2>2, <2>3 DEF Accounts, Opened
<1>3. CASE isOver /\ breach.breaching
  <2> DEFINE b == Sustained(breach, ts, MinDuration)
  <2>1. d.next = Continued(breach, speed, b)
    BY <1>3 DEF EvaluateOverspeed
  <2>2. /\ stretch # NoStretch /\ stretch.from = breach.startedAt
        /\ breach.startedAt \notin slowed
        /\ ~breach.alerted => stretch.to - stretch.from < MinDuration
    BY <1>3 DEF Accounts
  <2>3. /\ stretch' = [stretch EXCEPT !.to = Larger(stretch.to, ts)]
        /\ slowed' = slowed
    BY <1>1, <1>3, <2>2
  <2>4. /\ breach \in [breaching : {TRUE}, startedAt : Times, peak : Speeds, alerted : BOOLEAN]
        /\ breach.startedAt \in Times
    BY <1>3, BreachingType DEF TypeOK
  <2>5. /\ d.next.breaching /\ d.next.startedAt = breach.startedAt
        /\ ~d.next.alerted => ~breach.alerted /\ ~b
    BY <2>1, <2>4 DEF Continued
  <2>6. /\ stretch'.from = stretch.from /\ stretch'.to = Larger(stretch.to, ts)
        /\ stretch.from \in Nat /\ stretch.to \in Nat /\ ts \in Nat
        /\ stretch.from # ZeroTime
    <3>1. stretch \in [from : Times \cup {ZeroTime}, to : Times \cup {ZeroTime}]
      BY DEF TypeOK
    <3>2. stretch'.from = stretch.from /\ stretch'.to = Larger(stretch.to, ts)
      BY <2>3, <3>1
    <3>3. Times \cup {ZeroTime} \subseteq Nat /\ breach.startedAt # ZeroTime
      BY <2>4, DataAssumption DEF ZeroTime
    <3> QED
      BY <2>2, <3>1, <3>2, <3>3
  <2>7. ~b /\ ~breach.alerted => ts - breach.startedAt < MinDuration
    <3>1. breach.startedAt # ZeroTime /\ breach.startedAt \in Int /\ ts \in Int
      BY <2>2, <2>6
    <3>2. ~b /\ ~breach.alerted => ~(ts - breach.startedAt >= MinDuration)
      BY <3>1 DEF Sustained
    <3> QED
      BY <3>1, <3>2, MinDurationType
  <2>8. ~d.next.alerted => stretch'.to - stretch'.from < MinDuration
    BY <2>2, <2>5, <2>6, <2>7, MinDurationType DEF Larger
  <2>9. stretch' # NoStretch
    BY <2>6 DEF NoStretch
  <2> QED
    BY <2>2, <2>3, <2>5, <2>6, <2>8, <2>9 DEF Accounts
<1>4. CASE isClear /\ breach.breaching
  <2>1. d.next = NotBreaching
    BY <1>4 DEF EvaluateOverspeed, Clear, Closed
  <2> QED
    BY <1>1, <1>4, <2>1, NotBreachingType DEF Accounts
<1>5. CASE isClear /\ ~breach.breaching
  <2>1. d.next = breach
    BY <1>5 DEF EvaluateOverspeed
  <2> QED
    BY <1>1, <1>5, <2>1 DEF Accounts
<1>6. CASE ~isOver /\ ~isClear
  <2>1. d.next = breach
    BY <1>6 DEF EvaluateOverspeed, Clear
  <2>2. stretch' = stretch /\ slowed' = slowed
    BY <1>1, <1>6
  <2> QED
    BY <2>1, <2>2 DEF Accounts
<1> QED
  BY <1>2, <1>3, <1>4, <1>5, <1>6

\* A sample begins a new count of alerts only with a new stretch, and counts a breach
\* as broken only before its alert.
LEMMA NotedAlerts ==
  ASSUME TypeOK, NEW h \in Handlers, NEW speed \in Speeds, NEW ts \in Times, NEW lim \in Nat,
         Note(h, speed, ts, lim), ~overlap', OneRaised, AlertsAreUnbroken, events' = events
  PROVE  OneRaised' /\ AlertsAreUnbroken'
<1> DEFINE usable  == ~Unusable(speed, lim)
           isOver  == usable /\ speed > lim
           isClear == usable /\ ~isOver /\ speed <= lim - Hysteresis
<1>1. /\ stretch' = IF isClear THEN NoStretch
                    ELSE IF ~isOver THEN stretch
                    ELSE IF stretch = NoStretch THEN [from |-> ts, to |-> ts]
                    ELSE [stretch EXCEPT !.to = Larger(stretch.to, ts)]
      /\ raised' = IF isOver /\ stretch = NoStretch THEN {} ELSE raised
      /\ slowed' \subseteq slowed \cup {s \in {breach.startedAt} : s \notin events}
  BY DEF Note
<1>2. AlertsAreUnbroken'
  BY <1>1 DEF AlertsAreUnbroken
<1>3. raised' \subseteq raised
  BY <1>1
<1>4. stretch' # NoStretch => raised' \subseteq {stretch'.from}
  <2>1. CASE isOver /\ stretch = NoStretch
    BY <1>1, <2>1
  <2>2. CASE isOver /\ stretch # NoStretch
    <3>1. stretch' = [stretch EXCEPT !.to = Larger(stretch.to, ts)]
      BY <1>1, <2>2
    <3>2. stretch'.from = stretch.from
      BY <3>1 DEF TypeOK
    <3> QED
      BY <1>3, <2>2, <3>2 DEF OneRaised
  <2>3. CASE ~isOver
    BY <1>1, <1>3, <2>3 DEF OneRaised
  <2> QED
    BY <2>1, <2>2, <2>3
<1> QED
  BY <1>2, <1>3, <1>4 DEF OneRaised

\* Once ingests have met, or one has failed, it stays so.
LEMMA OrderlyBefore == ASSUME TypeOK, [Next]_vars, Orderly' PROVE Orderly
<1>1. ASSUME NEW h \in Handlers, Fail(h) PROVE FALSE
  BY <1>1 DEF Fail, Fault, Orderly, TypeOK
<1>2. faults' = faults
  BY <1>1 DEF Next, Load, Save, Insert, SetLimit, vars
<1>3. overlap => overlap'
  BY <1>1 DEF Next, Load, Note, Save, Insert, SetLimit, samples, vars
<1> QED
  BY <1>2, <1>3 DEF Orderly

LEMMA NobodyFails == ASSUME TypeOK, Orderly', NEW h \in Handlers, Fail(h) PROVE FALSE
BY DEF Fail, Fault, Orderly, TypeOK

\* What a step does to a handler's row, and to the stretch, is known; the rest of Alone
\* says that no other handler is at work.
LEMMA OrderlyLoad ==
  ASSUME IInv, OrderlyInv, Orderly', NEW h \in Handlers, NEW speed \in Speeds,
         NEW ts \in Times, Load(h, speed, ts), Orderly
  PROVE  lost' = {} /\ Alone' /\ OneRaised' /\ AlertsAreUnbroken'
<1> DEFINE d == EvaluateOverspeed(breach, speed, SpeedLimit, ts, MinDuration)
<1>1. lost = {} /\ Alone /\ OneRaised /\ AlertsAreUnbroken
  BY DEF OrderlyInv
<1>2. /\ pc[h] = "idle" /\ Note(h, speed, ts, SpeedLimit)
      /\ UNCHANGED <<limit, breach, events, lost, faults>>
  BY DEF Load, table
<1>3. ~overlap' /\ \A g \in Handlers : pc[g] = "idle"
  BY <1>2 DEF Orderly, Note
<1>4. Accounts(breach, stretch, slowed)
  BY <1>1, <1>3 DEF Alone, Quiet
<1>5. Accounts(d.next, stretch', slowed')
  BY <1>2, <1>3, <1>4, RowAndStretch, SpeedLimitType DEF IInv
<1>6. OneRaised' /\ AlertsAreUnbroken'
  BY <1>1, <1>2, <1>3, NotedAlerts, SpeedLimitType DEF IInv
<1>7. Alone'
  <2> HIDE DEF d
  <2>1. CASE d.next = breach
    <3>1. pc' = pc
      BY <2>1 DEF Load, handler, d
    <3> QED
      BY <1>2, <1>3, <1>5, <2>1, <3>1 DEF Alone, Quiet
  <2>2. CASE d.next # breach
    <3>1. pc' = [pc EXCEPT ![h] = "save"] /\ decision' = [decision EXCEPT ![h] = d]
      BY <2>2 DEF Load, d
    <3>2. /\ pc'[h] = "save" /\ decision'[h] = d
          /\ \A g \in Handlers : g # h => pc'[g] = "idle"
      BY <1>3, <3>1 DEF IInv, TypeOK
    <3>3. ~Quiet'
      BY <3>2 DEF Quiet
    <3>4. ASSUME NEW g \in Handlers, pc'[g] # "idle"
          PROVE  g = h /\ Accounts(decision'[g].next, stretch', slowed') /\ pc'[g] # "insert"
      BY <1>5, <3>2, <3>4
    <3> QED
      BY <3>3, <3>4 DEF Alone
  <2> QED
    BY <2>1, <2>2
<1> QED
  BY <1>1, <1>2, <1>6, <1>7

LEMMA OrderlySave ==
  ASSUME IInv, OrderlyInv, Orderly, NEW h \in Handlers, Save(h)
  PROVE  lost' = {} /\ Alone' /\ OneRaised' /\ AlertsAreUnbroken'
<1>1. lost = {} /\ Alone /\ OneRaised /\ AlertsAreUnbroken
  BY DEF OrderlyInv
<1>2. /\ pc[h] = "save" /\ breach' = decision[h].next
      /\ UNCHANGED <<events, stretch, slowed, raised, lost>>
  BY DEF Save, samples
<1>3. /\ Accounts(decision[h].next, stretch, slowed)
      /\ \A g \in Handlers : g # h => pc[g] = "idle"
  BY <1>1, <1>2 DEF Alone
<1>4. /\ \A g \in Handlers : g # h => pc'[g] = pc[g]
      /\ pc'[h] \in {"idle", "insert"}
      /\ pc'[h] = "insert" => decision'[h] = decision[h]
  BY DEF Save, Return, IInv, TypeOK
<1>5. Alone'
  <2>1. ASSUME NEW g \in Handlers, pc'[g] # "idle"
        PROVE  g = h /\ pc'[h] = "insert" /\ decision'[g] = decision[h]
    BY <1>3, <1>4, <2>1
  <2> QED
    BY <1>2, <1>3, <2>1 DEF Alone
<1>6. OneRaised' /\ AlertsAreUnbroken'
  BY <1>1, <1>2 DEF OneRaised, AlertsAreUnbroken
<1> QED
  BY <1>1, <1>2, <1>5, <1>6

\* The alert is the one of the stretch.
LEMMA OrderlyInsert ==
  ASSUME IInv, OrderlyInv, Orderly, NEW h \in Handlers, Insert(h)
  PROVE  lost' = {} /\ Alone' /\ OneRaised' /\ AlertsAreUnbroken'
<1> DEFINE s == decision[h].next.startedAt
<1>1. lost = {} /\ Alone /\ OneRaised /\ AlertsAreUnbroken
  BY DEF OrderlyInv
<1>2. /\ pc[h] = "insert" /\ events' = events \cup {s}
      /\ raised' = raised \cup ({s} \ events)
      /\ UNCHANGED <<breach, stretch, slowed, lost>>
  BY DEF Insert, samples, Orderly
<1>3. /\ Accounts(decision[h].next, stretch, slowed) /\ breach = decision[h].next
      /\ \A g \in Handlers : g # h => pc[g] = "idle"
  BY <1>1, <1>2 DEF Alone
<1>4. decision[h].next.breaching
  BY <1>2 DEF IInv, DecisionInv
<1>5. stretch # NoStretch /\ stretch.from = s /\ s \notin slowed
  BY <1>3, <1>4 DEF Accounts
<1>6. \A g \in Handlers : pc'[g] = "idle"
  BY <1>3 DEF Insert, Return, IInv, TypeOK
<1>7. Alone'
  BY <1>2, <1>3, <1>6 DEF Alone
<1>8. OneRaised'
  <2>1. raised' \subseteq {s}
    BY <1>1, <1>2, <1>5 DEF OneRaised
  <2>2. s \in Times \cup {ZeroTime}
    BY <1>5 DEF IInv, TypeOK
  <2> QED
    BY <1>2, <1>5, <2>1, <2>2 DEF OneRaised
<1>9. AlertsAreUnbroken'
  BY <1>1, <1>2, <1>5 DEF AlertsAreUnbroken
<1> QED
  BY <1>1, <1>2, <1>7, <1>8, <1>9

LEMMA OrderlyStep == IInv /\ OrderlyInv /\ [Next]_vars => OrderlyInv'
<1> SUFFICES ASSUME IInv, OrderlyInv, [Next]_vars, Orderly'
             PROVE  lost' = {} /\ Alone' /\ OneRaised' /\ AlertsAreUnbroken'
  BY DEF OrderlyInv
<1>1. Orderly
  BY OrderlyBefore DEF IInv
<1>2. ASSUME UNCHANGED <<breach, events, pc, decision, stretch, slowed, raised, lost>>
      PROVE  lost' = {} /\ Alone' /\ OneRaised' /\ AlertsAreUnbroken'
  <2>1. lost = {} /\ Alone /\ OneRaised /\ AlertsAreUnbroken
    BY <1>1 DEF OrderlyInv
  <2> QED
    BY <1>2, <2>1 DEF Alone, Quiet, OneRaised, AlertsAreUnbroken
<1>3. ASSUME NEW l \in Limits \cup {NoLimit}, SetLimit(l)
      PROVE  lost' = {} /\ Alone' /\ OneRaised' /\ AlertsAreUnbroken'
  BY <1>2, <1>3 DEF SetLimit, handler, samples
<1>4. CASE UNCHANGED vars
  BY <1>2, <1>4 DEF vars, table, handler, samples
<1>5. \A h \in Handlers : ~Fail(h)
  BY NobodyFails DEF IInv
<1> QED
  BY <1>1, <1>3, <1>4, <1>5, OrderlyLoad, OrderlySave, OrderlyInsert DEF Next

LEMMA OrderlyInitial == Init => OrderlyInv
<1> SUFFICES ASSUME Init PROVE lost = {} /\ Alone /\ OneRaised /\ AlertsAreUnbroken
  BY DEF OrderlyInv
<1>1. Alone
  BY NotBreachingType DEF Init, Alone, Accounts
<1> QED
  BY <1>1 DEF Init, OneRaised, AlertsAreUnbroken

\* When nobody is at work a long stretch has marked the row, and a marked row has its
\* alert.
LEMMA OrderlyMatches == IInv /\ OrderlyInv => AlertsMatchStretches
<1> SUFFICES ASSUME IInv, OrderlyInv, Orderly
             PROVE  StretchIsAlerted /\ OneAlertPerStretch /\ AlertsAreUnbroken
  BY DEF AlertsMatchStretches
<1>1. lost = {} /\ Alone /\ OneRaised /\ AlertsAreUnbroken
  BY DEF OrderlyInv
<1>2. StretchIsAlerted
  <2> SUFFICES ASSUME Quiet, stretch # NoStretch, stretch.to - stretch.from >= MinDuration
               PROVE  stretch.from \in events
    BY DEF StretchIsAlerted
  <2>1. breach.breaching /\ stretch.from = breach.startedAt
        /\ (~breach.alerted => stretch.to - stretch.from < MinDuration)
    BY <1>1 DEF Alone, Accounts
  <2>2. stretch.to \in Int /\ stretch.from \in Int
    <3>1. stretch \in [from : Times \cup {ZeroTime}, to : Times \cup {ZeroTime}]
      BY DEF IInv, TypeOK
    <3>2. Times \cup {ZeroTime} \subseteq Int
      BY DataAssumption DEF ZeroTime
    <3> QED
      BY <3>1, <3>2
  <2>3. breach.alerted
    BY <2>1, <2>2, MinDurationType
  <2> QED
    BY <1>1, <2>1, <2>3 DEF IInv, AlertedIsRaised, Quiet
<1>3. OneAlertPerStretch
  <2>1. PICK s : raised \subseteq {s}
    BY <1>1 DEF OneRaised
  <2>2. IsFiniteSet({s}) /\ Cardinality({s}) = 1
    BY FS_Singleton
  <2>3. Cardinality(raised) <= Cardinality({s})
    BY <2>1, <2>2, FS_Subset
  <2> QED
    BY <2>2, <2>3 DEF OneAlertPerStretch
<1> QED
  BY <1>1, <1>2, <1>3

-----------------------------------------------------------------------------
(* The theorems *)

\* Every variable keeps its type.
THEOREM TypeCorrect == Spec => []TypeOK
<1>1. IInv => TypeOK
  BY DEF IInv
<1> QED
  BY <1>1, Invariance, PTL

\* SUSTAINED: however many ingests interleave, an alert names a sample over the
\* limit with another at least the minimum duration later.
THEOREM NoHastyAlert == Spec => []AlertsAreSustained
<1>1. IInv => AlertsAreSustained
  BY DEF IInv
<1> QED
  BY <1>1, Invariance, PTL

\* No race between ingests loses the alert of a breach marked as alerted; only
\* an error can.
THEOREM NoAlertRacedAway == Spec => []AlertedIsRaised
<1>1. IInv => AlertedIsRaised
  BY DEF IInv
<1> QED
  BY <1>1, Invariance, PTL

\* ALERT ONCE: ingests of the vehicle that come one at a time, none of which fails, alert
\* every stretch over the limit that is long enough, once, and no two of them as one.
THEOREM OneAlertEach == Spec => []AlertsMatchStretches
<1>1. Init => IInv /\ OrderlyInv
  BY Initial, OrderlyInitial
<1>2. IInv /\ OrderlyInv /\ [Next]_vars => (IInv /\ OrderlyInv)'
  BY Inductive, OrderlyStep
<1> QED
  BY <1>1, <1>2, OrderlyMatches, PTL DEF Spec
=============================================================================
