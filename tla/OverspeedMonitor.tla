--------------------------- MODULE OverspeedMonitor ---------------------------
(***************************************************************************)
(* Overspeed detection for one vehicle (iot/overspeed.go).                 *)
(*                                                                         *)
(* Every ingest ends in ApplyOverspeed for its newest ping: read the limit *)
(* and the breach row, evaluate, save the row if it changed, then insert   *)
(* the safety event.  These are three statements without a transaction,    *)
(* so ingests of one vehicle interleave between them, and an error in one  *)
(* leaves the effects of those before it.                                  *)
(***************************************************************************)
EXTENDS Integers, FiniteSets

CONSTANTS
  Handlers,           \* goroutines that ingest pings of the vehicle
  Times,              \* device timestamps, in any order
  Speeds,             \* speeds a ping may carry
  Limits,             \* limits an operator may give the vehicle
  NoLimit,            \* a NULL speed_limit_kmh
  DefaultLimit,       \* DefaultLimitKmh; 0, where none is set, switches the default off
  Hysteresis,         \* overspeedHysteresisKmh
  Implausible,        \* implausibleSpeedKmh
  MinBreachDuration,  \* FLEET_OVERSPEED_MIN_SECONDS
  DefaultMinDuration, \* defaultMinBreachDuration
  MaxFaults           \* bound: how many statements may fail

ASSUME DataAssumption ==
  /\ Times \subseteq Nat \ {0} /\ Speeds \subseteq Nat /\ Limits \subseteq Nat
  /\ NoLimit \notin Limits /\ DefaultLimit \in Nat
  /\ Hysteresis \in Nat /\ Implausible \in Nat
  /\ MinBreachDuration \in Nat /\ DefaultMinDuration \in Nat \ {0}
  /\ MaxFaults \in Nat

VARIABLES
  limit,     \* vehicles.speed_limit_kmh
  breach,    \* the vehicle's row of vehicle_overspeed_state
  events,    \* safety_events: the breach starts in the ids of its alerts
  pc,        \* where each handler is in ApplyOverspeed
  decision,  \* what it has decided: the row to save, and whether to alert
  over,      \* history: times of the samples found over the limit
  stretch,   \* history: first and last of them since the vehicle was last clear
  raised,    \* history: the alerts inserted since that stretch began
  slowed,    \* history: breaches in which the vehicle was clear before the alert
  overlap,   \* history: two handlers have worked on the vehicle at once
  lost,      \* history: breaches marked as alerted whose alert an error ended
  faults

table   == <<limit, breach, events>>
handler == <<pc, decision>>
samples == <<over, stretch, slowed, overlap>>
vars    == <<table, handler, samples, raised, lost, faults>>

ZeroTime     == 0
NotBreaching == [breaching |-> FALSE, startedAt |-> ZeroTime, peak |-> 0, alerted |-> FALSE]
Breach       == {NotBreaching} \cup
                [breaching : {TRUE}, startedAt : Times, peak : Speeds, alerted : BOOLEAN]
Decision     == [next : Breach, alert : BOOLEAN]
NoDecision   == [next |-> NotBreaching, alert |-> FALSE]
NoStretch    == [from |-> ZeroTime, to |-> ZeroTime]

Fault == faults < MaxFaults /\ faults' = faults + 1

\* The limit in force: the vehicle's own, 0 included, before the fleet's.
SpeedLimit == IF limit = NoLimit THEN DefaultLimit ELSE limit

\* ApplyOverspeed replaces a zero duration.
MinDuration == IF MinBreachDuration = 0 THEN DefaultMinDuration ELSE MinBreachDuration

-----------------------------------------------------------------------------
(* evaluateOverspeed *)

Larger(a, b) == IF a >= b THEN a ELSE b

Unusable(speed, lim) == lim = 0 \/ speed = 0 \/ speed >= Implausible

\* Mutant of Clear: no hysteresis.
ClearAtLimit(speed, lim) == speed <= lim

\* Mutant of Clear: the boundary is not clear.
ClearBelowMargin(speed, lim) == speed < lim - Hysteresis

Clear(speed, lim) == speed <= lim - Hysteresis

Opened(speed, ts, minDur) ==
  [breaching |-> TRUE, startedAt |-> ts, peak |-> speed, alerted |-> minDur = 0]

\* Mutant of Sustained: the breach must last longer than the minimum.
SustainedLonger(prev, ts, minDur) ==
  ~prev.alerted /\ prev.startedAt # ZeroTime /\ ts - prev.startedAt > minDur

\* Mutant of Sustained: the second sample over the limit is enough.
SustainedAlways(prev, ts, minDur) == ~prev.alerted /\ prev.startedAt # ZeroTime

Sustained(prev, ts, minDur) ==
  ~prev.alerted /\ prev.startedAt # ZeroTime /\ ts - prev.startedAt >= minDur

\* A further sample over the limit in an open breach.
Continued(prev, speed, alert) ==
  [prev EXCEPT !.peak = Larger(prev.peak, speed), !.alerted = prev.alerted \/ alert]

\* Mutant of Closed: the rest of the row stays.
ClosedOnly(prev) == [prev EXCEPT !.breaching = FALSE]

\* The breach closes and re-arms.
Closed(prev) == NotBreaching

EvaluateOverspeed(prev, speed, lim, ts, minDur) ==
  LET alert == IF prev.breaching THEN Sustained(prev, ts, minDur) ELSE minDur = 0 IN
  IF Unusable(speed, lim) THEN [next |-> prev, alert |-> FALSE]
  ELSE IF speed > lim
    THEN [next  |-> IF prev.breaching THEN Continued(prev, speed, alert)
                                      ELSE Opened(speed, ts, minDur),
          alert |-> alert]
  ELSE IF Clear(speed, lim) /\ prev.breaching
    THEN [next |-> Closed(prev), alert |-> FALSE]
  ELSE [next |-> prev, alert |-> FALSE]

-----------------------------------------------------------------------------
(* ApplyOverspeed *)

\* What the histories note of a sample.  All but over are about ingests that
\* come one at a time, and end at the first that does not.
Note(h, speed, ts, lim) ==
  LET usable  == ~Unusable(speed, lim)
      waiting == breach.breaching /\ ~breach.alerted /\ breach.startedAt \notin events
      isOver  == usable /\ speed > lim
      isClear == usable /\ ~isOver /\ speed <= lim - Hysteresis
      again   == IF isOver /\ ~breach.breaching THEN {ts} ELSE {}
  IN
  /\ over' = IF isOver THEN over \cup {ts} ELSE over
  /\ overlap' = (overlap \/ \E g \in Handlers \ {h} : pc[g] # "idle")
  /\ IF overlap'
     THEN stretch' = NoStretch /\ raised' = {} /\ slowed' = {}
     ELSE /\ stretch' = IF isClear THEN NoStretch
                        ELSE IF ~isOver THEN stretch
                        ELSE IF stretch = NoStretch THEN [from |-> ts, to |-> ts]
                        ELSE [stretch EXCEPT !.to = Larger(stretch.to, ts)]
          /\ raised' = IF isOver /\ stretch = NoStretch THEN {} ELSE raised
          /\ slowed' = (IF isClear /\ waiting
                        THEN slowed \cup {breach.startedAt} ELSE slowed) \ again

\* A ping has come: read limit and row in one statement, and evaluate.
Load(h, speed, ts) ==
  LET d == EvaluateOverspeed(breach, speed, SpeedLimit, ts, MinDuration) IN
  /\ pc[h] = "idle"
  /\ IF d.next = breach
     THEN UNCHANGED handler
     ELSE /\ pc' = [pc EXCEPT ![h] = "save"]
          /\ decision' = [decision EXCEPT ![h] = d]
  /\ Note(h, speed, ts, SpeedLimit)
  /\ UNCHANGED <<table, lost, faults>>

\* ApplyOverspeed returns; the caller only warns.
Return(h) ==
  /\ pc' = [pc EXCEPT ![h] = "idle"]
  /\ decision' = [decision EXCEPT ![h] = NoDecision]

\* Mutant of Save: no alert follows.
SaveOnly(h) ==
  /\ pc[h] = "save"
  /\ breach' = decision[h].next
  /\ Return(h)
  /\ UNCHANGED <<limit, events, samples, raised, lost, faults>>

\* saveOverspeedState upserts the whole row, whatever it holds by now.
Save(h) ==
  /\ pc[h] = "save"
  /\ breach' = decision[h].next
  /\ IF decision[h].alert
     THEN pc' = [pc EXCEPT ![h] = "insert"] /\ UNCHANGED decision
     ELSE Return(h)
  /\ UNCHANGED <<limit, events, samples, raised, lost, faults>>

\* insertOverspeedSafetyEvent: the id is made of the vehicle and the breach's
\* start; a row that has it already stays.
Insert(h) ==
  /\ pc[h] = "insert"
  /\ events' = events \cup {decision[h].next.startedAt}
  /\ raised' = IF overlap THEN {} ELSE raised \cup ({decision[h].next.startedAt} \ events)
  /\ Return(h)
  /\ UNCHANGED <<limit, breach, samples, lost, faults>>

\* A statement fails, in time or after it was done, or the process dies.
Fail(h) ==
  /\ Fault
  /\ \/ pc[h] = "save" /\ breach' \in {breach, decision[h].next}
     \/ pc[h] = "insert" /\ UNCHANGED breach
  /\ lost' = IF decision[h].alert
             THEN lost \cup {decision[h].next.startedAt} ELSE lost
  /\ Return(h)
  /\ UNCHANGED <<limit, events, samples, raised>>

\* An operator changes the vehicle's limit.
SetLimit(l) ==
  /\ limit' = l
  /\ UNCHANGED <<breach, events, handler, samples, raised, lost, faults>>

-----------------------------------------------------------------------------

Init ==
  /\ limit = NoLimit
  /\ breach = NotBreaching
  /\ events = {}
  /\ pc = [h \in Handlers |-> "idle"]
  /\ decision = [h \in Handlers |-> NoDecision]
  /\ over = {} /\ stretch = NoStretch /\ raised = {} /\ slowed = {}
  /\ overlap = FALSE /\ lost = {} /\ faults = 0

Next ==
  \/ \E h \in Handlers :
       \/ \E speed \in Speeds, ts \in Times : Load(h, speed, ts)
       \/ Save(h) \/ Insert(h) \/ Fail(h)
  \/ \E l \in Limits \cup {NoLimit} : SetLimit(l)

Spec == Init /\ [][Next]_vars

-----------------------------------------------------------------------------
(* Properties *)

\* Every variable has its type; a row that is not breaching is the zero row.
TypeOK ==
  /\ limit \in Limits \cup {NoLimit}
  /\ breach \in Breach
  /\ events \subseteq Times
  /\ pc \in [Handlers -> {"idle", "save", "insert"}]
  /\ decision \in [Handlers -> Decision]
  /\ over \subseteq Times
  /\ stretch \in [from : Times \cup {ZeroTime}, to : Times \cup {ZeroTime}]
  /\ raised \subseteq Times /\ slowed \subseteq Times
  /\ overlap \in BOOLEAN
  /\ lost \subseteq Times
  /\ faults \in 0 .. MaxFaults

SustainedFrom(s, T) == s \in T /\ \E t \in T : t - s >= MinDuration

\* SUSTAINED, whatever the interleaving: an alert names the time of a sample
\* that was over the limit, and another was over it at least the minimum
\* duration later.
AlertsAreSustained == \A s \in events : SustainedFrom(s, over)

\* A breach marked as alerted will not alert again, so its alert has been
\* inserted, is about to be, or was ended by an error; no race between two
\* ingests can lose it.
AlertedIsRaised ==
  breach.alerted =>
    \/ breach.startedAt \in events \cup lost
    \/ \E h \in Handlers : pc[h] = "insert" /\ decision[h].next.startedAt = breach.startedAt

\* Ingests came one at a time and without errors, and none is running.
Orderly == ~overlap /\ faults = 0
Quiet   == \A h \in Handlers : pc[h] = "idle"

\* When the samples over the limit since the vehicle was last clear span the minimum
\* duration, there is an alert.
StretchIsAlerted ==
  Quiet /\ stretch # NoStretch /\ stretch.to - stretch.from >= MinDuration
    => stretch.from \in events

\* Until the vehicle is clear again there is one alert, however long the stretch and
\* however often it dips below the limit.
OneAlertPerStretch == Cardinality(raised) <= 1

\* An alert is not put together from two breaches: the vehicle was not clear of the
\* limit between the breach's start and its alert.
AlertsAreUnbroken == events \cap slowed = {}

\* ALERT ONCE: alerts and sustained breaches match one to one, as long as ingests of the
\* vehicle come one at a time and none fails: no breach goes unnoticed, none is alerted
\* twice and no two are taken for one (overspeed.go, evaluateOverspeed).
AlertsMatchStretches ==
  Orderly => StretchIsAlerted /\ OneAlertPerStretch /\ AlertsAreUnbroken
=============================================================================
