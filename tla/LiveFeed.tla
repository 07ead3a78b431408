------------------------------- MODULE LiveFeed -------------------------------
(***************************************************************************)
(* The live feed within one process: the Broker that ingests publish to    *)
(* (iot/pubsub.go) and the Hub's subscriptions on it (iot/hub.go).         *)
(*                                                                         *)
(* Publish holds the broker's mutex for reading while it offers a ping to  *)
(* every channel; to subscribe and to cancel take it for writing.  As Go's *)
(* RWMutex does, a writer that waits keeps new readers out.  A goroutine   *)
(* per subscription forwards from the broker's channel to the one the      *)
(* client reads.  Cancel removes the first channel, closes it, waits for   *)
(* the forwarder and closes the second; a client need not read.            *)
(***************************************************************************)
EXTENDS Integers, Sequences, SequencesExt

CONSTANTS
  Publishers,  \* goroutines that publish
  Subs,        \* subscriptions
  Vehicles,    \* vehicles of pings
  VehicleOf,   \* the vehicle of each publisher's device; an ingest has one
  Fleet,       \* what a live subscription is for
  Wants,       \* the vehicle, or the fleet, each subscription is for
  BrokerCap,   \* capacity of the broker's channels
  HubCap,      \* capacity of the hub's
  MaxPings     \* bound: how many pings each goroutine publishes, at most

ASSUME DataAssumption ==
  /\ Fleet \notin Vehicles /\ VehicleOf \in [Publishers -> Vehicles]
  /\ Wants \in [Subs -> Vehicles \cup {Fleet}]
  /\ BrokerCap \in Nat \ {0} /\ HubCap \in Nat \ {0} /\ MaxPings \in [Publishers -> Nat]

VARIABLES
  sub,         \* where each subscription is
  registered,  \* subs and liveSubs: the channels the broker knows
  ch,          \* the broker's channel of each
  closed,      \* those of the broker's channels that are closed
  fwd,         \* where each forwarder is
  held,        \* the ping it has received and not passed on
  out,         \* the hub's channel of each
  outClosed,   \* those of the hub's channels that are closed
  received,    \* what each client has read
  ping,        \* the ping each goroutine publishes, if it does
  targets,     \* the channels it has still to offer it to
  count,       \* how many it has published
  due,         \* history: the pings published while a subscription was registered
  dropped      \* history: those dropped because a channel was full

subscription == <<sub, registered, ch, closed, fwd, held, out, outClosed, received>>
publish      == <<ping, targets, count>>
vars         == <<subscription, publish, due, dropped>>

Ping == [from : Publishers, seq : Nat \ {0}, vehicle : Vehicles]

\* Lock has been called and not granted.
Pending(s) == sub[s] \in {"subscribing", "cancelling"}

\* Goroutines that hold the mutex for reading.
Reading == {p \in Publishers : ping[p] # <<>>}

-----------------------------------------------------------------------------
(* Publish *)

\* The channels of one vehicle and those of the fleet, which SubscribeLive
\* rids of pings without a vehicle: there are none, since both gateways and
\* the HTTP ingest turn such a device away before anything is published.
Matches(s, v) == Wants[s] \in {v, Fleet}

\* RLock, and the channels to offer the ping to; the maps cannot change under
\* the lock.
Publish(p) ==
  /\ ping[p] = <<>> /\ count[p] < MaxPings[p]
  /\ \A s \in Subs : ~Pending(s)
  /\ count' = [count EXCEPT ![p] = count[p] + 1]
  /\ LET new == [from |-> p, seq |-> count[p] + 1, vehicle |-> VehicleOf[p]]
         to  == {s \in registered : Matches(s, VehicleOf[p])}
     IN /\ ping' = [ping EXCEPT ![p] = <<new>>]
        /\ targets' = [targets EXCEPT ![p] = to]
        /\ due' = [s \in Subs |-> IF s \in to THEN due[s] \cup {new} ELSE due[s]]
  /\ UNCHANGED <<subscription, dropped>>

\* Mutant of Offer: the channel has no bound.
OfferUnbounded(p, s) ==
  /\ s \in targets[p]
  /\ ch' = [ch EXCEPT ![s] = ch[s] \o ping[p]]
  /\ targets' = [targets EXCEPT ![p] = targets[p] \ {s}]
  /\ UNCHANGED <<sub, registered, closed, fwd, held, out, outClosed, received, ping, count,
                 due, dropped>>

\* Mutant of Offer: a full channel loses its oldest ping, which nobody counts.
OfferOverwrites(p, s) ==
  /\ s \in targets[p]
  /\ ch' = [ch EXCEPT ![s] = (IF Len(ch[s]) < BrokerCap THEN ch[s] ELSE Tail(ch[s])) \o ping[p]]
  /\ targets' = [targets EXCEPT ![p] = targets[p] \ {s}]
  /\ UNCHANGED <<sub, registered, closed, fwd, held, out, outClosed, received, ping, count,
                 due, dropped>>

\* Offer the ping to a channel; a full one drops it.
Offer(p, s) ==
  /\ s \in targets[p]
  /\ IF Len(ch[s]) < BrokerCap
     THEN ch' = [ch EXCEPT ![s] = ch[s] \o ping[p]] /\ UNCHANGED dropped
     ELSE dropped' = [dropped EXCEPT ![s] = dropped[s] \cup ToSet(ping[p])] /\ UNCHANGED ch
  /\ targets' = [targets EXCEPT ![p] = targets[p] \ {s}]
  /\ UNCHANGED <<sub, registered, closed, fwd, held, out, outClosed, received, ping, count, due>>

\* RUnlock.
Published(p) ==
  /\ ping[p] # <<>> /\ targets[p] = {}
  /\ ping' = [ping EXCEPT ![p] = <<>>]
  /\ UNCHANGED <<subscription, targets, count, due, dropped>>

-----------------------------------------------------------------------------
(* Subscribe and cancel *)

Move(s, from, to) == sub[s] = from /\ sub' = [sub EXCEPT ![s] = to]

\* A client subscribes: the channel is made and Lock called.
Subscribe(s) ==
  /\ Move(s, "none", "subscribing")
  /\ UNCHANGED <<registered, ch, closed, fwd, held, out, outClosed, received, publish, due,
                 dropped>>

\* Under the lock the channel is entered; then the forwarder starts.
Register(s) ==
  /\ Reading = {}
  /\ Move(s, "subscribing", "open")
  /\ registered' = registered \cup {s}
  /\ fwd' = [fwd EXCEPT ![s] = "waiting"]
  /\ UNCHANGED <<ch, closed, held, out, outClosed, received, publish, due, dropped>>

\* The client cancels.
Cancel(s) ==
  /\ Move(s, "open", "cancelling")
  /\ UNCHANGED <<registered, ch, closed, fwd, held, out, outClosed, received, publish, due,
                 dropped>>

\* Mutant of Unregister: the channel is removed without the lock.
UnregisterUnlocked(s) ==
  /\ Move(s, "cancelling", "removed")
  /\ registered' = registered \ {s}
  /\ UNCHANGED <<ch, closed, fwd, held, out, outClosed, received, publish, due, dropped>>

\* Under the lock the channel is removed.
Unregister(s) ==
  /\ Reading = {}
  /\ Move(s, "cancelling", "removed")
  /\ registered' = registered \ {s}
  /\ UNCHANGED <<ch, closed, fwd, held, out, outClosed, received, publish, due, dropped>>

\* It is closed after Unlock, and the hub waits for the forwarder.
Close(s) ==
  /\ Move(s, "removed", "draining")
  /\ closed' = closed \cup {s}
  /\ UNCHANGED <<registered, ch, fwd, held, out, outClosed, received, publish, due, dropped>>

\* Mutant of CloseOut: the hub does not wait.
CloseOutAtOnce(s) ==
  /\ Move(s, "draining", "cancelled")
  /\ outClosed' = outClosed \cup {s}
  /\ UNCHANGED <<registered, ch, closed, fwd, held, out, received, publish, due, dropped>>

\* The forwarder has ended: the hub closes its own channel.
CloseOut(s) ==
  /\ fwd[s] = "ended"
  /\ Move(s, "draining", "cancelled")
  /\ outClosed' = outClosed \cup {s}
  /\ UNCHANGED <<registered, ch, closed, fwd, held, out, received, publish, due, dropped>>

-----------------------------------------------------------------------------
(* The forwarder and the client *)

\* Mutant of Receive: the ping stays in the channel.
ReceiveCopy(s) ==
  /\ fwd[s] = "waiting" /\ ch[s] # <<>>
  /\ fwd' = [fwd EXCEPT ![s] = "holding"]
  /\ held' = [held EXCEPT ![s] = <<Head(ch[s])>>]
  /\ UNCHANGED <<sub, registered, ch, closed, out, outClosed, received, publish, due, dropped>>

\* The forwarder takes the next ping.
Receive(s) ==
  /\ fwd[s] = "waiting" /\ ch[s] # <<>>
  /\ fwd' = [fwd EXCEPT ![s] = "holding"]
  /\ held' = [held EXCEPT ![s] = <<Head(ch[s])>>]
  /\ ch' = [ch EXCEPT ![s] = Tail(ch[s])]
  /\ UNCHANGED <<sub, registered, closed, out, outClosed, received, publish, due, dropped>>

\* Mutant of Forward: the send waits for the client.
ForwardWaits(s) ==
  /\ fwd[s] = "holding" /\ Len(out[s]) < HubCap
  /\ out' = [out EXCEPT ![s] = out[s] \o held[s]]
  /\ fwd' = [fwd EXCEPT ![s] = "waiting"]
  /\ held' = [held EXCEPT ![s] = <<>>]
  /\ UNCHANGED <<sub, registered, ch, closed, outClosed, received, publish, due, dropped>>

\* The ping goes to the client's channel, if that has room.
Forward(s) ==
  /\ fwd[s] = "holding"
  /\ IF Len(out[s]) < HubCap
     THEN out' = [out EXCEPT ![s] = out[s] \o held[s]] /\ UNCHANGED dropped
     ELSE dropped' = [dropped EXCEPT ![s] = dropped[s] \cup ToSet(held[s])] /\ UNCHANGED out
  /\ fwd' = [fwd EXCEPT ![s] = "waiting"]
  /\ held' = [held EXCEPT ![s] = <<>>]
  /\ UNCHANGED <<sub, registered, ch, closed, outClosed, received, publish, due>>

\* The loop ends when the channel is closed and empty.
End(s) ==
  /\ fwd[s] = "waiting" /\ ch[s] = <<>> /\ s \in closed
  /\ fwd' = [fwd EXCEPT ![s] = "ended"]
  /\ UNCHANGED <<sub, registered, ch, closed, held, out, outClosed, received, publish, due,
                 dropped>>

\* The client reads; a closed channel still gives what it holds.
Read(s) ==
  /\ out[s] # <<>>
  /\ received' = [received EXCEPT ![s] = Append(received[s], Head(out[s]))]
  /\ out' = [out EXCEPT ![s] = Tail(out[s])]
  /\ UNCHANGED <<sub, registered, ch, closed, fwd, held, outClosed, publish, due, dropped>>

-----------------------------------------------------------------------------

Init ==
  /\ sub = [s \in Subs |-> "none"]
  /\ registered = {} /\ closed = {} /\ outClosed = {}
  /\ ch = [s \in Subs |-> <<>>]
  /\ fwd = [s \in Subs |-> "none"]
  /\ held = [s \in Subs |-> <<>>]
  /\ out = [s \in Subs |-> <<>>]
  /\ received = [s \in Subs |-> <<>>]
  /\ ping = [p \in Publishers |-> <<>>]
  /\ targets = [p \in Publishers |-> {}]
  /\ count = [p \in Publishers |-> 0]
  /\ due = [s \in Subs |-> {}]
  /\ dropped = [s \in Subs |-> {}]

Next ==
  \/ \E p \in Publishers :
       \/ Publish(p)
       \/ \E s \in Subs : Offer(p, s)
       \/ Published(p)
  \/ \E s \in Subs :
       \/ Subscribe(s) \/ Register(s) \/ Cancel(s) \/ Unregister(s) \/ Close(s) \/ CloseOut(s)
       \/ Receive(s) \/ Forward(s) \/ End(s) \/ Read(s)

Spec == Init /\ [][Next]_vars

\* Goroutines are scheduled and the mutex is granted; clients may stop reading.
Fairness ==
  /\ \A p \in Publishers :
       WF_vars(Published(p)) /\ \A s \in Subs : WF_vars(Offer(p, s))
  /\ \A s \in Subs :
       /\ WF_vars(Register(s)) /\ WF_vars(Unregister(s)) /\ WF_vars(Close(s)) /\ WF_vars(CloseOut(s))
       /\ WF_vars(Receive(s)) /\ WF_vars(Forward(s)) /\ WF_vars(End(s))

FairSpec == Spec /\ Fairness

-----------------------------------------------------------------------------
(* Properties *)

\* Every variable has its type, and no channel holds more than its capacity.
TypeOK ==
  /\ sub \in [Subs -> {"none", "subscribing", "open", "cancelling", "removed", "draining",
                       "cancelled"}]
  /\ registered \subseteq Subs /\ closed \subseteq Subs /\ outClosed \subseteq Subs
  /\ ch \in [Subs -> Seq(Ping)] /\ \A s \in Subs : Len(ch[s]) <= BrokerCap
  /\ fwd \in [Subs -> {"none", "waiting", "holding", "ended"}]
  /\ held \in [Subs -> Seq(Ping)] /\ \A s \in Subs : Len(held[s]) <= 1
  /\ out \in [Subs -> Seq(Ping)] /\ \A s \in Subs : Len(out[s]) <= HubCap
  /\ received \in [Subs -> Seq(Ping)]
  /\ ping \in [Publishers -> Seq(Ping)] /\ \A p \in Publishers : Len(ping[p]) <= 1
  /\ targets \in [Publishers -> SUBSET Subs]
  /\ count \in [Publishers -> Nat] /\ \A p \in Publishers : count[p] <= MaxPings[p]
  /\ due \in [Subs -> SUBSET Ping]
  /\ dropped \in [Subs -> SUBSET Ping]

\* A send on a closed channel panics and takes the process with it: nobody who
\* may still send to a channel finds it closed, however a cancel falls between
\* publishes.
NoSendOnClosed ==
  /\ \A p \in Publishers : targets[p] \cap closed = {}
  /\ \A s \in outClosed : fwd[s] # "holding"

\* What has been accepted for a client, oldest first.
Pipe(s) == received[s] \o out[s] \o held[s] \o ch[s]

\* The pings of each publisher come in order and none twice.
InOrder ==
  \A s \in Subs : \A i, j \in DOMAIN Pipe(s) :
    i < j /\ Pipe(s)[i].from = Pipe(s)[j].from => Pipe(s)[i].seq < Pipe(s)[j].seq

\* A ping published while the client was registered has been accepted, is being
\* offered, or was dropped at a full channel.
NothingElseIsLost ==
  \A s \in Subs : due[s] = ToSet(Pipe(s)) \cup dropped[s] \cup
                           UNION {ToSet(ping[p]) : p \in {q \in Publishers : s \in targets[q]}}

\* A client's feed is what was published while it was registered, in order and once,
\* but for what a full channel cost it: whoever else publishes, wherever a cancel falls,
\* nothing that was accepted is lost, repeated or overtaken (pubsub.go, hub.go).
FeedIsFaithful == InOrder /\ NothingElseIsLost

\* A slow client sees gaps, never a stalled writer: Publish, subscribe and
\* cancel return, whatever they wait for, though no client ever reads.
NobodyWaitsForAClient ==
  /\ \A p \in Publishers : ping[p] # <<>> ~> ping[p] = <<>>
  /\ \A s \in Subs :
       /\ sub[s] = "subscribing" ~> sub[s] = "open"
       /\ sub[s] = "cancelling" ~> sub[s] = "cancelled"
=============================================================================
