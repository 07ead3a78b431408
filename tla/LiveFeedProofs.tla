---------------------------- MODULE LiveFeedProofs ----------------------------
(***************************************************************************)
(* For any number of publishers and subscriptions and any capacities: the  *)
(* variables of LiveFeed keep their types, nobody sends on a closed        *)
(* channel, and each client's feed is faithful.                            *)
(*                                                                         *)
(* The second rests on the lock and on the order of a cancel.  What a      *)
(* publisher has still to do is registered, since the tables change only   *)
(* when nobody reads them; a closed channel is registered no more; and a   *)
(* hub's channel is closed when its forwarder has ended.  The third takes  *)
(* the three channels a ping passes as one sequence: publishing appends to *)
(* it, a drop takes one ping out, every other step leaves it as it is.     *)
(***************************************************************************)
EXTENDS LiveFeed, SequenceTheorems, TLAPS

\* Publishers offer to registered channels only, under the lock.
OffersRegistered ==
  \A p \in Publishers : targets[p] \subseteq registered /\ (targets[p] # {} => p \in Reading)

\* How far a cancel is says what is registered, closed and ended.
CancelInOrder ==
  /\ registered = {s \in Subs : sub[s] \in {"open", "cancelling"}}
  /\ closed = {s \in Subs : sub[s] \in {"draining", "cancelled"}}
  /\ outClosed = {s \in Subs : sub[s] = "cancelled"}
  /\ \A s \in outClosed : fwd[s] = "ended"

IInv == TypeOK /\ OffersRegistered /\ CancelInOrder

-----------------------------------------------------------------------------
(* Types *)

\* A channel that is not full has room for one more.
LEMMA Fits ==
  ASSUME NEW n \in Nat, NEW m \in Nat, NEW cap \in Nat, n < cap, m <= 1 PROVE n + m <= cap
  OBVIOUS

LEMMA TypeInit == Init => TypeOK
<1> SUFFICES ASSUME Init PROVE TypeOK
  OBVIOUS
<1>1. <<>> \in Seq(Ping) /\ Len(<<>>) = 0
  OBVIOUS
<1>2. /\ ch = [s \in Subs |-> <<>>] /\ held = [s \in Subs |-> <<>>]
      /\ out = [s \in Subs |-> <<>>] /\ received = [s \in Subs |-> <<>>]
      /\ ping = [p \in Publishers |-> <<>>]
  BY DEF Init
<1>3. /\ ch \in [Subs -> Seq(Ping)] /\ held \in [Subs -> Seq(Ping)]
      /\ out \in [Subs -> Seq(Ping)] /\ received \in [Subs -> Seq(Ping)]
      /\ ping \in [Publishers -> Seq(Ping)]
  BY <1>1, <1>2
<1>4. /\ \A s \in Subs : Len(ch[s]) <= BrokerCap /\ Len(held[s]) <= 1 /\ Len(out[s]) <= HubCap
      /\ \A p \in Publishers : Len(ping[p]) <= 1
  BY <1>1, <1>2, DataAssumption
<1>5. count \in [Publishers -> Nat] /\ \A p \in Publishers : count[p] <= MaxPings[p]
  BY DataAssumption DEF Init
<1>6. QED
  BY <1>3, <1>4, <1>5 DEF Init, TypeOK

LEMMA TypePublish == ASSUME TypeOK, NEW p \in Publishers, Publish(p) PROVE TypeOK'
<1> DEFINE new == [from |-> p, seq |-> count[p] + 1, vehicle |-> VehicleOf[p]]
           to  == {s \in registered : Matches(s, VehicleOf[p])}
<1>1. new \in Ping
  BY DataAssumption DEF TypeOK, Ping
<1>2. <<new>> \in Seq(Ping) /\ Len(<<new>>) = 1
  BY <1>1
<1>3. /\ count' = [count EXCEPT ![p] = count[p] + 1] /\ count[p] < MaxPings[p]
      /\ ping' = [ping EXCEPT ![p] = <<new>>]
      /\ targets' = [targets EXCEPT ![p] = to]
      /\ due' = [s \in Subs |-> IF s \in to THEN due[s] \cup {new} ELSE due[s]]
      /\ UNCHANGED <<subscription, dropped>>
  BY DEF Publish
<1> HIDE DEF new
<1>4. ping' \in [Publishers -> Seq(Ping)] /\ \A q \in Publishers : Len(ping'[q]) <= 1
  BY <1>2, <1>3 DEF TypeOK
<1>5. count' \in [Publishers -> Nat] /\ \A q \in Publishers : count'[q] <= MaxPings[q]
  <2>1. count[p] \in Nat /\ MaxPings[p] \in Nat
    BY DataAssumption DEF TypeOK
  <2>2. count[p] + 1 \in Nat /\ count[p] + 1 <= MaxPings[p]
    BY <1>3, <2>1
  <2>3. QED
    BY <1>3, <2>2 DEF TypeOK
<1>6. targets' \in [Publishers -> SUBSET Subs]
  BY <1>3 DEF TypeOK
<1>7. due' \in [Subs -> SUBSET Ping]
  BY <1>1, <1>3 DEF TypeOK
<1>8. QED
  BY <1>3, <1>4, <1>5, <1>6, <1>7 DEF TypeOK, subscription

LEMMA TypeOffer ==
  ASSUME TypeOK, NEW p \in Publishers, NEW s \in Subs, Offer(p, s) PROVE TypeOK'
<1>1. targets' \in [Publishers -> SUBSET Subs]
  BY DEF Offer, TypeOK
<1>2. CASE Len(ch[s]) < BrokerCap
  <2>1. ch' = [ch EXCEPT ![s] = ch[s] \o ping[p]] /\ dropped' = dropped
    BY <1>2 DEF Offer
  <2>2. ch[s] \in Seq(Ping) /\ ping[p] \in Seq(Ping) /\ Len(ping[p]) <= 1
    BY DEF TypeOK
  <2>3. ch[s] \o ping[p] \in Seq(Ping) /\ Len(ch[s] \o ping[p]) = Len(ch[s]) + Len(ping[p])
    BY <2>2
  <2>4. Len(ch[s] \o ping[p]) <= BrokerCap
    <3>1. Len(ch[s]) \in Nat /\ Len(ping[p]) \in Nat /\ BrokerCap \in Nat
      BY <2>2, DataAssumption
    <3>2. Len(ch[s]) + Len(ping[p]) <= BrokerCap
      BY <1>2, <2>2, <3>1, Fits
    <3>3. QED
      BY <2>3, <3>2
  <2>5. ch' \in [Subs -> Seq(Ping)] /\ \A r \in Subs : Len(ch'[r]) <= BrokerCap
    BY <2>1, <2>3, <2>4 DEF TypeOK
  <2>6. QED
    BY <1>1, <2>1, <2>5 DEF Offer, TypeOK
<1>3. CASE ~(Len(ch[s]) < BrokerCap)
  <2>1. ch' = ch /\ dropped' = [dropped EXCEPT ![s] = dropped[s] \cup ToSet(ping[p])]
    BY <1>3 DEF Offer
  <2>2. ToSet(ping[p]) \subseteq Ping
    BY DEF ToSet, TypeOK
  <2>3. dropped' \in [Subs -> SUBSET Ping]
    BY <2>1, <2>2 DEF TypeOK
  <2>4. QED
    BY <1>1, <2>1, <2>3 DEF Offer, TypeOK
<1>4. QED
  BY <1>2, <1>3

LEMMA TypePublished == ASSUME TypeOK, NEW p \in Publishers, Published(p) PROVE TypeOK'
<1>1. <<>> \in Seq(Ping) /\ Len(<<>>) = 0
  OBVIOUS
<1>2. ping' \in [Publishers -> Seq(Ping)] /\ \A q \in Publishers : Len(ping'[q]) <= 1
  BY <1>1 DEF Published, TypeOK
<1>3. QED
  BY <1>2 DEF Published, TypeOK, subscription

\* Subscribing and cancelling move no ping.
LEMMA TypeCancel ==
  ASSUME TypeOK, NEW s \in Subs,
         Subscribe(s) \/ Register(s) \/ Cancel(s) \/ Unregister(s) \/ Close(s) \/ CloseOut(s)
  PROVE  TypeOK'
<1>1. sub' \in [Subs -> {"none", "subscribing", "open", "cancelling", "removed", "draining",
                         "cancelled"}]
  BY DEF Subscribe, Register, Cancel, Unregister, Close, CloseOut, Move, TypeOK
<1>2. registered' \subseteq Subs /\ closed' \subseteq Subs /\ outClosed' \subseteq Subs
  BY DEF Subscribe, Register, Cancel, Unregister, Close, CloseOut, TypeOK
<1>3. fwd' \in [Subs -> {"none", "waiting", "holding", "ended"}]
  BY DEF Subscribe, Register, Cancel, Unregister, Close, CloseOut, TypeOK
<1>4. UNCHANGED <<ch, held, out, received, ping, targets, count, due, dropped>>
  BY DEF Subscribe, Register, Cancel, Unregister, Close, CloseOut, publish
<1>5. QED
  BY <1>1, <1>2, <1>3, <1>4 DEF TypeOK

LEMMA TypeReceive == ASSUME TypeOK, NEW s \in Subs, Receive(s) PROVE TypeOK'
<1>1. ch[s] \in Seq(Ping) /\ ch[s] # <<>> /\ Len(ch[s]) <= BrokerCap
  BY DEF Receive, TypeOK
<1>2. Head(ch[s]) \in Ping /\ Tail(ch[s]) \in Seq(Ping) /\ Len(Tail(ch[s])) = Len(ch[s]) - 1
  BY <1>1
<1>3. <<Head(ch[s])>> \in Seq(Ping) /\ Len(<<Head(ch[s])>>) = 1
  BY <1>2
<1>4. Len(Tail(ch[s])) <= BrokerCap
  BY <1>1, <1>2, DataAssumption
<1>5. ch' \in [Subs -> Seq(Ping)] /\ \A r \in Subs : Len(ch'[r]) <= BrokerCap
  BY <1>2, <1>4 DEF Receive, TypeOK
<1>6. held' \in [Subs -> Seq(Ping)] /\ \A r \in Subs : Len(held'[r]) <= 1
  BY <1>3 DEF Receive, TypeOK
<1>7. fwd' \in [Subs -> {"none", "waiting", "holding", "ended"}]
  BY DEF Receive, TypeOK
<1>8. QED
  BY <1>5, <1>6, <1>7 DEF Receive, TypeOK, publish

LEMMA TypeForward == ASSUME TypeOK, NEW s \in Subs, Forward(s) PROVE TypeOK'
<1>1. <<>> \in Seq(Ping) /\ Len(<<>>) = 0
  OBVIOUS
<1>2. held' \in [Subs -> Seq(Ping)] /\ \A r \in Subs : Len(held'[r]) <= 1
  BY <1>1 DEF Forward, TypeOK
<1>3. fwd' \in [Subs -> {"none", "waiting", "holding", "ended"}]
  BY DEF Forward, TypeOK
<1>4. CASE Len(out[s]) < HubCap
  <2>1. out' = [out EXCEPT ![s] = out[s] \o held[s]] /\ dropped' = dropped
    BY <1>4 DEF Forward
  <2>2. out[s] \in Seq(Ping) /\ held[s] \in Seq(Ping) /\ Len(held[s]) <= 1
    BY DEF TypeOK
  <2>3. out[s] \o held[s] \in Seq(Ping) /\ Len(out[s] \o held[s]) = Len(out[s]) + Len(held[s])
    BY <2>2
  <2>4. Len(out[s] \o held[s]) <= HubCap
    <3>1. Len(out[s]) \in Nat /\ Len(held[s]) \in Nat /\ HubCap \in Nat
      BY <2>2, DataAssumption
    <3>2. Len(out[s]) + Len(held[s]) <= HubCap
      BY <1>4, <2>2, <3>1, Fits
    <3>3. QED
      BY <2>3, <3>2
  <2>5. out' \in [Subs -> Seq(Ping)] /\ \A r \in Subs : Len(out'[r]) <= HubCap
    BY <2>1, <2>3, <2>4 DEF TypeOK
  <2>6. QED
    BY <1>2, <1>3, <2>1, <2>5 DEF Forward, TypeOK, publish
<1>5. CASE ~(Len(out[s]) < HubCap)
  <2>1. out' = out /\ dropped' = [dropped EXCEPT ![s] = dropped[s] \cup ToSet(held[s])]
    BY <1>5 DEF Forward
  <2>2. ToSet(held[s]) \subseteq Ping
    BY DEF ToSet, TypeOK
  <2>3. dropped' \in [Subs -> SUBSET Ping]
    BY <2>1, <2>2 DEF TypeOK
  <2>4. QED
    BY <1>2, <1>3, <2>1, <2>3 DEF Forward, TypeOK, publish
<1>6. QED
  BY <1>4, <1>5

LEMMA TypeEnd == ASSUME TypeOK, NEW s \in Subs, End(s) PROVE TypeOK'
  BY DEF End, TypeOK, publish

LEMMA TypeRead == ASSUME TypeOK, NEW s \in Subs, Read(s) PROVE TypeOK'
<1>1. out[s] \in Seq(Ping) /\ out[s] # <<>> /\ Len(out[s]) <= HubCap /\ received[s] \in Seq(Ping)
  BY DEF Read, TypeOK
<1>2. Head(out[s]) \in Ping /\ Tail(out[s]) \in Seq(Ping) /\ Len(Tail(out[s])) = Len(out[s]) - 1
  BY <1>1
<1>3. Len(Tail(out[s])) <= HubCap
  BY <1>1, <1>2, DataAssumption
<1>4. out' \in [Subs -> Seq(Ping)] /\ \A r \in Subs : Len(out'[r]) <= HubCap
  BY <1>2, <1>3 DEF Read, TypeOK
<1>5. received' \in [Subs -> Seq(Ping)]
  <2>1. Append(received[s], Head(out[s])) \in Seq(Ping)
    BY <1>1, <1>2
  <2>2. QED
    BY <2>1 DEF Read, TypeOK
<1>6. QED
  BY <1>4, <1>5 DEF Read, TypeOK, publish

LEMMA TypeStep == TypeOK /\ [Next]_vars => TypeOK'
<1> SUFFICES ASSUME TypeOK, [Next]_vars PROVE TypeOK'
  OBVIOUS
<1>1. ASSUME NEW p \in Publishers, Publish(p) \/ Published(p) \/ \E s \in Subs : Offer(p, s)
      PROVE  TypeOK'
  BY <1>1, TypePublish, TypePublished, TypeOffer
<1>2. ASSUME NEW s \in Subs,
             Subscribe(s) \/ Register(s) \/ Cancel(s) \/ Unregister(s) \/ Close(s) \/ CloseOut(s)
      PROVE  TypeOK'
  BY <1>2, TypeCancel
<1>3. ASSUME NEW s \in Subs, Receive(s) \/ Forward(s) \/ End(s) \/ Read(s)
      PROVE  TypeOK'
  BY <1>3, TypeReceive, TypeForward, TypeEnd, TypeRead
<1>4. CASE UNCHANGED vars
  BY <1>4 DEF vars, subscription, publish, TypeOK
<1>5. QED
  BY <1>1, <1>2, <1>3, <1>4 DEF Next

\* Every variable of LiveFeed keeps its type; in particular no channel ever
\* holds more than its capacity.
THEOREM TypeCorrect == Spec => []TypeOK
<1>1. QED
  BY TypeInit, TypeStep, PTL DEF Spec

-----------------------------------------------------------------------------
(* The lock, and the order of a cancel *)

LEMMA InvInit == Init => OffersRegistered /\ CancelInOrder
  BY DEF Init, OffersRegistered, CancelInOrder

\* Publishers change no table ...
LEMMA InvPublish ==
  ASSUME IInv, NEW p \in Publishers, Publish(p) \/ Published(p) \/ \E s \in Subs : Offer(p, s)
  PROVE  OffersRegistered' /\ CancelInOrder'
<1> USE DEF IInv, OffersRegistered, Reading
<1>1. UNCHANGED <<sub, registered, closed, outClosed, fwd>>
  BY DEF Publish, Published, Offer, subscription
<1>2. CancelInOrder'
  BY <1>1 DEF CancelInOrder
<1>3. CASE Publish(p)
  <2>1. ping'[p] # <<>> /\ targets'[p] \subseteq registered
    BY <1>3 DEF Publish, TypeOK
  <2>2. \A q \in Publishers \ {p} : ping'[q] = ping[q] /\ targets'[q] = targets[q]
    BY <1>3 DEF Publish, TypeOK
  <2>3. QED
    BY <1>1, <1>2, <2>1, <2>2
<1>4. CASE Published(p)
  BY <1>1, <1>2, <1>4 DEF Published, TypeOK
<1>5. ASSUME NEW s \in Subs, Offer(p, s) PROVE OffersRegistered'
  BY <1>1, <1>5 DEF Offer, TypeOK
<1>6. QED
  BY <1>2, <1>3, <1>4, <1>5

\* ... and the tables change when nobody publishes.
LEMMA InvCancel ==
  ASSUME IInv, NEW s \in Subs,
         Subscribe(s) \/ Register(s) \/ Cancel(s) \/ Unregister(s) \/ Close(s) \/ CloseOut(s)
  PROVE  OffersRegistered' /\ CancelInOrder'
<1> USE DEF IInv, OffersRegistered, Reading
<1>1. UNCHANGED <<ping, targets>>
  BY DEF Subscribe, Register, Cancel, Unregister, Close, CloseOut, publish
<1>2. OffersRegistered'
  <2>1. CASE Unregister(s)
    BY <1>1, <2>1 DEF Unregister
  <2>2. CASE ~Unregister(s)
    <3>1. registered \subseteq registered'
      BY <2>2 DEF Subscribe, Register, Cancel, Close, CloseOut
    <3>2. QED
      BY <1>1, <3>1
  <2>3. QED
    BY <2>1, <2>2
<1>3. CancelInOrder'
  <2> USE DEF Move, CancelInOrder, TypeOK
  <2>1. CASE Subscribe(s)
    BY <2>1 DEF Subscribe
  <2>2. CASE Register(s)
    BY <2>2 DEF Register
  <2>3. CASE Cancel(s)
    BY <2>3 DEF Cancel
  <2>4. CASE Unregister(s)
    BY <2>4 DEF Unregister
  <2>5. CASE Close(s)
    BY <2>5 DEF Close
  <2>6. CASE CloseOut(s)
    BY <2>6 DEF CloseOut
  <2>7. QED
    BY <2>1, <2>2, <2>3, <2>4, <2>5, <2>6
<1>4. QED
  BY <1>2, <1>3

\* A forwarder that has ended does not start again.
LEMMA InvForward ==
  ASSUME IInv, NEW s \in Subs, Receive(s) \/ Forward(s) \/ End(s) \/ Read(s)
  PROVE  OffersRegistered' /\ CancelInOrder'
<1>1. UNCHANGED <<sub, registered, closed, outClosed, ping, targets>>
  BY DEF Receive, Forward, End, Read, publish
<1>2. \A r \in Subs : fwd[r] = "ended" => fwd'[r] = "ended"
  BY DEF IInv, TypeOK, Receive, Forward, End, Read
<1>3. QED
  BY <1>1, <1>2 DEF IInv, TypeOK, OffersRegistered, CancelInOrder, Reading

LEMMA InvStep == IInv /\ [Next]_vars => IInv'
<1> SUFFICES ASSUME IInv, [Next]_vars PROVE IInv'
  OBVIOUS
<1>1. TypeOK'
  BY TypeStep DEF IInv
<1>2. ASSUME NEW p \in Publishers, Publish(p) \/ Published(p) \/ \E s \in Subs : Offer(p, s)
      PROVE  IInv'
  BY <1>1, <1>2, InvPublish DEF IInv
<1>3. ASSUME NEW s \in Subs,
             Subscribe(s) \/ Register(s) \/ Cancel(s) \/ Unregister(s) \/ Close(s) \/ CloseOut(s)
      PROVE  IInv'
  BY <1>1, <1>3, InvCancel DEF IInv
<1>4. ASSUME NEW s \in Subs, Receive(s) \/ Forward(s) \/ End(s) \/ Read(s)
      PROVE  IInv'
  BY <1>1, <1>4, InvForward DEF IInv
<1>5. CASE UNCHANGED vars
  BY <1>1, <1>5 DEF vars, subscription, publish, IInv, OffersRegistered, CancelInOrder, Reading
<1>6. QED
  BY <1>2, <1>3, <1>4, <1>5 DEF Next

\* Broker and Hub never send on a closed channel, so no publish and no forward
\* panics, whenever clients subscribe and cancel.
THEOREM NoPanic == Spec => []NoSendOnClosed
<1>1. Init => IInv
  BY TypeInit, InvInit DEF IInv
<1>2. IInv => NoSendOnClosed
  <2> SUFFICES ASSUME IInv PROVE NoSendOnClosed
    OBVIOUS
  <2>1. registered \cap closed = {}
    BY DEF IInv, CancelInOrder
  <2>2. \A p \in Publishers : targets[p] \subseteq registered
    BY DEF IInv, OffersRegistered
  <2>3. \A s \in outClosed : fwd[s] = "ended"
    BY DEF IInv, CancelInOrder
  <2>4. QED
    BY <2>1, <2>2, <2>3 DEF NoSendOnClosed
<1>3. QED
  BY <1>1, <1>2, InvStep, PTL DEF Spec

-----------------------------------------------------------------------------
(* Sequences of pings *)

\* The pings of each publisher in the order it sent them.
Ordered(q) ==
  \A i, j \in DOMAIN q : i < j /\ q[i].from = q[j].from => q[i].seq < q[j].seq

\* A ping behind all those of its publisher keeps the order.
LEMMA OrderedAppend ==
  ASSUME NEW q \in Seq(Ping), NEW x \in Ping, Ordered(q),
         \A y \in ToSet(q) : y.from = x.from => y.seq < x.seq
  PROVE  q \o <<x>> \in Seq(Ping) /\ Ordered(q \o <<x>>) /\ ToSet(q \o <<x>>) = ToSet(q) \cup {x}
<1> DEFINE r == q \o <<x>>
<1>1. r \in Seq(Ping) /\ Len(r) = Len(q) + 1 /\ Len(q) \in Nat
  OBVIOUS
<1>2. r[Len(q) + 1] = x /\ \A i \in 1 .. Len(q) : r[i] = q[i]
  OBVIOUS
<1>3. DOMAIN q = 1 .. Len(q) /\ DOMAIN r = 1 .. Len(q) + 1
  BY <1>1
<1> HIDE DEF r
<1>4. Ordered(r)
  <2> SUFFICES ASSUME NEW i \in DOMAIN r, NEW j \in DOMAIN r, i < j, r[i].from = r[j].from
               PROVE  r[i].seq < r[j].seq
    BY DEF Ordered
  <2>1. i \in 1 .. Len(q)
    BY <1>1, <1>3
  <2>2. CASE j \in 1 .. Len(q)
    BY <1>2, <1>3, <2>1, <2>2 DEF Ordered
  <2>3. CASE j = Len(q) + 1
    <3>1. r[i] = q[i] /\ q[i] \in ToSet(q) /\ r[j] = x
      BY <1>2, <1>3, <2>1, <2>3 DEF ToSet
    <3>2. QED
      BY <3>1
  <2>4. QED
    BY <1>1, <1>3, <2>2, <2>3
<1>5. ToSet(r) = ToSet(q) \cup {x}
  <2>1. ToSet(r) \subseteq ToSet(q) \cup {x}
    BY <1>1, <1>2, <1>3 DEF ToSet
  <2>2. ToSet(q) \subseteq ToSet(r)
    BY <1>1, <1>2, <1>3 DEF ToSet
  <2>3. x \in ToSet(r)
    BY <1>1, <1>2, <1>3 DEF ToSet
  <2>4. QED
    BY <2>1, <2>2, <2>3
<1>6. QED
  BY <1>1, <1>4, <1>5 DEF r

\* So does one that is taken out.
LEMMA OrderedWithout ==
  ASSUME NEW a \in Seq(Ping), NEW x \in Ping, NEW b \in Seq(Ping), Ordered((a \o <<x>>) \o b)
  PROVE  /\ a \o b \in Seq(Ping) /\ Ordered(a \o b)
         /\ ToSet((a \o <<x>>) \o b) = ToSet(a \o b) \cup {x}
<1> DEFINE ax    == a \o <<x>>
           whole == ax \o b
           rest  == a \o b
           at(i) == IF i <= Len(a) THEN i ELSE i + 1
<1>1. /\ Len(a) \in Nat /\ Len(b) \in Nat
      /\ ax \in Seq(Ping) /\ Len(ax) = Len(a) + 1
      /\ ax[Len(a) + 1] = x /\ \A i \in 1 .. Len(a) : ax[i] = a[i]
  OBVIOUS
<1>2. /\ rest \in Seq(Ping) /\ DOMAIN rest = 1 .. Len(a) + Len(b)
      /\ \A i \in 1 .. Len(a) + Len(b) : rest[i] = IF i <= Len(a) THEN a[i] ELSE b[i - Len(a)]
  OBVIOUS
<1> HIDE DEF ax
<1>3. /\ DOMAIN whole = 1 .. Len(a) + 1 + Len(b)
      /\ \A i \in 1 .. Len(a) + 1 + Len(b) :
            whole[i] = IF i <= Len(a) + 1 THEN ax[i] ELSE b[i - (Len(a) + 1)]
  BY <1>1
<1> HIDE DEF whole, rest
<1>4. \A i \in DOMAIN rest : at(i) \in DOMAIN whole /\ whole[at(i)] = rest[i]
  <2> SUFFICES ASSUME NEW i \in DOMAIN rest PROVE at(i) \in DOMAIN whole /\ whole[at(i)] = rest[i]
    OBVIOUS
  <2>1. CASE i <= Len(a)
    <3>1. i \in 1 .. Len(a) /\ at(i) = i
      BY <1>1, <1>2, <2>1
    <3>2. QED
      BY <1>1, <1>2, <1>3, <3>1
  <2>2. CASE ~(i <= Len(a))
    <3>1. at(i) = i + 1 /\ i + 1 \in 1 .. Len(a) + 1 + Len(b) /\ ~(i + 1 <= Len(a) + 1)
          /\ i + 1 - (Len(a) + 1) = i - Len(a)
      BY <1>1, <1>2, <2>2
    <3>2. QED
      BY <1>1, <1>2, <1>3, <2>2, <3>1
  <2>3. QED
    BY <2>1, <2>2
<1>5. Len(a) + 1 \in DOMAIN whole /\ whole[Len(a) + 1] = x
  BY <1>1, <1>3
<1>6. \A j \in DOMAIN whole : j = Len(a) + 1 \/ \E i \in DOMAIN rest : at(i) = j
  <2> SUFFICES ASSUME NEW j \in DOMAIN whole, j # Len(a) + 1 PROVE \E i \in DOMAIN rest : at(i) = j
    OBVIOUS
  <2>1. CASE j <= Len(a)
    <3>1. j \in DOMAIN rest /\ at(j) = j
      BY <1>1, <1>2, <1>3, <2>1
    <3>2. QED
      BY <3>1
  <2>2. CASE ~(j <= Len(a))
    <3>1. j - 1 \in DOMAIN rest /\ at(j - 1) = j
      BY <1>1, <1>2, <1>3, <2>2
    <3>2. QED
      BY <3>1
  <2>3. QED
    BY <2>1, <2>2
<1>7. \A i, j \in DOMAIN rest : i < j => at(i) < at(j)
  BY <1>1, <1>2
<1> HIDE DEF at
<1>8. Ordered(rest)
  <2> SUFFICES ASSUME NEW i \in DOMAIN rest, NEW j \in DOMAIN rest, i < j,
                      rest[i].from = rest[j].from
               PROVE  rest[i].seq < rest[j].seq
    BY DEF Ordered
  <2>1. at(i) \in DOMAIN whole /\ at(j) \in DOMAIN whole /\ at(i) < at(j)
    BY <1>4, <1>7
  <2>2. whole[at(i)] = rest[i] /\ whole[at(j)] = rest[j]
    BY <1>4
  <2>3. Ordered(whole)
    BY DEF whole, ax
  <2>4. QED
    BY <2>1, <2>2, <2>3 DEF Ordered
<1>9. ToSet(whole) = ToSet(rest) \cup {x}
  <2>1. ASSUME NEW y \in ToSet(whole) PROVE y \in ToSet(rest) \cup {x}
    <3>1. PICK j \in DOMAIN whole : y = whole[j]
      BY <2>1 DEF ToSet
    <3>2. CASE j = Len(a) + 1
      BY <1>5, <3>1, <3>2
    <3>3. ASSUME NEW i \in DOMAIN rest, at(i) = j PROVE y \in ToSet(rest)
      BY <1>4, <3>1, <3>3 DEF ToSet
    <3>4. QED
      BY <1>6, <3>2, <3>3
  <2>2. ASSUME NEW y \in ToSet(rest) PROVE y \in ToSet(whole)
    BY <1>4, <2>2 DEF ToSet
  <2>3. x \in ToSet(whole)
    BY <1>5 DEF ToSet
  <2>4. QED
    BY <2>1, <2>2, <2>3
<1>10. QED
  BY <1>2, <1>8, <1>9 DEF whole, rest, ax

-----------------------------------------------------------------------------
(* The feed.  What is in the pipes, on offer and dropped, apart from where *)
(* in its pipe a ping is.                                                  *)

Flows(pipe, pg, tg, ct, du, dr) ==
  /\ \A s \in Subs : Ordered(pipe[s]) /\ \A x \in ToSet(pipe[s]) : x.seq <= ct[x.from]
  /\ \A p \in Publishers : pg[p] # <<>> => pg[p][1].from = p /\ pg[p][1].seq = ct[p]
  /\ \A p \in Publishers : \A s \in tg[p] :
        pg[p] # <<>> /\ \A x \in ToSet(pipe[s]) : x.from = p => x.seq < ct[p]
  /\ \A s \in Subs : \A x : x \in du[s] <=>
        \/ x \in ToSet(pipe[s]) \/ x \in dr[s]
        \/ \E p \in Publishers : s \in tg[p] /\ pg[p] # <<>> /\ x = pg[p][1]

Pipes == [s \in Subs |-> Pipe(s)]

\* A forwarder holds a ping exactly between receiving and passing it on.
HoldsOne ==
  \A s \in Subs : /\ (fwd[s] # "holding" <=> held[s] = <<>>)
                  /\ (sub[s] \in {"none", "subscribing"} => fwd[s] = "none")

FeedInv == IInv /\ HoldsOne /\ Flows(Pipes, ping, targets, count, due, dropped)

\* A step that moves pings within their pipes, or none.
LEMMA FlowsKept ==
  ASSUME FeedInv, HoldsOne', Pipes' = Pipes, UNCHANGED <<ping, targets, count, due, dropped>>
  PROVE  HoldsOne' /\ Flows(Pipes, ping, targets, count, due, dropped)'
<1>1. Flows(Pipes, ping, targets, count, due, dropped)
  BY DEF FeedInv
<1>2. Flows(Pipes', ping', targets', count', due', dropped')
  BY <1>1
<1>3. QED
  BY <1>2

LEMMA PipeType ==
  ASSUME TypeOK, NEW s \in Subs
  PROVE  /\ received[s] \in Seq(Ping) /\ out[s] \in Seq(Ping)
         /\ held[s] \in Seq(Ping) /\ ch[s] \in Seq(Ping) /\ Pipe(s) \in Seq(Ping)
<1>1. /\ received[s] \in Seq(Ping) /\ out[s] \in Seq(Ping)
      /\ held[s] \in Seq(Ping) /\ ch[s] \in Seq(Ping)
  BY DEF TypeOK
<1>2. received[s] \o out[s] \in Seq(Ping)
  BY <1>1
<1>3. (received[s] \o out[s]) \o held[s] \in Seq(Ping)
  BY <1>1, <1>2
<1>4. QED
  BY <1>1, <1>3 DEF Pipe

\* A sequence of at most one ping.
LEMMA OneOrNone ==
  ASSUME NEW q \in Seq(Ping), Len(q) <= 1, q # <<>>
  PROVE  q = <<q[1]>> /\ q[1] \in Ping /\ ToSet(q) = {q[1]}
<1>1. Len(q) = 1
  <2>1. Len(q) \in Nat /\ Len(q) # 0
    BY EmptySeq
  <2>2. \A n \in Nat : n <= 1 /\ n # 0 => n = 1
    OBVIOUS
  <2>3. QED
    BY <2>1, <2>2
<1>2. q = <<q[1]>> /\ q[1] \in Ping
  BY <1>1
<1>3. DOMAIN q = {1}
  BY <1>1
<1>4. QED
  BY <1>2, <1>3 DEF ToSet

\* Publishing puts a ping on offer that is newer than all of its publisher.
LEMMA FeedPublish ==
  ASSUME FeedInv, NEW p \in Publishers, Publish(p)
  PROVE  HoldsOne' /\ Flows(Pipes, ping, targets, count, due, dropped)'
<1> DEFINE new == [from |-> p, seq |-> count[p] + 1, vehicle |-> VehicleOf[p]]
           to  == {s \in registered : Matches(s, VehicleOf[p])}
<1>1. /\ ping[p] = <<>> /\ count' = [count EXCEPT ![p] = count[p] + 1]
      /\ ping' = [ping EXCEPT ![p] = <<new>>]
      /\ targets' = [targets EXCEPT ![p] = to]
      /\ due' = [s \in Subs |-> IF s \in to THEN due[s] \cup {new} ELSE due[s]]
      /\ UNCHANGED <<sub, fwd, held, out, received, ch, dropped>>
  BY DEF Publish, subscription
<1>2. TypeOK /\ targets[p] = {} /\ to \subseteq Subs /\ count[p] \in Nat
  BY <1>1 DEF FeedInv, IInv, OffersRegistered, Reading, TypeOK
<1>3. HoldsOne' /\ Pipes' = Pipes
  BY <1>1 DEF FeedInv, HoldsOne, Pipes, Pipe
<1>4. Flows(Pipes, ping, targets, count, due, dropped)
  BY DEF FeedInv
<1>5. /\ ping'[p] = <<new>> /\ ping'[p][1] = new /\ ping'[p] # <<>> /\ targets'[p] = to
      /\ count'[p] = count[p] + 1 /\ new.from = p /\ new.seq = count[p] + 1
      /\ \A q \in Publishers \ {p} : ping'[q] = ping[q] /\ targets'[q] = targets[q]
                                     /\ count'[q] = count[q]
  BY <1>1, <1>2 DEF TypeOK
<1>6. \A s \in Subs : \A x \in ToSet(Pipes[s]) :
         x.from \in Publishers /\ x.seq \in Nat /\ x.seq <= count[x.from]
  <2>1. \A s \in Subs : Pipes[s] \in Seq(Ping)
    BY <1>2, PipeType DEF Pipes
  <2>2. \A s \in Subs : \A x \in ToSet(Pipes[s]) : x \in Ping
    BY <2>1 DEF ToSet
  <2>3. QED
    BY <1>4, <2>2 DEF Flows, Ping
<1> HIDE DEF new, to
<1>7. \A s \in Subs : Ordered(Pipes[s]) /\ \A x \in ToSet(Pipes[s]) : x.seq <= count'[x.from]
  <2>1. \A q \in Publishers : count[q] \in Nat /\ count[q] <= count'[q] /\ count'[q] \in Nat
    <3>1. \A q \in Publishers : count[q] \in Nat
      BY <1>2 DEF TypeOK
    <3>2. count[p] <= count[p] + 1 /\ count[p] + 1 \in Nat
      BY <1>2
    <3>3. \A q \in Publishers : q = p \/ count'[q] = count[q]
      BY <1>5
    <3>4. QED
      BY <1>5, <3>1, <3>2, <3>3
  <2>2. QED
    BY <1>4, <1>6, <2>1 DEF Flows
<1>8. \A q \in Publishers : ping'[q] # <<>> => ping'[q][1].from = q /\ ping'[q][1].seq = count'[q]
  BY <1>4, <1>5 DEF Flows
<1>9. \A q \in Publishers : \A s \in targets'[q] :
         ping'[q] # <<>> /\ \A x \in ToSet(Pipes[s]) : x.from = q => x.seq < count'[q]
  <2>1. \A s \in to : \A x \in ToSet(Pipes[s]) : x.from = p => x.seq < count[p] + 1
    BY <1>2, <1>6
  <2>2. QED
    BY <1>4, <1>5, <2>1 DEF Flows
<1>10. ASSUME NEW s \in Subs, NEW x
       PROVE  x \in due'[s] <=>
                \/ x \in ToSet(Pipes[s]) \/ x \in dropped[s]
                \/ \E q \in Publishers : s \in targets'[q] /\ ping'[q] # <<>> /\ x = ping'[q][1]
  <2>1. x \in due[s] <=>
           \/ x \in ToSet(Pipes[s]) \/ x \in dropped[s]
           \/ \E q \in Publishers : s \in targets[q] /\ ping[q] # <<>> /\ x = ping[q][1]
    BY <1>4 DEF Flows
  <2>2. (\E q \in Publishers : s \in targets'[q] /\ ping'[q] # <<>> /\ x = ping'[q][1])
          <=> (s \in to /\ x = new)
              \/ \E q \in Publishers : s \in targets[q] /\ ping[q] # <<>> /\ x = ping[q][1]
    BY <1>2, <1>5
  <2>3. x \in due'[s] <=> x \in due[s] \/ (s \in to /\ x = new)
    BY <1>1
  <2>4. QED
    BY <2>1, <2>2, <2>3
<1>11. QED
  BY <1>1, <1>3, <1>7, <1>8, <1>9, <1>10 DEF Flows

\* The ping goes to the end of a pipe, or is dropped.
LEMMA FeedOffer ==
  ASSUME FeedInv, NEW p \in Publishers, NEW s \in Subs, Offer(p, s)
  PROVE  HoldsOne' /\ Flows(Pipes, ping, targets, count, due, dropped)'
<1> DEFINE x == ping[p][1]
<1>1. TypeOK /\ Flows(Pipes, ping, targets, count, due, dropped)
  BY DEF FeedInv, IInv
<1>2. /\ s \in targets[p] /\ UNCHANGED <<sub, fwd, held, out, received, ping, count, due>>
      /\ targets' = [targets EXCEPT ![p] = targets[p] \ {s}]
  BY DEF Offer
<1>3. HoldsOne'
  BY <1>2 DEF FeedInv, HoldsOne
<1>4. ping[p] # <<>> /\ ping[p] = <<x>> /\ x \in Ping /\ ToSet(ping[p]) = {x}
  BY <1>1, <1>2, OneOrNone DEF TypeOK, Flows
<1>5. x.from = p /\ x.seq = count[p]
  BY <1>1, <1>4 DEF Flows
<1> HIDE DEF x
<1>6. /\ \A r \in Subs : Pipes[r] \in Seq(Ping) /\ Pipes[r] = Pipe(r)
      /\ \A y \in ToSet(Pipes[s]) : y.from = x.from => y.seq < x.seq
  BY <1>1, <1>2, <1>5, PipeType DEF Pipes, Flows
<1>7. /\ \A q \in Publishers \ {p} : targets'[q] = targets[q]
      /\ targets'[p] = targets[p] \ {s} /\ targets[p] \subseteq Subs
  BY <1>1, <1>2 DEF TypeOK
<1>8. /\ \A r \in Subs : Pipes'[r] \in Seq(Ping) /\ Ordered(Pipes'[r])
      /\ \A r \in Subs \ {s} : Pipes'[r] = Pipes[r] /\ dropped'[r] = dropped[r]
      /\ \/ ToSet(Pipes'[s]) = ToSet(Pipes[s]) \cup {x} /\ dropped' = dropped
         \/ Pipes'[s] = Pipes[s] /\ dropped'[s] = dropped[s] \cup {x}
  <2>1. CASE Len(ch[s]) < BrokerCap
    <3>1. ch' = [ch EXCEPT ![s] = ch[s] \o <<x>>] /\ dropped' = dropped
      BY <1>4, <2>1 DEF Offer
    <3>2. Pipe(s)' = Pipe(s) \o <<x>>
      <4>1. /\ (received[s] \o out[s]) \o held[s] \in Seq(Ping) /\ ch[s] \in Seq(Ping)
            /\ <<x>> \in Seq(Ping)
        BY <1>1, <1>4, PipeType
      <4>2. Pipe(s)' = ((received[s] \o out[s]) \o held[s]) \o (ch[s] \o <<x>>)
        BY <1>1, <1>2, <3>1 DEF Pipe, TypeOK
      <4>3. \A u, v, w \in Seq(Ping) : u \o (v \o w) = (u \o v) \o w
        BY ConcatAssociative
      <4>4. QED
        BY <4>1, <4>2, <4>3 DEF Pipe
    <3>3. \A r \in Subs \ {s} : Pipe(r)' = Pipe(r)
      BY <1>1, <1>2, <3>1 DEF Pipe, TypeOK
    <3>4. Pipes'[s] = Pipes[s] \o <<x>> /\ \A r \in Subs \ {s} : Pipes'[r] = Pipes[r]
      BY <3>2, <3>3 DEF Pipes
    <3>5. Ordered(Pipes[s])
      BY <1>1 DEF Flows
    <3>6. Pipes'[s] \in Seq(Ping) /\ Ordered(Pipes'[s]) /\ ToSet(Pipes'[s]) = ToSet(Pipes[s]) \cup {x}
      BY <1>4, <1>6, <3>4, <3>5, OrderedAppend
    <3>7. QED
      BY <1>1, <1>6, <3>1, <3>4, <3>6 DEF Flows
  <2>2. CASE ~(Len(ch[s]) < BrokerCap)
    <3>1. ch' = ch /\ dropped' = [dropped EXCEPT ![s] = dropped[s] \cup {x}]
      BY <1>4, <2>2 DEF Offer
    <3>2. Pipes' = Pipes
      BY <1>2, <3>1 DEF Pipes, Pipe
    <3>3. QED
      BY <1>1, <1>6, <3>1, <3>2 DEF Flows, TypeOK
  <2>3. QED
    BY <2>1, <2>2
<1>9. \A r \in Subs : \A y \in ToSet(Pipes'[r]) : y.seq <= count[y.from]
  <2>1. x.seq <= count[x.from]
    BY <1>1, <1>5 DEF TypeOK
  <2>2. QED
    BY <1>1, <1>8, <2>1 DEF Flows
<1>10. \A q \in Publishers : \A r \in targets'[q] :
          ping[q] # <<>> /\ \A y \in ToSet(Pipes'[r]) : y.from = q => y.seq < count[q]
  <2>1. \A q \in Publishers : \A r \in targets'[q] : r \in targets[q] /\ (q = p => r # s)
    BY <1>7
  <2>2. \A q \in Publishers : \A r \in targets'[q] : r \in Subs
    BY <1>1, <2>1 DEF TypeOK
  <2>3. \A q \in Publishers : \A r \in targets'[q] : \A y \in ToSet(Pipes'[r]) :
           y \in ToSet(Pipes[r]) \/ (y.from = p /\ q # p)
    BY <1>5, <1>8, <2>1, <2>2
  <2>4. QED
    BY <1>1, <2>1, <2>3 DEF Flows
<1>11. ASSUME NEW r \in Subs, NEW y
       PROVE  y \in due[r] <=>
                \/ y \in ToSet(Pipes'[r]) \/ y \in dropped'[r]
                \/ \E q \in Publishers : r \in targets'[q] /\ ping[q] # <<>> /\ y = ping[q][1]
  <2>1. y \in due[r] <=>
           \/ y \in ToSet(Pipes[r]) \/ y \in dropped[r]
           \/ \E q \in Publishers : r \in targets[q] /\ ping[q] # <<>> /\ y = ping[q][1]
    BY <1>1 DEF Flows
  <2>2. CASE r # s
    BY <1>7, <1>8, <2>1, <2>2
  <2>3. CASE r = s
    <3>1. (\E q \in Publishers : r \in targets[q] /\ ping[q] # <<>> /\ y = ping[q][1])
            <=> y = x \/ \E q \in Publishers : r \in targets'[q] /\ ping[q] # <<>> /\ y = ping[q][1]
      BY <1>2, <1>4, <1>7, <2>3 DEF x
    <3>2. y \in ToSet(Pipes'[r]) \/ y \in dropped'[r]
            <=> y \in ToSet(Pipes[r]) \/ y \in dropped[r] \/ y = x
      BY <1>8, <2>3
    <3>3. QED
      BY <2>1, <3>1, <3>2
  <2>4. QED
    BY <2>2, <2>3
<1>12. \A q \in Publishers : ping[q] # <<>> => ping[q][1].from = q /\ ping[q][1].seq = count[q]
  BY <1>1 DEF Flows
<1>13. QED
  BY <1>2, <1>3, <1>8, <1>9, <1>10, <1>11, <1>12 DEF Flows

LEMMA FeedPublished ==
  ASSUME FeedInv, NEW p \in Publishers, Published(p)
  PROVE  HoldsOne' /\ Flows(Pipes, ping, targets, count, due, dropped)'
<1>1. /\ targets[p] = {} /\ ping' = [ping EXCEPT ![p] = <<>>]
      /\ UNCHANGED <<sub, fwd, held, out, received, ch, targets, count, due, dropped>>
  BY DEF Published, subscription
<1>2. HoldsOne' /\ Pipes' = Pipes
  BY <1>1 DEF FeedInv, HoldsOne, Pipes, Pipe
<1>3. Flows(Pipes, ping, targets, count, due, dropped)
  BY DEF FeedInv
<1>4. ping'[p] = <<>> /\ \A q \in Publishers \ {p} : ping'[q] = ping[q]
  BY <1>1 DEF FeedInv, IInv, TypeOK
<1>5. Flows(Pipes, ping', targets, count, due, dropped)
  BY <1>1, <1>3, <1>4 DEF Flows
<1>6. QED
  BY <1>1, <1>2, <1>5

LEMMA FeedCancel ==
  ASSUME FeedInv, NEW s \in Subs,
         Subscribe(s) \/ Register(s) \/ Cancel(s) \/ Unregister(s) \/ Close(s) \/ CloseOut(s)
  PROVE  HoldsOne' /\ Flows(Pipes, ping, targets, count, due, dropped)'
<1>1. UNCHANGED <<ch, held, out, received, ping, targets, count, due, dropped>>
  BY DEF Subscribe, Register, Cancel, Unregister, Close, CloseOut, publish
<1>2. Pipes' = Pipes
  BY <1>1 DEF Pipes, Pipe
<1>3. HoldsOne'
  BY <1>1 DEF FeedInv, IInv, TypeOK, HoldsOne, Subscribe, Register, Cancel, Unregister, Close,
              CloseOut, Move
<1>4. QED
  BY <1>1, <1>2, <1>3, FlowsKept

\* A forwarder and a client move the ping at the end of one part of a pipe to the
\* start of the next.
LEMMA FeedReceive ==
  ASSUME FeedInv, NEW s \in Subs, Receive(s)
  PROVE  HoldsOne' /\ Flows(Pipes, ping, targets, count, due, dropped)'
<1>1. /\ fwd[s] = "waiting" /\ ch[s] # <<>>
      /\ fwd' = [fwd EXCEPT ![s] = "holding"]
      /\ held' = [held EXCEPT ![s] = <<Head(ch[s])>>]
      /\ ch' = [ch EXCEPT ![s] = Tail(ch[s])]
      /\ UNCHANGED <<sub, out, received, ping, targets, count, due, dropped>>
  BY DEF Receive, publish
<1>2. TypeOK /\ held[s] = <<>>
  BY <1>1 DEF FeedInv, IInv, HoldsOne
<1>3. held'[s] = <<Head(ch[s])>> /\ ch'[s] = Tail(ch[s]) /\ fwd'[s] = "holding"
      /\ \A r \in Subs \ {s} : held'[r] = held[r] /\ ch'[r] = ch[r] /\ fwd'[r] = fwd[r]
  BY <1>1, <1>2 DEF TypeOK
<1>4. HoldsOne'
  <2>1. <<Head(ch[s])>> # <<>>
    OBVIOUS
  <2>2. sub[s] \notin {"none", "subscribing"}
    BY <1>1 DEF FeedInv, HoldsOne
  <2>3. QED
    BY <1>1, <1>3, <2>1, <2>2 DEF FeedInv, HoldsOne
<1>5. Pipe(s)' = Pipe(s)
  <2> DEFINE front == received[s] \o out[s]
  <2>1. /\ front \in Seq(Ping) /\ ch[s] \in Seq(Ping) /\ Head(ch[s]) \in Ping
        /\ Tail(ch[s]) \in Seq(Ping) /\ <<Head(ch[s])>> \in Seq(Ping)
    BY <1>1, <1>2, PipeType
  <2>2. <<Head(ch[s])>> \o Tail(ch[s]) = ch[s]
    BY <1>1, <2>1
  <2>3. Pipe(s)' = (front \o <<Head(ch[s])>>) \o Tail(ch[s])
    BY <1>1, <1>3 DEF Pipe
  <2>4. Pipe(s) = (front \o <<>>) \o ch[s]
    BY <1>2 DEF Pipe
  <2> HIDE DEF front
  <2>5. \A u, v, w \in Seq(Ping) : u \o (v \o w) = (u \o v) \o w
    BY ConcatAssociative
  <2>6. front \o <<>> = front
    BY <2>1
  <2>7. front \o (<<Head(ch[s])>> \o Tail(ch[s])) = (front \o <<Head(ch[s])>>) \o Tail(ch[s])
    BY <2>1, <2>5
  <2>8. Pipe(s)' = front \o ch[s] /\ Pipe(s) = front \o ch[s]
    BY <2>2, <2>3, <2>4, <2>6, <2>7
  <2>9. QED
    BY <2>8
<1>6. Pipes' = Pipes
  <2>1. \A r \in Subs \ {s} : Pipe(r)' = Pipe(r)
    BY <1>1, <1>3 DEF Pipe
  <2>2. QED
    BY <1>5, <2>1 DEF Pipes
<1>7. QED
  BY <1>1, <1>4, <1>6, FlowsKept

LEMMA FeedRead ==
  ASSUME FeedInv, NEW s \in Subs, Read(s)
  PROVE  HoldsOne' /\ Flows(Pipes, ping, targets, count, due, dropped)'
<1>1. /\ out[s] # <<>>
      /\ received' = [received EXCEPT ![s] = Append(received[s], Head(out[s]))]
      /\ out' = [out EXCEPT ![s] = Tail(out[s])]
      /\ UNCHANGED <<sub, fwd, held, ch, ping, targets, count, due, dropped>>
  BY DEF Read, publish
<1>2. TypeOK
  BY DEF FeedInv, IInv
<1>3. HoldsOne'
  BY <1>1 DEF FeedInv, HoldsOne
<1>4. received'[s] = Append(received[s], Head(out[s])) /\ out'[s] = Tail(out[s])
      /\ \A r \in Subs \ {s} : received'[r] = received[r] /\ out'[r] = out[r]
  BY <1>1, <1>2 DEF TypeOK
<1>5. received'[s] \o out'[s] = received[s] \o out[s]
  <2>1. /\ received[s] \in Seq(Ping) /\ out[s] \in Seq(Ping) /\ Head(out[s]) \in Ping
        /\ Tail(out[s]) \in Seq(Ping) /\ <<Head(out[s])>> \in Seq(Ping)
    BY <1>1, <1>2, PipeType
  <2>2. <<Head(out[s])>> \o Tail(out[s]) = out[s]
    BY <1>1, <2>1
  <2>3. Append(received[s], Head(out[s])) = received[s] \o <<Head(out[s])>>
    BY <2>1, AppendIsConcat
  <2>4. \A u, v, w \in Seq(Ping) : u \o (v \o w) = (u \o v) \o w
    BY ConcatAssociative
  <2>5. received[s] \o (<<Head(out[s])>> \o Tail(out[s]))
          = (received[s] \o <<Head(out[s])>>) \o Tail(out[s])
    BY <2>1, <2>4
  <2>6. received'[s] \o out'[s] = (received[s] \o <<Head(out[s])>>) \o Tail(out[s])
    BY <1>4, <2>3
  <2>7. received'[s] \o out'[s] = received[s] \o (<<Head(out[s])>> \o Tail(out[s]))
    BY <2>5, <2>6
  <2>8. QED
    BY <2>2, <2>7
<1>6. Pipes' = Pipes
  <2>1. \A r \in Subs \ {s} : Pipe(r)' = Pipe(r)
    BY <1>1, <1>4 DEF Pipe
  <2>2. Pipe(s)' = Pipe(s)
    BY <1>1, <1>5 DEF Pipe
  <2>3. QED
    BY <2>1, <2>2 DEF Pipes
<1>7. QED
  BY <1>1, <1>3, <1>6, FlowsKept

\* A ping the client's channel has no room for is dropped out of the pipe.
LEMMA FeedForward ==
  ASSUME FeedInv, NEW s \in Subs, Forward(s)
  PROVE  HoldsOne' /\ Flows(Pipes, ping, targets, count, due, dropped)'
<1> DEFINE x == held[s][1]
           front == received[s] \o out[s]
<1>1. /\ fwd[s] = "holding" /\ fwd' = [fwd EXCEPT ![s] = "waiting"]
      /\ held' = [held EXCEPT ![s] = <<>>]
      /\ UNCHANGED <<sub, ch, received, ping, targets, count, due>>
  BY DEF Forward, publish
<1>2. TypeOK /\ held[s] # <<>>
  BY <1>1 DEF FeedInv, IInv, HoldsOne
<1>3. held'[s] = <<>> /\ fwd'[s] = "waiting"
      /\ \A r \in Subs \ {s} : held'[r] = held[r] /\ fwd'[r] = fwd[r]
  BY <1>1, <1>2 DEF TypeOK
<1>4. HoldsOne'
  <2>1. sub[s] \notin {"none", "subscribing"}
    BY <1>1 DEF FeedInv, HoldsOne
  <2>2. QED
    BY <1>1, <1>3, <2>1 DEF FeedInv, HoldsOne
<1>5. held[s] = <<x>> /\ x \in Ping /\ ToSet(held[s]) = {x}
  <2>1. held[s] \in Seq(Ping) /\ Len(held[s]) <= 1
    BY <1>2 DEF TypeOK
  <2>2. QED
    BY <1>2, <2>1, OneOrNone
<1> HIDE DEF x
<1>6. /\ front \in Seq(Ping) /\ ch[s] \in Seq(Ping) /\ <<x>> \in Seq(Ping)
      /\ received[s] \in Seq(Ping) /\ out[s] \in Seq(Ping)
  BY <1>2, <1>5, PipeType
<1>7. Pipe(s) = (front \o <<x>>) \o ch[s]
  BY <1>5 DEF Pipe
<1>8. CASE Len(out[s]) < HubCap
  <2>1. out' = [out EXCEPT ![s] = out[s] \o <<x>>] /\ dropped' = dropped
    BY <1>5, <1>8 DEF Forward
  <2>2. out'[s] = out[s] \o <<x>> /\ \A r \in Subs \ {s} : out'[r] = out[r]
    BY <1>2, <2>1 DEF TypeOK
  <2>3. \A u, v, w \in Seq(Ping) : u \o (v \o w) = (u \o v) \o w
    BY ConcatAssociative
  <2>4. received[s] \o (out[s] \o <<x>>) = front \o <<x>>
    BY <1>6, <2>3
  <2>5. front \o <<x>> \in Seq(Ping)
    BY <1>6
  <2>6. (front \o <<x>>) \o <<>> = front \o <<x>>
    BY <2>5, ConcatEmptySeq
  <2>7. Pipe(s)' = ((received[s] \o (out[s] \o <<x>>)) \o <<>>) \o ch[s]
    BY <1>1, <1>3, <2>2 DEF Pipe
  <2>8. Pipe(s)' = Pipe(s)
    BY <1>7, <2>4, <2>6, <2>7
  <2>9. \A r \in Subs \ {s} : Pipe(r)' = Pipe(r)
    BY <1>1, <1>3, <2>2 DEF Pipe
  <2>10. Pipes' = Pipes
    BY <2>8, <2>9 DEF Pipes
  <2>11. QED
    BY <1>1, <1>4, <2>1, <2>10, FlowsKept
<1>9. CASE ~(Len(out[s]) < HubCap)
  <2>1. out' = out /\ dropped' = [dropped EXCEPT ![s] = dropped[s] \cup {x}]
    BY <1>5, <1>9 DEF Forward
  <2>2. Flows(Pipes, ping, targets, count, due, dropped)
    BY DEF FeedInv
  <2>3. Pipe(s)' = front \o ch[s]
    <3>1. Pipe(s)' = (front \o <<>>) \o ch[s]
      BY <1>1, <1>3, <2>1 DEF Pipe
    <3>2. front \o <<>> = front
      BY <1>6, ConcatEmptySeq
    <3>3. QED
      BY <3>1, <3>2
  <2>4. \A r \in Subs \ {s} : Pipe(r)' = Pipe(r)
    BY <1>1, <1>3, <2>1 DEF Pipe
  <2>5. Pipes[s] = (front \o <<x>>) \o ch[s] /\ Pipes'[s] = front \o ch[s]
        /\ \A r \in Subs \ {s} : Pipes'[r] = Pipes[r]
    BY <1>7, <2>3, <2>4 DEF Pipes
  <2>6. Ordered(Pipes[s])
    BY <2>2 DEF Flows
  <2> HIDE DEF front
  <2>7. Ordered(Pipes'[s]) /\ ToSet(Pipes[s]) = ToSet(Pipes'[s]) \cup {x}
    BY <1>5, <1>6, <2>5, <2>6, OrderedWithout
  <2>8. dropped'[s] = dropped[s] \cup {x} /\ \A r \in Subs \ {s} : dropped'[r] = dropped[r]
    BY <1>2, <2>1 DEF TypeOK
  <2>9. /\ \A r \in Subs : Ordered(Pipes'[r]) /\ ToSet(Pipes'[r]) \subseteq ToSet(Pipes[r])
        /\ \A r \in Subs : \A y : y \in ToSet(Pipes'[r]) \/ y \in dropped'[r]
                              <=> y \in ToSet(Pipes[r]) \/ y \in dropped[r]
    BY <2>2, <2>5, <2>7, <2>8 DEF Flows
  <2>10. targets \in [Publishers -> SUBSET Subs]
    BY <1>2 DEF TypeOK
  <2>11. Flows(Pipes', ping, targets, count, due, dropped')
    <3>1. \A r \in Subs : Ordered(Pipes'[r]) /\ \A y \in ToSet(Pipes'[r]) : y.seq <= count[y.from]
      BY <2>2, <2>9 DEF Flows
    <3>2. \A p \in Publishers : ping[p] # <<>> => ping[p][1].from = p /\ ping[p][1].seq = count[p]
      BY <2>2 DEF Flows
    <3>3. \A p \in Publishers : \A r \in targets[p] :
             ping[p] # <<>> /\ \A y \in ToSet(Pipes'[r]) : y.from = p => y.seq < count[p]
      BY <2>2, <2>9, <2>10 DEF Flows
    <3>4. ASSUME NEW r \in Subs, NEW y
          PROVE  y \in due[r] <=>
                   \/ y \in ToSet(Pipes'[r]) \/ y \in dropped'[r]
                   \/ \E p \in Publishers : r \in targets[p] /\ ping[p] # <<>> /\ y = ping[p][1]
      <4>1. y \in due[r] <=>
              \/ y \in ToSet(Pipes[r]) \/ y \in dropped[r]
              \/ \E p \in Publishers : r \in targets[p] /\ ping[p] # <<>> /\ y = ping[p][1]
        BY <2>2 DEF Flows
      <4>2. QED
        BY <2>9, <4>1
    <3>5. QED
      BY <3>1, <3>2, <3>3, <3>4 DEF Flows
  <2>12. QED
    BY <1>1, <1>4, <2>11
<1>10. QED
  BY <1>8, <1>9

LEMMA FeedEnd ==
  ASSUME FeedInv, NEW s \in Subs, End(s)
  PROVE  HoldsOne' /\ Flows(Pipes, ping, targets, count, due, dropped)'
<1>1. /\ fwd[s] = "waiting" /\ fwd' = [fwd EXCEPT ![s] = "ended"]
      /\ UNCHANGED <<sub, ch, held, out, received, ping, targets, count, due, dropped>>
  BY DEF End, publish
<1>2. Pipes' = Pipes
  BY <1>1 DEF Pipes, Pipe
<1>3. HoldsOne'
  BY <1>1 DEF FeedInv, IInv, TypeOK, HoldsOne
<1>4. QED
  BY <1>1, <1>2, <1>3, FlowsKept

LEMMA FeedStep == FeedInv /\ [Next]_vars => FeedInv'
<1> SUFFICES ASSUME FeedInv, [Next]_vars PROVE FeedInv'
  OBVIOUS
<1>1. IInv'
  BY InvStep DEF FeedInv
<1> DEFINE Goal == HoldsOne' /\ Flows(Pipes, ping, targets, count, due, dropped)'
<1>2. ASSUME NEW p \in Publishers, Publish(p) \/ Published(p) \/ \E s \in Subs : Offer(p, s)
      PROVE  Goal
  BY <1>2, FeedPublish, FeedPublished, FeedOffer
<1>3. ASSUME NEW s \in Subs,
             Subscribe(s) \/ Register(s) \/ Cancel(s) \/ Unregister(s) \/ Close(s) \/ CloseOut(s)
      PROVE  Goal
  BY <1>3, FeedCancel
<1>4. ASSUME NEW s \in Subs, Receive(s) \/ Forward(s) \/ End(s) \/ Read(s)
      PROVE  Goal
  BY <1>4, FeedReceive, FeedForward, FeedEnd, FeedRead
<1>5. ASSUME UNCHANGED vars PROVE Goal
  <2>1. UNCHANGED <<sub, fwd, ch, held, out, received, ping, targets, count, due, dropped>>
    BY <1>5 DEF vars, subscription, publish
  <2>2. Pipes' = Pipes
    BY <2>1 DEF Pipes, Pipe
  <2>3. HoldsOne'
    BY <2>1 DEF FeedInv, HoldsOne
  <2>4. QED
    BY <2>1, <2>2, <2>3, FlowsKept
<1>6. Goal
  BY <1>2, <1>3, <1>4, <1>5 DEF Next
<1>7. QED
  BY <1>1, <1>6 DEF FeedInv

LEMMA FeedInit == Init => FeedInv
<1> SUFFICES ASSUME Init PROVE FeedInv
  OBVIOUS
<1>1. IInv
  BY TypeInit, InvInit DEF IInv
<1>2. HoldsOne
  BY DEF Init, HoldsOne
<1>3. \A s \in Subs : Pipes[s] = <<>>
  <2>1. \A s \in Subs : received[s] = <<>> /\ out[s] = <<>> /\ held[s] = <<>> /\ ch[s] = <<>>
    BY DEF Init
  <2>2. (<<>> \o <<>>) = <<>>
    OBVIOUS
  <2>3. QED
    BY <2>1, <2>2 DEF Pipes, Pipe
<1>4. DOMAIN <<>> = {} /\ ToSet(<<>>) = {}
  BY DEF ToSet
<1>5. /\ \A p \in Publishers : ping[p] = <<>> /\ targets[p] = {}
      /\ \A s \in Subs : due[s] = {} /\ dropped[s] = {}
  BY DEF Init
<1>6. Flows(Pipes, ping, targets, count, due, dropped)
  BY <1>3, <1>4, <1>5 DEF Flows, Ordered
<1>7. QED
  BY <1>1, <1>2, <1>6 DEF FeedInv

\* Whoever publishes and cancels when, every client's pings are in the order of their
\* publishers and without repetition, and a ping that was published while it was
\* registered is missing only if a channel was full.
THEOREM Faithful == Spec => []FeedIsFaithful
<1>1. FeedInv => FeedIsFaithful
  <2> SUFFICES ASSUME FeedInv PROVE FeedIsFaithful
    OBVIOUS
  <2>1. TypeOK /\ Flows(Pipes, ping, targets, count, due, dropped)
    BY DEF FeedInv, IInv
  <2>2. \A s \in Subs : Pipes[s] = Pipe(s)
    BY DEF Pipes
  <2>3. InOrder
    BY <2>1, <2>2 DEF Flows, Ordered, InOrder
  <2>4. ASSUME NEW p \in Publishers, ping[p] # <<>> PROVE ToSet(ping[p]) = {ping[p][1]}
    <3>1. ping[p] \in Seq(Ping) /\ Len(ping[p]) <= 1
      BY <2>1 DEF TypeOK
    <3>2. QED
      BY <2>4, <3>1, OneOrNone
  <2>5. NothingElseIsLost
    <3> SUFFICES ASSUME NEW s \in Subs
                 PROVE  due[s] = ToSet(Pipe(s)) \cup dropped[s] \cup
                          UNION {ToSet(ping[p]) : p \in {q \in Publishers : s \in targets[q]}}
      BY DEF NothingElseIsLost
    <3> DEFINE offered == UNION {ToSet(ping[p]) : p \in {q \in Publishers : s \in targets[q]}}
    <3>1. \A p \in Publishers : s \in targets[p] => ping[p] # <<>>
      BY <2>1 DEF Flows
    <3>2. \A x : x \in offered <=> \E p \in Publishers : s \in targets[p] /\ x \in ToSet(ping[p])
      OBVIOUS
    <3> HIDE DEF offered
    <3>3. \A x : x \in offered <=>
            \E p \in Publishers : s \in targets[p] /\ ping[p] # <<>> /\ x = ping[p][1]
      BY <2>4, <3>1, <3>2
    <3>4. \A x : x \in due[s] <=> x \in ToSet(Pipe(s)) \/ x \in dropped[s] \/ x \in offered
      BY <2>1, <2>2, <3>3 DEF Flows
    <3>5. due[s] = ToSet(Pipe(s)) \cup dropped[s] \cup offered
      BY <3>4
    <3>6. QED
      BY <3>5 DEF offered
  <2>6. QED
    BY <2>3, <2>5 DEF FeedIsFaithful
<1>2. QED
  BY <1>1, FeedInit, FeedStep, PTL DEF Spec

=============================================================================
