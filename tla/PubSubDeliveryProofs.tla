-------------------------- MODULE PubSubDeliveryProofs --------------------------
(***************************************************************************)
(* A plain subscriber gets what is published on its node after it          *)
(* subscribed (SubscribedBeforeGets), and every observer gets the messages *)
(* of a node in the order of publication (PublishOrder), for all values of *)
(* the constants.                                                          *)
(***************************************************************************)
EXTENDS PubSubPromiseProofs

-----------------------------------------------------------------------------
(* What takes and what keeps elements of a sequence.                       *)

\* Taking the head of a queue leaves its other elements.
LEMMA ElementsTaken ==
    ASSUME NEW S, NEW q \in Seq(S), q # <<>>
    PROVE  Elements(q) \subseteq {Head(q)} \cup Elements(Tail(q))
<1>1. /\ Len(q) \in Nat \ {0} /\ DOMAIN q = 1..Len(q)
      /\ Head(q) = q[1]
      /\ DOMAIN Tail(q) = 1..(Len(q) - 1)
      /\ \A i \in 1..(Len(q) - 1) : Tail(q)[i] = q[i + 1]
  BY EmptySeq
<1>2. ASSUME NEW i \in DOMAIN q  PROVE q[i] = Head(q) \/ q[i] \in Elements(Tail(q))
  <2>1. CASE i = 1
    BY <1>1, <2>1
  <2>2. CASE i # 1
    <3>1. i - 1 \in 1..(Len(q) - 1) /\ (i - 1) + 1 = i
      BY <1>1, <2>2
    <3>2. Tail(q)[i - 1] = q[i]
      BY <1>1, <3>1
    <3>3. QED
      BY <1>1, <3>1, <3>2 DEF Elements
  <2>3. QED
    BY <2>1, <2>2
<1>3. QED
  BY <1>2 DEF Elements

\* Appending to a queue keeps what it held.
LEMMA ElementsKept ==
    ASSUME NEW S, NEW q \in Seq(S), NEW r \in Seq(S)
    PROVE  Elements(q) \subseteq Elements(q \o r)
<1>1. /\ Len(q) \in Nat /\ Len(r) \in Nat
      /\ DOMAIN q = 1..Len(q)
      /\ DOMAIN (q \o r) = 1..(Len(q) + Len(r))
      /\ \A i \in 1..Len(q) : (q \o r)[i] = q[i]
  OBVIOUS
<1>2. QED
  BY <1>1 DEF Elements

\* An index of a queue leads to an element of it.
LEMMA InElements ==
    /\ \A m, q : In(m, q) <=> m \in Elements(q)
    /\ \A n, m : InMailbox(n, m) <=>
            \E x \in Elements(mailbox[n]) : IsMsg(x) /\ x.msg = m
BY DEF In, InMailbox, Elements, IsMsg

-----------------------------------------------------------------------------
(* The request of a running observer is in the table, or in the mailbox    *)
(* ahead of every message it is owed.                                      *)

AheadAt(w, n, i) ==
    /\ mailbox[n][i].kind = "sub"
    /\ mailbox[n][i].entry = sub[w]
    /\ \A j \in 1..(i - 1) : IsMsg(mailbox[n][j]) => <<w, mailbox[n][j].msg>> \notin due

Requested(w) ==
    \/ sub[w] \in db[Home[w]]
    \/ \E i \in DOMAIN mailbox[Home[w]] : AheadAt(w, Home[w], i)

DueInv ==
    /\ \A w \in Writers, m \in Message : <<w, m>> \in due =>
            /\ observer[w] # "unspawned"
            /\ Broadcast(sub[w])
            /\ <<sub[w].pattern, m.topic>> \in Matches
            /\ m.id =< published
    /\ \A w \in Writers : observer[w] = "running" /\ Up(Home[w]) => Requested(w)

\* A mailbox that grows at its end, or not at all, keeps the request ahead.
LEMMA RequestedGrown ==
    ASSUME TypeInv, NEW w \in Writers, Requested(w), NEW env,
           LET n == Home[w] IN
               /\ mailbox'[n] = mailbox[n] \/ mailbox'[n] = Append(mailbox[n], env)
               /\ sub'[w] = sub[w]
               /\ sub[w] \in db[n] => sub[w] \in db'[n]
               /\ \A i \in DOMAIN mailbox[n] : IsMsg(mailbox[n][i]) =>
                     (<<w, mailbox[n][i].msg>> \in due' => <<w, mailbox[n][i].msg>> \in due)
    PROVE  Requested(w)'
<1> DEFINE n == Home[w]
<1>1. CASE sub[w] \in db[n]
  BY <1>1 DEF Requested
<1>2. ASSUME NEW i \in DOMAIN mailbox[n], AheadAt(w, n, i)  PROVE Requested(w)'
  <2>1. mailbox[n] \in Seq(Envelope)
    BY RouterAssumption DEF TypeInv, TypeOK
  <2>2. /\ i \in DOMAIN mailbox'[n] /\ i \in Nat
        /\ \A j \in 1..i : j \in DOMAIN mailbox[n] /\ mailbox'[n][j] = mailbox[n][j]
        /\ i \in 1..i
    <3>1. /\ Len(mailbox[n]) \in Nat /\ DOMAIN mailbox[n] = 1..Len(mailbox[n])
          /\ DOMAIN Append(mailbox[n], env) = 1..(Len(mailbox[n]) + 1)
          /\ \A j \in 1..Len(mailbox[n]) : Append(mailbox[n], env)[j] = mailbox[n][j]
      BY <2>1
    <3>2. i \in 1..Len(mailbox[n]) /\ i \in 1..i /\ \A j \in 1..i : j \in 1..Len(mailbox[n])
      BY <1>2, <3>1
    <3>3. QED
      BY <3>1, <3>2
  <2>3. \A j \in 1..(i - 1) : j \in 1..i
    BY <2>2
  <2>4. AheadAt(w, n, i)'
    BY <1>2, <2>2, <2>3 DEF AheadAt
  <2>5. QED
    BY <2>2, <2>4 DEF Requested
<1>3. QED
  BY <1>1, <1>2 DEF Requested

\* Handling what stands before the request, and announcing behind it, keeps it ahead.
LEMMA RequestedShifted ==
    ASSUME TypeInv, NEW w \in Writers, Requested(w), NEW told \in Seq(SubEnvelope),
           LET n == Home[w] IN
               /\ mailbox[n] # <<>>
               /\ mailbox'[n] = Tail(mailbox[n]) \o told
               /\ sub'[w] = sub[w]
               /\ sub[w] \in db[n] => sub[w] \in db'[n]
               /\ due' = due
               /\ ~(Head(mailbox[n]).kind = "sub" /\ Head(mailbox[n]).entry = sub[w])
    PROVE  Requested(w)'
<1> DEFINE n == Home[w]
<1>1. CASE sub[w] \in db[n]
  BY <1>1 DEF Requested
<1>2. ASSUME NEW i \in DOMAIN mailbox[n], AheadAt(w, n, i)  PROVE Requested(w)'
  <2>1. mailbox[n] \in Seq(Envelope) /\ mailbox[n] # <<>>
    BY RouterAssumption DEF TypeInv, TypeOK
  <2>2. /\ Len(mailbox[n]) \in Nat \ {0} /\ DOMAIN mailbox[n] = 1..Len(mailbox[n])
        /\ Head(mailbox[n]) = mailbox[n][1]
        /\ Tail(mailbox[n]) \in Seq(Envelope)
        /\ Len(Tail(mailbox[n])) = Len(mailbox[n]) - 1
        /\ \A j \in 1..(Len(mailbox[n]) - 1) : Tail(mailbox[n])[j] = mailbox[n][j + 1]
    BY <2>1, EmptySeq
  <2>3. told \in Seq(Envelope) /\ Len(told) \in Nat
    BY SeqMonotonic DEF Envelope
  <2>4. /\ DOMAIN mailbox'[n] = 1..(Len(mailbox[n]) - 1 + Len(told))
        /\ \A j \in 1..(Len(mailbox[n]) - 1) : mailbox'[n][j] = mailbox[n][j + 1]
    <3>1. /\ DOMAIN mailbox'[n] = 1..(Len(Tail(mailbox[n])) + Len(told))
          /\ \A j \in 1..Len(Tail(mailbox[n])) : mailbox'[n][j] = Tail(mailbox[n])[j]
      BY <2>2, <2>3
    <3>2. QED
      BY <2>2, <3>1
  <2>5. i # 1 /\ i \in Nat \ {0}
    BY <1>2, <2>2 DEF AheadAt
  <2>6. /\ i - 1 \in DOMAIN mailbox'[n]
        /\ i - 1 \in 1..(Len(mailbox[n]) - 1)
        /\ (i - 1) + 1 = i
        /\ \A j \in 1..((i - 1) - 1) : j \in 1..(Len(mailbox[n]) - 1) /\ j + 1 \in 1..(i - 1)
    BY <2>2, <2>3, <2>4, <2>5
  <2>7. mailbox'[n][i - 1] = mailbox[n][i]
    BY <2>4, <2>6
  <2>8. \A j \in 1..((i - 1) - 1) : IsMsg(mailbox'[n][j]) =>
            <<w, mailbox'[n][j].msg>> \notin due
    BY <1>2, <2>4, <2>6 DEF AheadAt
  <2>9. AheadAt(w, n, i - 1)'
    BY <1>2, <2>7, <2>8 DEF AheadAt
  <2>10. QED
    BY <2>6, <2>9 DEF Requested
<1>3. QED
  BY <1>1, <1>2 DEF Requested

-----------------------------------------------------------------------------
(* Who is subscribed, and who is owed what.                                *)

OwnSubscription ==
    \A w \in Writers : observer[w] # "unspawned" => sub[w] \in Entry /\ sub[w].writer = w

DeliveryInv ==
    /\ RouterInv
    /\ TerminatedJustified
    /\ OwnSubscription
    /\ DueInv
    /\ SubscribedBeforeGets

\* An observer changes its subscription only when it is spawned, and runs only
\* from then on.
LEMMA ObserverSteps ==
    ASSUME TypeInv, [Next]_vars, NEW w \in Writers
    PROVE  \/ \E s \in Subscriptions : Observe(w, s)
           \/ /\ sub'[w] = sub[w]
              /\ observer'[w] = "running" => observer[w] = "running"
              /\ observer[w] = "unspawned" <=> observer'[w] = "unspawned"
<1> DEFINE Same == /\ sub'[w] = sub[w]
                   /\ observer'[w] = "running" => observer[w] = "running"
                   /\ observer[w] = "unspawned" <=> observer'[w] = "unspawned"
<1>1. ASSUME NEW v \in Writers, NEW s \in Subscriptions, Observe(v, s), v # w
      PROVE  Same
  BY <1>1 DEF Observe, TypeInv, TypeOK
<1>2. \A v \in Writers : Unsubscribe(v) \/ ObserverStep(v) => Same
  BY DEF Unsubscribe, ObserverStep, OnNext, ObserverStops, TypeInv, TypeOK
<1>3. \A n \in Nodes : RouterStep(n) \/ StopRouter(n) => UNCHANGED <<sub, observer>>
  BY DEF RouterStep, HandleSubscription, HandleMessage, HandleTopology,
     HandleTerminated, StopRouter, observerVars
<1>4. \A n, k \in Nodes : Delivery(n, k) \/ Disconnect(n, k) => UNCHANGED <<sub, observer>>
  BY DEF Delivery, DeliverSub, DeliverTold, Disconnect, observerVars
<1>5. \A n \in Nodes : /\ \A t \in Topics : Publish(n, t) => UNCHANGED <<sub, observer>>
                       /\ \A alive \in SUBSET Nodes :
                            TopologyChanged(n, alive) => UNCHANGED <<sub, observer>>
  BY DEF Publish, TopologyChanged, observerVars
<1>6. UNCHANGED vars => UNCHANGED <<sub, observer>>
  BY DEF vars, observerVars
<1>7. UNCHANGED <<sub, observer>> => Same
  OBVIOUS
<1> HIDE DEF Same
<1>8. Same \/ \E s \in Subscriptions : Observe(w, s)
  BY <1>1, <1>2, <1>3, <1>4, <1>5, <1>6, <1>7 DEF Next, Client
<1>9. QED
  BY <1>8 DEF Same

\* Every step keeps OwnSubscription.
LEMMA NextOwnSubscription ==
    ASSUME TypeInv, OwnSubscription, [Next]_vars
    PROVE  OwnSubscription'
<1> SUFFICES ASSUME NEW w \in Writers, observer'[w] # "unspawned"
             PROVE  sub'[w] \in Entry /\ sub'[w].writer = w
  BY DEF OwnSubscription
<1>1. ASSUME NEW s \in Subscriptions, Observe(w, s)
      PROVE  sub'[w] \in Entry /\ sub'[w].writer = w
  <2>1. sub'[w] = ProtoSubscription(w, s)
    BY <1>1 DEF Observe, TypeInv, TypeOK
  <2>2. QED
    BY <2>1, RouterAssumption DEF ProtoSubscription, Entry
<1>2. QED
  BY <1>1, ObserverSteps DEF OwnSubscription

\* No running router comes up again.
LEMMA RoutersStop ==
    ASSUME TypeInv, [Next]_vars, NEW n \in Nodes, Up(n)'
    PROVE  Up(n) /\ ~StopRouter(n)
<1>1. ASSUME NEW k \in Nodes, StopRouter(k)  PROVE Up(n) /\ k # n
  BY <1>1 DEF StopRouter, Up, TypeInv, TypeOK
<1>2. (\A k \in Nodes : ~StopRouter(k)) => UNCHANGED router
  <2>1. Client => UNCHANGED router \/ \E k \in Nodes : StopRouter(k)
    BY DEF Client, Publish, Observe, Unsubscribe
  <2>2. \A k \in Nodes : RouterStep(k) => UNCHANGED router
    BY DEF RouterStep, HandleSubscription, HandleMessage, HandleTopology, HandleTerminated
  <2>3. \A w \in Writers : ObserverStep(w) => UNCHANGED router
    BY DEF ObserverStep, OnNext, ObserverStops
  <2>4. \A k \in Nodes, alive \in SUBSET Nodes : TopologyChanged(k, alive) => UNCHANGED router
    BY DEF TopologyChanged
  <2>5. \A i, k \in Nodes : Delivery(i, k) \/ Disconnect(i, k) => UNCHANGED router
    BY DEF Delivery, DeliverSub, DeliverTold, Disconnect
  <2>6. UNCHANGED vars => UNCHANGED router
    BY DEF vars
  <2>7. QED
    BY <2>1, <2>2, <2>3, <2>4, <2>5, <2>6 DEF Next
<1>3. QED
  BY <1>1, <1>2 DEF Up

\* Only Publish makes a message due.
LEMMA NewlyDue ==
    ASSUME [Next]_vars
    PROVE  UNCHANGED due \/ \E n \in Nodes, t \in Topics : Publish(n, t)
<1>1. Client => UNCHANGED due \/ \E n \in Nodes, t \in Topics : Publish(n, t)
  BY DEF Client, Observe, Unsubscribe, StopRouter
<1>2. \A k \in Nodes : RouterStep(k) => UNCHANGED due
  BY DEF RouterStep, HandleSubscription, HandleMessage, HandleTopology, HandleTerminated
<1>3. \A w \in Writers : ObserverStep(w) => UNCHANGED due
  BY DEF ObserverStep, OnNext, ObserverStops
<1>4. \A k \in Nodes, alive \in SUBSET Nodes : TopologyChanged(k, alive) => UNCHANGED due
  BY DEF TopologyChanged
<1>5. \A i, k \in Nodes : Delivery(i, k) \/ Disconnect(i, k) => UNCHANGED due
  BY DEF Delivery, DeliverSub, DeliverTold, Disconnect
<1>6. UNCHANGED vars => UNCHANGED due
  BY DEF vars
<1>7. QED
  BY <1>1, <1>2, <1>3, <1>4, <1>5, <1>6 DEF Next

\* The number of messages published grows.
LEMMA PublishedGrows ==
    ASSUME TypeInv, [Next]_vars
    PROVE  published \in Nat /\ published' \in Nat /\ published =< published'
<1>1. published \in Nat
  BY RouterAssumption DEF TypeInv, TypeOK
<1>2. Client => published' \in {published, published + 1}
  BY DEF Client, Publish, Observe, Unsubscribe, StopRouter, counters
<1>3. \A k \in Nodes : RouterStep(k) => UNCHANGED published
  BY DEF RouterStep, HandleSubscription, HandleMessage, HandleTopology, HandleTerminated,
     counters
<1>4. \A w \in Writers : ObserverStep(w) => UNCHANGED published
  BY DEF ObserverStep, OnNext, ObserverStops, counters
<1>5. \A k \in Nodes, alive \in SUBSET Nodes : TopologyChanged(k, alive) => UNCHANGED published
  BY DEF TopologyChanged
<1>6. \A i, k \in Nodes : Delivery(i, k) \/ Disconnect(i, k) => UNCHANGED published
  BY DEF Delivery, DeliverSub, DeliverTold, Disconnect, counters
<1>7. UNCHANGED vars => UNCHANGED published
  BY DEF vars, counters
<1>8. published' \in {published, published + 1}
  BY <1>2, <1>3, <1>4, <1>5, <1>6, <1>7 DEF Next
<1>9. QED
  BY <1>1, <1>8

\* What is due stays due to a subscriber of the same subscription.
LEMMA NextDue ==
    ASSUME DeliveryInv, [Next]_vars, NEW w \in Writers, NEW m \in Message, <<w, m>> \in due'
    PROVE  /\ observer'[w] # "unspawned"
           /\ Broadcast(sub'[w])
           /\ <<sub'[w].pattern, m.topic>> \in Matches
           /\ m.id =< published'
<1>1. CASE <<w, m>> \in due
  <2>1. /\ observer[w] # "unspawned" /\ Broadcast(sub[w])
        /\ <<sub[w].pattern, m.topic>> \in Matches /\ m.id =< published
    BY <1>1 DEF DeliveryInv, DueInv
  <2>2. \A s \in Subscriptions : ~Observe(w, s)
    BY <2>1 DEF Observe
  <2>3. observer'[w] # "unspawned" /\ sub'[w] = sub[w]
    BY <2>1, <2>2, ObserverSteps DEF DeliveryInv, RouterInv
  <2>4. m.id \in Nat
    BY DEF Message
  <2>5. QED
    BY <2>1, <2>3, <2>4, PublishedGrows DEF DeliveryInv, RouterInv
<1>2. ASSUME NEW n \in Nodes, NEW t \in Topics, Publish(n, t), <<w, m>> \notin due
      PROVE  /\ observer'[w] # "unspawned"
             /\ Broadcast(sub'[w])
             /\ <<sub'[w].pattern, m.topic>> \in Matches
             /\ m.id =< published'
  <2>1. w \in Owed(n, t) /\ m = [id |-> published + 1, topic |-> t, node |-> n]
    BY <1>2 DEF Publish
  <2>2. UNCHANGED <<sub, observer>> /\ published' = published + 1
    BY <1>2 DEF Publish, observerVars
  <2>3. published \in Nat
    BY PublishedGrows DEF DeliveryInv, RouterInv
  <2>4. QED
    BY <2>1, <2>2, <2>3 DEF Owed
<1>3. QED
  BY <1>1, <1>2, NewlyDue

-----------------------------------------------------------------------------
(* Requests stay ahead of what is due.                                     *)

\* The router of its node does not forget a running observer.
LEMMA SubscriptionKept ==
    ASSUME DeliveryInv, [Next]_vars, NEW w \in Writers, observer[w] = "running",
           sub[w] \in db[Home[w]]
    PROVE  sub[w] \in db'[Home[w]]
<1> SUFFICES ASSUME sub[w] \notin db'[Home[w]]  PROVE FALSE
  OBVIOUS
<1>1. Home[w] \in Nodes
  BY RouterAssumption
<1>2. sub[w].writer = w
  BY DEF DeliveryInv, OwnSubscription
<1>3. w \in terminated[Home[w]]
  BY <1>1, <1>2, ForgottenTerminated DEF DeliveryInv, RouterInv
<1>4. QED
  BY <1>1, <1>3 DEF DeliveryInv, TerminatedJustified, Gone

\* A new observer's request stands behind what was published before.
LEMMA ObserveRequested ==
    ASSUME DeliveryInv, NEW w \in Writers, NEW s \in Subscriptions, Observe(w, s),
           Up(Home[w])
    PROVE  Requested(w)'
<1> DEFINE n == Home[w]
           e == ProtoSubscription(w, s)
           env == [kind |-> "sub", entry |-> e]
<1>1. n \in Nodes /\ mailbox[n] \in Seq(Envelope)
  BY RouterAssumption DEF DeliveryInv, RouterInv, TypeInv, TypeOK
<1>2. sub'[w] = e /\ due' = due
  BY DEF Observe, DeliveryInv, RouterInv, TypeInv, TypeOK
<1>3. mailbox'[n] = Append(mailbox[n], env)
  BY <1>1 DEF Observe, Tell, DeliveryInv, RouterInv, TypeInv, TypeOK
<1>4. /\ Len(mailbox[n]) \in Nat
      /\ DOMAIN Append(mailbox[n], env) = 1..(Len(mailbox[n]) + 1)
      /\ Append(mailbox[n], env)[Len(mailbox[n]) + 1] = env
      /\ \A j \in 1..Len(mailbox[n]) : Append(mailbox[n], env)[j] = mailbox[n][j]
      /\ DOMAIN mailbox[n] = 1..Len(mailbox[n])
  BY <1>1
<1>5. PICK i \in DOMAIN mailbox'[n] : mailbox'[n][i] = env /\ i - 1 = Len(mailbox[n])
  <2>1. PICK k \in Nat : k = Len(mailbox[n])
    BY <1>4
  <2>2. k + 1 \in 1..(k + 1) /\ (k + 1) - 1 = k
    BY <2>1
  <2> HIDE DEF env
  <2>3. QED
    BY <1>3, <1>4, <2>1, <2>2
<1>6. \A m : <<w, m>> \notin due
  <2>1. observer[w] = "unspawned"
    BY DEF Observe
  <2>2. due \subseteq Writers \X Message
    BY DEF DeliveryInv, RouterInv, TypeInv, TypeOK
  <2>3. QED
    BY <2>1, <2>2 DEF DeliveryInv, DueInv
<1>7. env.kind = "sub" /\ env.entry = e
  OBVIOUS
<1> HIDE DEF env, e
<1>8. AheadAt(w, n, i)'
  BY <1>2, <1>5, <1>6, <1>7 DEF AheadAt
<1>9. QED
  BY <1>5, <1>8 DEF Requested

\* What a step does to the mailbox of a router that stays up.
LEMMA MailboxSteps ==
    ASSUME TypeInv, [Next]_vars, NEW n \in Nodes, Up(n)'
    PROVE  \/ /\ UNCHANGED due
              /\ \E env : mailbox'[n] = mailbox[n] \/ mailbox'[n] = Append(mailbox[n], env)
           \/ /\ UNCHANGED due
              /\ mailbox[n] # <<>>
              /\ RouterStep(n)
              /\ \E told \in Seq(SubEnvelope) : mailbox'[n] = Tail(mailbox[n]) \o told
           \/ \E k \in Nodes, t \in Topics : Publish(k, t)
<1> DEFINE Grown == \E env : mailbox'[n] = mailbox[n] \/ mailbox'[n] = Append(mailbox[n], env)
           Taken1 == /\ mailbox[n] # <<>>
                     /\ RouterStep(n)
                     /\ \E told \in Seq(SubEnvelope) : mailbox'[n] = Tail(mailbox[n]) \o told
<1>1. mailbox \in [Nodes -> Seq(Envelope)]
  BY DEF TypeInv, TypeOK
<1>2. UNCHANGED mailbox => Grown
  BY <1>1
<1>3. ASSUME NEW k \in Nodes, NEW env, Tell(k, env)  PROVE Grown
  BY <1>1, <1>3 DEF Tell
<1>4. ASSUME NEW w \in Writers, NEW s \in Subscriptions, Observe(w, s)  PROVE Grown
  BY <1>3, <1>4, RouterAssumption DEF Observe
<1>5. ASSUME NEW k \in Nodes, StopRouter(k)  PROVE Grown
  <2>1. k # n
    BY <1>5, RoutersStop
  <2>2. mailbox'[n] = mailbox[n]
    BY <1>1, <1>5, <2>1 DEF StopRouter
  <2>3. QED
    BY <2>2
<1>6. ASSUME NEW k \in Nodes, HandleSubscription(k) \/ HandleMessage(k)
      PROVE  Grown \/ Taken1
  <2>1. mailbox' = [mailbox EXCEPT ![k] = Tail(@)] /\ mailbox[k] # <<>>
    BY <1>6 DEF HandleSubscription, HandleMessage, Heads, Consume
  <2>2. CASE k = n
    <3>1. Tail(mailbox[n]) \in Seq(Envelope)
      BY <2>1, <2>2, HeadsType
    <3>2. mailbox'[n] = Tail(mailbox[n]) \o <<>> /\ <<>> \in Seq(SubEnvelope)
      BY <1>1, <2>1, <2>2, <3>1, ConcatEmptySeq, EmptySeq
    <3>3. QED
      BY <1>6, <2>1, <2>2, <3>2 DEF RouterStep
  <2>3. CASE k # n
    <3>1. mailbox'[n] = mailbox[n]
      BY <1>1, <2>1, <2>3
    <3>2. QED
      BY <3>1
  <2>4. QED
    BY <2>2, <2>3
<1>7. ASSUME NEW k \in Nodes, HandleTopology(k)  PROVE Grown \/ Taken1
  <2> DEFINE alive == Head(mailbox[k]).alive
  <2>1. PICK q \in Orders(db[k]) :
          mailbox' = [mailbox EXCEPT ![k] =
                         Tail(@) \o (IF k \in alive THEN Announce(q) ELSE <<>>)]
    BY <1>7 DEF HandleTopology
  <2>2. (IF k \in alive THEN Announce(q) ELSE <<>>) \in Seq(SubEnvelope)
    BY AnnounceType, EmptySeq DEF TypeInv, TypeOK
  <2>3. mailbox[k] # <<>>
    BY <1>7 DEF HandleTopology, Heads
  <2>4. CASE k = n
    <3>1. mailbox'[n] = Tail(mailbox[n]) \o (IF k \in alive THEN Announce(q) ELSE <<>>)
      BY <1>1, <2>1, <2>4
    <3>2. QED
      BY <1>7, <2>2, <2>3, <2>4, <3>1 DEF RouterStep
  <2>5. CASE k # n
    <3>1. mailbox'[n] = mailbox[n]
      BY <1>1, <2>1, <2>5
    <3>2. QED
      BY <3>1
  <2>6. QED
    BY <2>4, <2>5
<1>8. ASSUME NEW k \in Nodes, NEW alive \in SUBSET Nodes, TopologyChanged(k, alive)
      PROVE  Grown
  BY <1>3, <1>8 DEF TopologyChanged
<1>9. ASSUME NEW i \in Nodes, NEW k \in Nodes, Delivery(i, k) \/ Disconnect(i, k)
      PROVE  Grown
  BY <1>2, <1>3, <1>9 DEF Delivery, DeliverSub, DeliverTold, Disconnect
<1>10. \A k \in Nodes, w \in Writers : HandleTerminated(k, w) => UNCHANGED mailbox
  BY DEF HandleTerminated
<1>11. \A w \in Writers : Unsubscribe(w) \/ ObserverStep(w) => UNCHANGED mailbox
  BY DEF Unsubscribe, ObserverStep, OnNext, ObserverStops
<1>12. UNCHANGED vars => UNCHANGED mailbox
  BY DEF vars
<1>13. Grown \/ Taken1 \/ \E k \in Nodes, t \in Topics : Publish(k, t)
  <2> HIDE DEF Grown, Taken1
  <2>1. QED
    BY <1>2, <1>4, <1>5, <1>6, <1>7, <1>8, <1>9, <1>10, <1>11, <1>12
       DEF Next, Client, RouterStep
<1>14. QED
  BY <1>13, NewlyDue

\* A subscription the router handles is in its table afterwards.
LEMMA HandledIsKnown ==
    ASSUME RouterInv, NEW n \in Nodes, HandleSubscription(n)
    PROVE  Head(mailbox[n]).entry \in db'[n]
<1> DEFINE e == Head(mailbox[n]).entry
<1>1. Head(mailbox[n]) \in Elements(mailbox[n]) /\ Head(mailbox[n]).kind = "sub"
  BY ElementsHeadTail DEF HandleSubscription, Heads, RouterInv, TypeInv, TypeOK
<1>2. Genuine(e)
  BY <1>1 DEF RouterInv, OneSubscription
<1>3. CASE Taken(db[n], e)
  <2>1. PICK f \in db[n] : f.writer = e.writer
    BY <1>3 DEF Taken
  <2>2. Genuine(f)
    BY DEF RouterInv, OneSubscription
  <2>3. f = e
    BY <1>2, <2>1, <2>2 DEF Genuine
  <2>4. db' = db
    BY <1>3 DEF HandleSubscription
  <2>5. QED
    BY <2>1, <2>3, <2>4
<1>4. CASE ~Taken(db[n], e)
  BY <1>4 DEF HandleSubscription, Added, RouterInv, TypeInv, TypeOK
<1>5. QED
  BY <1>3, <1>4

\* Every step keeps Requested: a subscription on its way to a router stays so until the router handles it.
LEMMA NextRequested ==
    ASSUME DeliveryInv, [Next]_vars, NEW w \in Writers,
           observer'[w] = "running", Up(Home[w])'
    PROVE  Requested(w)'
<1> DEFINE n == Home[w]
<1>1. n \in Nodes /\ TypeInv /\ mailbox \in [Nodes -> Seq(Envelope)]
  BY RouterAssumption DEF DeliveryInv, RouterInv, TypeInv, TypeOK
<1>2. Up(n)
  BY <1>1, RoutersStop
<1>3. CASE \E s \in Subscriptions : Observe(w, s)
  BY <1>2, <1>3, ObserveRequested
<1>4. CASE sub'[w] = sub[w] /\ observer[w] = "running"
  <2>1. Requested(w)
    BY <1>2, <1>4 DEF DeliveryInv, DueInv
  <2>2. sub[w] \in db[n] => sub[w] \in db'[n]
    BY <1>4, SubscriptionKept
  <2>3. ASSUME NEW env, mailbox'[n] = mailbox[n] \/ mailbox'[n] = Append(mailbox[n], env),
               UNCHANGED due
        PROVE  Requested(w)'
    BY <1>1, <1>4, <2>1, <2>2, <2>3, RequestedGrown
  <2>4. ASSUME NEW told \in Seq(SubEnvelope), mailbox[n] # <<>>, RouterStep(n),
               mailbox'[n] = Tail(mailbox[n]) \o told, UNCHANGED due
        PROVE  Requested(w)'
    <3>1. CASE ~(Head(mailbox[n]).kind = "sub" /\ Head(mailbox[n]).entry = sub[w])
      BY <1>1, <1>4, <2>1, <2>2, <2>4, <3>1, RequestedShifted
    <3>2. CASE HandleSubscription(n) /\ Head(mailbox[n]).entry = sub[w]
      <4>1. sub'[w] \in db'[n]
        BY <1>1, <1>4, <3>2, HandledIsKnown DEF DeliveryInv
      <4>2. QED
        BY <4>1 DEF Requested
    <3>3. HandleMessage(n) \/ HandleTopology(n) => Head(mailbox[n]).kind # "sub"
      BY DEF HandleMessage, HandleTopology, Heads
    <3>4. ASSUME NEW v \in Writers, HandleTerminated(n, v)  PROVE Requested(w)'
      <4>1. mailbox'[n] = mailbox[n]
        BY <3>4 DEF HandleTerminated
      <4>2. QED
        BY <2>3, <2>4, <4>1
    <3>5. QED
      BY <2>4, <3>1, <3>2, <3>3, <3>4 DEF RouterStep
  <2>5. ASSUME NEW k \in Nodes, NEW t \in Topics, Publish(k, t)  PROVE Requested(w)'
    <3> DEFINE m == [id |-> published + 1, topic |-> t, node |-> k]
               env == [kind |-> "msg", msg |-> m]
    <3>1. Tell(k, env) /\ due' = due \cup {<<v, m>> : v \in Owed(k, t)}
      BY <2>5 DEF Publish
    <3>2. mailbox'[n] = mailbox[n] \/ mailbox'[n] = Append(mailbox[n], env)
      BY <1>1, <3>1 DEF Tell
    <3>3. published \in Nat
      BY PublishedGrows DEF DeliveryInv, RouterInv
    <3>4. \A i \in DOMAIN mailbox[n] : IsMsg(mailbox[n][i]) => mailbox[n][i].msg.id =< published
      BY <1>1 DEF DeliveryInv, RouterInv, OneMessage
    <3>5. \A i \in DOMAIN mailbox[n] : IsMsg(mailbox[n][i]) => mailbox[n][i].msg # m
      BY <3>3, <3>4
    <3> HIDE DEF m, env
    <3>6. \A i \in DOMAIN mailbox[n] : IsMsg(mailbox[n][i]) =>
             (<<w, mailbox[n][i].msg>> \in due' => <<w, mailbox[n][i].msg>> \in due)
      BY <3>1, <3>5
    <3>7. QED
      BY <1>1, <1>4, <2>1, <2>2, <3>2, <3>6, RequestedGrown
  <2>6. QED
    BY <1>1, <2>3, <2>4, <2>5, MailboxSteps
<1>5. QED
  BY <1>1, <1>3, <1>4, ObserverSteps

-----------------------------------------------------------------------------
(* What is due is on its way.                                              *)

\* A plain subscriber of the table is among the writers its router tells.
LEMMA PlainSubscriberTold ==
    ASSUME RouterInv, NEW n \in Nodes, NEW t \in Topics, NEW e \in db[n],
           Broadcast(e), <<e.pattern, t>> \in Matches,
           NEW to \in Selections(RoutesAt(n, t))
    PROVE  e.writer \in to
<1> DEFINE c == ClassOf(Matching(db[n], t), e)
<1>1. e \in Matching(db[n], t)
  BY DEF Matching
<1>2. c \in Classes(db[n], t)
  BY <1>1 DEF Classes
<1>3. Broadcast(c) /\ e.writer \in c.writers
  BY <1>1 DEF ClassOf, Broadcast
<1>4. RoutesAt(n, t) = Routes(Classes(db[n], t))
  BY CachesAnswer DEF RouterInv
<1>5. \A f, g \in db[n] : f.writer = g.writer => f = g
  BY DEF RouterInv, OneSubscription, Genuine
<1>6. db[n] \in SUBSET Entry
  BY DEF RouterInv, TypeInv, TypeOK
<1> HIDE DEF c
<1>7. c.writers \subseteq to
  BY <1>2, <1>3, <1>4, <1>5, <1>6, SelectionsServe
<1>8. QED
  BY <1>3, <1>7

\* When a message comes first in the mailbox, who is owed it is in the table.
LEMMA DueIsKnown ==
    ASSUME DeliveryInv, NEW w \in Writers, observer[w] = "running", Up(Home[w]),
           mailbox[Home[w]] # <<>>, IsMsg(Head(mailbox[Home[w]])),
           <<w, Head(mailbox[Home[w]]).msg>> \in due
    PROVE  sub[w] \in db[Home[w]]
<1> DEFINE n == Home[w]
<1>1. /\ mailbox[n] \in Seq(Envelope) /\ Len(mailbox[n]) \in Nat \ {0}
      /\ DOMAIN mailbox[n] = 1..Len(mailbox[n])
      /\ Head(mailbox[n]) = mailbox[n][1]
  BY RouterAssumption, EmptySeq DEF DeliveryInv, RouterInv, TypeInv, TypeOK
<1>2. ASSUME NEW i \in DOMAIN mailbox[n], AheadAt(w, n, i)  PROVE FALSE
  <2>1. i # 1
    BY <1>1, <1>2 DEF AheadAt, IsMsg
  <2>2. 1 \in 1..(i - 1)
    BY <1>1, <2>1
  <2>3. QED
    BY <1>1, <1>2, <2>2 DEF AheadAt
<1>3. Requested(w)
  BY DEF DeliveryInv, DueInv
<1>4. QED
  BY <1>2, <1>3 DEF Requested

\* HandleMessage tells a message to every plain subscriber that is owed it.
LEMMA DueIsTold ==
    ASSUME DeliveryInv, NEW w \in Writers, observer[w] = "running",
           HandleMessage(Home[w]), <<w, Head(mailbox[Home[w]]).msg>> \in due
    PROVE  Head(mailbox[Home[w]]).msg \in Elements(inbox'[w])
<1> DEFINE n == Home[w]
           m == Head(mailbox[n]).msg
           t == m.topic
<1>1. /\ n \in Nodes /\ Up(n) /\ mailbox[n] # <<>> /\ IsMsg(Head(mailbox[n]))
      /\ w \in At(n) /\ Live(w)
  BY RouterAssumption DEF HandleMessage, Heads, IsMsg, At, Live
<1>2. m \in Message /\ t \in Topics
  BY DEF DeliveryInv, RouterInv, TypeInv, TypeOK, Message
<1>3. sub[w] \in db[n]
  BY <1>1, DueIsKnown
<1>4. /\ Broadcast(sub[w]) /\ <<sub[w].pattern, t>> \in Matches
      /\ sub[w].writer = w
  BY <1>1, <1>2 DEF DeliveryInv, DueInv, OwnSubscription
<1>5. PICK to \in Selections(RoutesAt(n, t)) : Dispatch(n, m, to)
  BY DEF HandleMessage
<1> HIDE DEF m
<1>6. w \in to
  BY <1>1, <1>2, <1>3, <1>4, PlainSubscriberTold DEF DeliveryInv
<1>7. inbox'[w] = Append(inbox[w], m) /\ inbox[w] \in Seq(Message)
  BY <1>1, <1>5, <1>6 DEF Dispatch, DeliveryInv, RouterInv, TypeInv, TypeOK
<1>8. QED
  BY <1>7, ElementsAppend DEF m

\* A running observer loses nothing that reached it.
LEMMA ReachedStays ==
    ASSUME TypeInv, [Next]_vars, NEW w \in Writers, observer'[w] = "running",
           NEW m \in Elements(inbox[w]) \cup Elements(received[w])
    PROVE  m \in Elements(inbox'[w]) \cup Elements(received'[w])
<1> DEFINE Stays == m \in Elements(inbox'[w]) \cup Elements(received'[w])
<1>1. /\ inbox \in [Writers -> Seq(Message)] /\ received \in [Writers -> Seq(Message)]
      /\ inbox[w] \in Seq(Message) /\ received[w] \in Seq(Message)
  BY DEF TypeInv, TypeOK
<1>2. ASSUME UNCHANGED received, NEW x,
             inbox'[w] = inbox[w] \/ inbox'[w] = Append(inbox[w], x)
      PROVE  Stays
  BY <1>1, <1>2, ElementsAppend
<1>3. ASSUME NEW v \in Writers, OnNext(v)  PROVE Stays
  <2>1. CASE v = w
    <3>1. /\ inbox[w] # <<>>
          /\ inbox'[w] = Tail(inbox[w])
          /\ received'[w] = Append(received[w], Head(inbox[w]))
      BY <1>1, <1>3, <2>1 DEF OnNext
    <3>2. Elements(received'[w]) = Elements(received[w]) \cup {Head(inbox[w])}
      BY <1>1, <3>1, ElementsAppend
    <3>3. Elements(inbox[w]) \subseteq {Head(inbox[w])} \cup Elements(inbox'[w])
      BY <1>1, <3>1, ElementsTaken
    <3>4. QED
      BY <3>2, <3>3
  <2>2. CASE v # w
    BY <1>1, <1>3, <2>2 DEF OnNext
  <2>3. QED
    BY <2>1, <2>2
<1>4. ASSUME NEW v \in Writers, ObserverStops(v)  PROVE Stays
  <2>1. v # w
    BY <1>4 DEF ObserverStops, TypeInv, TypeOK
  <2>2. QED
    BY <1>1, <1>4, <2>1 DEF ObserverStops
<1>5. ASSUME NEW n \in Nodes, HandleMessage(n)  PROVE Stays
  BY <1>1, <1>2, <1>5 DEF HandleMessage, Dispatch
<1>6. ASSUME NEW n \in Nodes, NEW k \in Nodes, DeliverTold(n, k)  PROVE Stays
  BY <1>1, <1>2, <1>6 DEF DeliverTold
<1>7. UNCHANGED <<inbox, received>> => Stays
  OBVIOUS
<1>8. \A n \in Nodes : HandleSubscription(n) \/ HandleTopology(n) \/ StopRouter(n) =>
          UNCHANGED <<inbox, received>>
  BY DEF HandleSubscription, HandleTopology, StopRouter, observerVars
<1>9. \A n \in Nodes, v \in Writers : HandleTerminated(n, v) => UNCHANGED <<inbox, received>>
  BY DEF HandleTerminated, observerVars
<1>10. \A n \in Nodes : /\ \A t \in Topics : Publish(n, t) => UNCHANGED <<inbox, received>>
                        /\ \A alive \in SUBSET Nodes :
                             TopologyChanged(n, alive) => UNCHANGED <<inbox, received>>
  BY DEF Publish, TopologyChanged, observerVars
<1>11. \A v \in Writers : /\ Unsubscribe(v) => UNCHANGED <<inbox, received>>
                          /\ \A s \in Subscriptions :
                               Observe(v, s) => UNCHANGED <<inbox, received>>
  BY DEF Unsubscribe, Observe
<1>12. \A n, k \in Nodes : DeliverSub(n, k) \/ Disconnect(n, k) =>
          UNCHANGED <<inbox, received>>
  BY DEF DeliverSub, Disconnect, observerVars
<1>13. UNCHANGED vars => UNCHANGED <<inbox, received>>
  BY DEF vars, observerVars
<1> HIDE DEF Stays
<1>14. Stays
  BY <1>3, <1>4, <1>5, <1>6, <1>7, <1>8, <1>9, <1>10, <1>11, <1>12, <1>13
     DEF Next, Client, RouterStep, ObserverStep, Delivery
<1>15. QED
  BY <1>14 DEF Stays

\* A message due stays in the mailbox until it is told.
LEMMA DueStays ==
    ASSUME DeliveryInv, [Next]_vars, NEW w \in Writers, NEW m \in Message,
           <<w, m>> \in due, observer[w] = "running", Up(Home[w])', InMailbox(Home[w], m)
    PROVE  InMailbox(Home[w], m)' \/ m \in Elements(inbox'[w])
<1> DEFINE n == Home[w]
<1>1. n \in Nodes /\ TypeInv
  BY RouterAssumption DEF DeliveryInv, RouterInv
<1>2. mailbox[n] \in Seq(Envelope)
  BY <1>1 DEF TypeInv, TypeOK
<1>3. PICK x \in Elements(mailbox[n]) : IsMsg(x) /\ x.msg = m
  BY InElements
<1>4. x \in Elements(mailbox'[n]) => InMailbox(n, m)'
  BY <1>3 DEF InMailbox, Elements, IsMsg
<1>5. ASSUME NEW env, mailbox'[n] = mailbox[n] \/ mailbox'[n] = Append(mailbox[n], env)
      PROVE  x \in Elements(mailbox'[n])
  <2>1. Elements(Append(mailbox[n], env)) = Elements(mailbox[n]) \cup {env}
    BY <1>2, ElementsAppend
  <2>2. CASE mailbox'[n] = mailbox[n]
    BY <2>2
  <2>3. CASE mailbox'[n] = Append(mailbox[n], env)
    BY <2>1, <2>3
  <2>4. QED
    BY <1>5, <2>2, <2>3
<1>6. ASSUME NEW told \in Seq(SubEnvelope), mailbox[n] # <<>>, RouterStep(n),
             mailbox'[n] = Tail(mailbox[n]) \o told
      PROVE  x \in Elements(mailbox'[n]) \/ m \in Elements(inbox'[w])
  <2>1. CASE x \in Elements(Tail(mailbox[n]))
    <3>1. told \in Seq(Envelope) /\ Tail(mailbox[n]) \in Seq(Envelope)
      BY <1>1, <1>6, HeadsType, SeqMonotonic DEF Envelope
    <3>2. Elements(Tail(mailbox[n])) \subseteq Elements(mailbox'[n])
      BY <1>6, <3>1, ElementsKept
    <3>3. QED
      BY <2>1, <3>2
  <2>2. CASE x = Head(mailbox[n])
    <3>1. HandleMessage(n) => m \in Elements(inbox'[w])
      BY <1>3, <2>2, DueIsTold
    <3>2. HandleSubscription(n) \/ HandleTopology(n) => FALSE
      BY <1>3, <2>2 DEF HandleSubscription, HandleTopology, Heads, IsMsg
    <3>3. \A v \in Writers : HandleTerminated(n, v) => mailbox'[n] = mailbox[n]
      BY DEF HandleTerminated
    <3>4. QED
      BY <1>6, <3>1, <3>2, <3>3 DEF RouterStep
  <2>3. QED
    BY <1>2, <1>6, <2>1, <2>2, ElementsTaken
<1>7. ASSUME NEW k \in Nodes, NEW t \in Topics, Publish(k, t)
      PROVE  x \in Elements(mailbox'[n])
  <2>1. PICK env : Tell(k, env)
    BY <1>7 DEF Publish
  <2>2. mailbox'[n] = mailbox[n] \/ mailbox'[n] = Append(mailbox[n], env)
    BY <1>1, <2>1 DEF Tell, TypeInv, TypeOK
  <2>3. QED
    BY <1>5, <2>2
<1>8. QED
  BY <1>1, <1>4, <1>5, <1>6, <1>7, MailboxSteps

\* Every step keeps the invariant of delivery.
LEMMA NextSubscribedBeforeGets ==
    ASSUME DeliveryInv, [Next]_vars
    PROVE  SubscribedBeforeGets'
<1>0. due' \subseteq Writers \X Message
  <2>1. TypeInv'
    BY NextType DEF DeliveryInv, RouterInv
  <2>2. QED
    BY <2>1 DEF TypeInv, TypeOK
<1> SUFFICES ASSUME NEW w \in Writers, NEW m \in Message, <<w, m>> \in due',
                    observer'[w] = "running", Up(Home[w])'
             PROVE  InMailbox(Home[w], m)' \/ In(m, inbox'[w]) \/ In(m, received'[w])
  BY <1>0 DEF SubscribedBeforeGets
<1>1. Home[w] \in Nodes /\ TypeInv
  BY RouterAssumption DEF DeliveryInv, RouterInv
<1>2. CASE <<w, m>> \in due
  <2>1. observer[w] = "running" /\ Up(Home[w])
    <3>1. observer[w] # "unspawned"
      BY <1>2 DEF DeliveryInv, DueInv
    <3>2. \A s \in Subscriptions : ~Observe(w, s)
      BY <3>1 DEF Observe
    <3>3. QED
      BY <1>1, <3>2, ObserverSteps, RoutersStop
  <2>2. InMailbox(Home[w], m) \/ In(m, inbox[w]) \/ In(m, received[w])
    BY <1>2, <2>1 DEF DeliveryInv, SubscribedBeforeGets
  <2>3. CASE InMailbox(Home[w], m)
    BY <1>2, <2>1, <2>3, DueStays, InElements
  <2>4. CASE In(m, inbox[w]) \/ In(m, received[w])
    BY <1>1, <2>4, ReachedStays, InElements
  <2>5. QED
    BY <2>2, <2>3, <2>4
<1>3. ASSUME NEW n \in Nodes, NEW t \in Topics, Publish(n, t), <<w, m>> \notin due
      PROVE  InMailbox(Home[w], m)'
  <2> DEFINE env == [kind |-> "msg", msg |-> m]
  <2>1. w \in Owed(n, t) /\ m = [id |-> published + 1, topic |-> t, node |-> n]
    BY <1>3 DEF Publish
  <2>2. Home[w] = n /\ Up(n)
    BY <2>1 DEF Owed, At
  <2>3. Tell(n, env)
    BY <1>3, <2>1 DEF Publish
  <2>4. mailbox'[n] = Append(mailbox[n], env) /\ mailbox[n] \in Seq(Envelope)
    BY <1>1, <2>2, <2>3 DEF Tell, TypeInv, TypeOK
  <2>5. env \in Elements(mailbox'[n])
    BY <2>4, ElementsAppend
  <2>6. IsMsg(env) /\ env.msg = m
    BY DEF IsMsg
  <2> HIDE DEF env
  <2>7. QED
    BY <2>2, <2>5, <2>6 DEF InMailbox, Elements, IsMsg
<1>4. QED
  BY <1>2, <1>3, NewlyDue

\* Whoever subscribed, plainly, before a matching message was published on its node
\* gets it: nothing that joins, stops, breaks or is announced between loses it.
THEOREM SubscribersGetWhatFollows == Spec => []SubscribedBeforeGets
<1>1. Init => OwnSubscription /\ DueInv /\ SubscribedBeforeGets
  BY DEF Init, OwnSubscription, DueInv, SubscribedBeforeGets
<1>2. DeliveryInv /\ [Next]_vars => OwnSubscription' /\ DueInv' /\ SubscribedBeforeGets'
  <2> SUFFICES ASSUME DeliveryInv, [Next]_vars
               PROVE  OwnSubscription' /\ DueInv' /\ SubscribedBeforeGets'
    OBVIOUS
  <2>1. OwnSubscription'
    BY NextOwnSubscription DEF DeliveryInv, RouterInv
  <2>2. DueInv'
    BY NextDue, NextRequested DEF DueInv
  <2>3. QED
    BY <2>1, <2>2, NextSubscribedBeforeGets
<1>3. Spec => [](RouterInv /\ TerminatedJustified)
  BY TypeInvariant, CachesAreCoherent, SubscriptionsUnaltered, MessagesToldOnce,
     TerminatedIsJustified, PTL DEF RouterInv
<1>4. QED
  BY <1>1, <1>2, <1>3, PTL DEF Spec, DeliveryInv

-----------------------------------------------------------------------------
(* The order of publication: on its way from the mailbox of the router, by *)
(* way of a connection, to an observer no message of a node overtakes      *)
(* another.                                                                *)

\* A queue is in an order, given as the set of the pairs that may follow each other.
InOrder(q, R) == \A i, j \in DOMAIN q : i < j => <<q[i], q[j]>> \in R

MessageOrder ==
    {p \in Message \X Message : p[1].node = p[2].node => p[1].id < p[2].id}

Parcel == Envelope \cup Packet
Carries(x) == x.kind \in {"msg", "told"}
ParcelOrder ==
    {p \in Parcel \X Parcel : Carries(p[1]) /\ Carries(p[2]) => p[1].msg.id < p[2].msg.id}

\* Taking the head keeps an order, and the head precedes the rest.
LEMMA OrderTail ==
    ASSUME NEW R, NEW S, NEW q \in Seq(S), q # <<>>, InOrder(q, R)
    PROVE  /\ InOrder(Tail(q), R)
           /\ \A x \in Elements(Tail(q)) : <<Head(q), x>> \in R
<1>1. /\ Len(q) \in Nat \ {0} /\ DOMAIN q = 1..Len(q) /\ Head(q) = q[1]
      /\ DOMAIN Tail(q) = 1..(Len(q) - 1)
      /\ \A i \in 1..(Len(q) - 1) : Tail(q)[i] = q[i + 1]
  BY EmptySeq
<1>2. \A i \in 1..(Len(q) - 1) : i + 1 \in 1..Len(q) /\ 1 < i + 1 /\ 1 \in 1..Len(q)
  BY <1>1
<1>3. \A i, j \in 1..(Len(q) - 1) : i < j => i + 1 < j + 1
  BY <1>1
<1>4. InOrder(Tail(q), R)
  <2> SUFFICES ASSUME NEW i \in 1..(Len(q) - 1), NEW j \in 1..(Len(q) - 1), i < j
               PROVE  <<Tail(q)[i], Tail(q)[j]>> \in R
    BY <1>1 DEF InOrder
  <2>1. <<q[i + 1], q[j + 1]>> \in R
    BY <1>1, <1>2, <1>3 DEF InOrder
  <2>2. QED
    BY <1>1, <2>1
<1>5. ASSUME NEW i \in 1..(Len(q) - 1)
      PROVE  <<Head(q), Tail(q)[i]>> \in R
  <2>1. <<q[1], q[i + 1]>> \in R
    BY <1>1, <1>2 DEF InOrder
  <2>2. QED
    BY <1>1, <2>1
<1>6. QED
  BY <1>1, <1>4, <1>5 DEF Elements

\* Queues one after the other are in order when each of the first may precede each of
\* the second.
LEMMA OrderConcat ==
    ASSUME NEW R, NEW S, NEW q \in Seq(S), NEW r \in Seq(S), InOrder(q, R), InOrder(r, R),
           \A x \in Elements(q), y \in Elements(r) : <<x, y>> \in R
    PROVE  InOrder(q \o r, R)
<1>1. /\ Len(q) \in Nat /\ Len(r) \in Nat
      /\ DOMAIN q = 1..Len(q) /\ DOMAIN r = 1..Len(r)
      /\ DOMAIN (q \o r) = 1..(Len(q) + Len(r))
      /\ \A i \in 1..(Len(q) + Len(r)) :
            (q \o r)[i] = IF i =< Len(q) THEN q[i] ELSE r[i - Len(q)]
  OBVIOUS
<1> SUFFICES ASSUME NEW i \in 1..(Len(q) + Len(r)), NEW j \in 1..(Len(q) + Len(r)), i < j
             PROVE  <<(q \o r)[i], (q \o r)[j]>> \in R
  BY <1>1 DEF InOrder
<1>2. CASE j =< Len(q)
  BY <1>1, <1>2 DEF InOrder
<1>3. CASE i =< Len(q) /\ ~(j =< Len(q))
  <2>1. i \in DOMAIN q /\ j - Len(q) \in DOMAIN r
    BY <1>1, <1>3
  <2>2. (q \o r)[i] \in Elements(q) /\ (q \o r)[j] \in Elements(r)
    BY <1>1, <1>3, <2>1 DEF Elements
  <2>3. QED
    BY <2>2
<1>4. CASE ~(i =< Len(q))
  <2>1. /\ i - Len(q) \in DOMAIN r /\ j - Len(q) \in DOMAIN r
        /\ i - Len(q) < j - Len(q) /\ ~(j =< Len(q))
    BY <1>1, <1>4
  <2>2. (q \o r)[i] = r[i - Len(q)] /\ (q \o r)[j] = r[j - Len(q)]
    BY <1>1, <1>4, <2>1
  <2>3. QED
    BY <2>1, <2>2 DEF InOrder
<1>5. QED
  BY <1>1, <1>2, <1>3, <1>4

\* Appending keeps an order when what is there may precede what comes.
LEMMA OrderAppend ==
    ASSUME NEW R, NEW S, NEW q \in Seq(S), NEW x, InOrder(q, R),
           \A y \in Elements(q) : <<y, x>> \in R
    PROVE  InOrder(Append(q, x), R)
<1>1. /\ Len(q) \in Nat /\ DOMAIN q = 1..Len(q)
      /\ DOMAIN Append(q, x) = 1..(Len(q) + 1)
      /\ \A i \in 1..Len(q) : Append(q, x)[i] = q[i]
      /\ Append(q, x)[Len(q) + 1] = x
  OBVIOUS
<1>2. \A i, j \in 1..(Len(q) + 1) :
          i < j => i \in 1..Len(q) /\ (j \in 1..Len(q) \/ j = Len(q) + 1)
  BY <1>1
<1>3. QED
  BY <1>1, <1>2 DEF InOrder, Elements

-----------------------------------------------------------------------------
(* The stages a message passes.                                            *)

\* In the mailbox of its router, on the wire to a node, and with an observer.
Waiting(n) == {x.msg : x \in {y \in Elements(mailbox[n]) : y.kind = "msg"}}
ToldPackets(n, k) == {x \in Elements(wire[n][k]) : x.kind = "told"}
Told(n, k) == {x.msg : x \in ToldPackets(n, k)}
Seen(w) == Elements(received[w]) \cup Elements(inbox[w])

QueuesInOrder ==
    /\ \A n \in Nodes : InOrder(mailbox[n], ParcelOrder)
    /\ \A n, k \in Nodes : InOrder(wire[n][k], ParcelOrder)
    /\ \A w \in Writers :
          /\ InOrder(inbox[w], MessageOrder) /\ InOrder(received[w], MessageOrder)
          /\ \A x \in Elements(received[w]), y \in Elements(inbox[w]) :
                <<x, y>> \in MessageOrder

\* A message is told on the connection to the home of those it is told to.
ToldAtHome == \A n, k \in Nodes : \A x \in ToldPackets(n, k) : x.to \subseteq At(k)

\* Messages of a node wait on that node and are told to others, and what is at a later
\* stage was published before what is at an earlier one.
StagesInOrder ==
    /\ \A n \in Nodes : \A m \in Waiting(n) : m.node = n /\ m.id =< published
    /\ \A n, k \in Nodes : \A m \in Told(n, k) :
          /\ m.node = n /\ n # k /\ m.id =< published
          /\ \A l \in Waiting(n) : m.id < l.id
    /\ \A w \in Writers : \A m \in Seen(w) :
          /\ m.id =< published
          /\ \A l \in Waiting(m.node) \cup Told(m.node, Home[w]) : m.id < l.id

FlowInv == TypeInv /\ QueuesInOrder /\ ToldAtHome /\ StagesInOrder

\* What is at each stage has its type.
LEMMA StagesTyped ==
    ASSUME TypeInv
    PROVE  /\ \A n \in Nodes : Waiting(n) \subseteq Message
           /\ \A n, k \in Nodes : Told(n, k) \subseteq Message
           /\ \A w \in Writers : Seen(w) \subseteq Message
           /\ published \in Nat
<1>1. /\ \A n \in Nodes : mailbox[n] \in Seq(Envelope)
      /\ \A n, k \in Nodes : wire[n][k] \in Seq(Packet)
      /\ \A w \in Writers : received[w] \in Seq(Message) /\ inbox[w] \in Seq(Message)
  BY DEF TypeInv, TypeOK
<1>2. \A x \in Envelope : x.kind = "msg" => x.msg \in Message
  BY DEF Envelope, SubEnvelope, MsgEnvelope, TopologyEnvelope
<1>3. \A x \in Packet : x.kind = "told" => x.msg \in Message
  BY DEF Packet, SubEnvelope
<1>4. \A n \in Nodes : Waiting(n) \subseteq Message
  BY <1>1, <1>2, ElementsType DEF Waiting
<1>5. \A n, k \in Nodes : Told(n, k) \subseteq Message
  BY <1>1, <1>3, ElementsType DEF Told, ToldPackets
<1>6. \A w \in Writers : Seen(w) \subseteq Message
  BY <1>1, ElementsType DEF Seen
<1>7. published \in Nat
  BY RouterAssumption DEF TypeInv, TypeOK
<1>8. QED
  BY <1>4, <1>5, <1>6, <1>7

\* Steps that bring no message to a mailbox, to the wires, to the observers.
MailboxThins ==
    \A n \in Nodes : InOrder(mailbox'[n], ParcelOrder) /\ Waiting(n)' \subseteq Waiting(n)
WireThins ==
    \A n, k \in Nodes :
        InOrder(wire'[n][k], ParcelOrder) /\ ToldPackets(n, k)' \subseteq ToldPackets(n, k)
SeenThins ==
    \A w \in Writers :
        /\ InOrder(inbox'[w], MessageOrder) /\ InOrder(received'[w], MessageOrder)
        /\ \A x \in Elements(received'[w]), y \in Elements(inbox'[w]) :
              <<x, y>> \in MessageOrder
        /\ Seen(w)' \subseteq Seen(w)

\* What thins keeps its order.
LEMMA ThinsKeeps ==
    ASSUME FlowInv, [Next]_vars, MailboxThins, WireThins, SeenThins
    PROVE  FlowInv'
<1>1. TypeInv'
  BY NextType DEF FlowInv
<1>2. QueuesInOrder' /\ ToldAtHome'
  BY DEF FlowInv, MailboxThins, WireThins, SeenThins, QueuesInOrder, ToldAtHome
<1>3. published \in Nat /\ published' \in Nat /\ published =< published'
  BY PublishedGrows DEF FlowInv
<1>4. /\ \A n \in Nodes : Waiting(n) \subseteq Message /\ Waiting(n)' \subseteq Waiting(n)
      /\ \A n, k \in Nodes : Told(n, k) \subseteq Message /\ Told(n, k)' \subseteq Told(n, k)
      /\ \A w \in Writers : Seen(w) \subseteq Message /\ Seen(w)' \subseteq Seen(w)
  BY StagesTyped DEF FlowInv, MailboxThins, WireThins, SeenThins, Told
<1>5. \A m \in Message : m.id \in Nat /\ m.node \in Nodes
  BY DEF Message
<1>6. StagesInOrder'
  <2>1. \A n \in Nodes : \A m \in Waiting(n)' : m.node = n /\ m.id =< published'
    BY <1>3, <1>4, <1>5 DEF FlowInv, StagesInOrder
  <2>2. \A n, k \in Nodes : \A m \in Told(n, k)' :
            /\ m.node = n /\ n # k /\ m.id =< published'
            /\ \A l \in Waiting(n)' : m.id < l.id
    BY <1>3, <1>4, <1>5 DEF FlowInv, StagesInOrder
  <2>3. \A w \in Writers : \A m \in Seen(w)' :
            /\ m.id =< published'
            /\ \A l \in Waiting(m.node)' \cup Told(m.node, Home[w])' : m.id < l.id
    BY <1>3, <1>4, <1>5, RouterAssumption DEF FlowInv, StagesInOrder
  <2>4. QED
    BY <2>1, <2>2, <2>3 DEF StagesInOrder
<1>7. QED
  BY <1>1, <1>2, <1>6 DEF FlowInv

\* Nothing thins out what does not change.
LEMMA NothingThins ==
    ASSUME FlowInv
    PROVE  /\ UNCHANGED mailbox => MailboxThins
           /\ UNCHANGED wire => WireThins
           /\ UNCHANGED <<inbox, received>> => SeenThins
<1>1. UNCHANGED mailbox => MailboxThins
  BY DEF FlowInv, QueuesInOrder, MailboxThins, Waiting
<1>2. UNCHANGED wire => WireThins
  BY DEF FlowInv, QueuesInOrder, WireThins, ToldPackets
<1>3. UNCHANGED <<inbox, received>> => SeenThins
  BY DEF FlowInv, QueuesInOrder, SeenThins, Seen
<1>4. QED
  BY <1>1, <1>2, <1>3

\* A parcel without a message precedes and follows any other.
LEMMA SilentParcels ==
    ASSUME NEW x \in Parcel, ~Carries(x), NEW y \in Parcel
    PROVE  <<x, y>> \in ParcelOrder /\ <<y, x>> \in ParcelOrder
BY DEF ParcelOrder

\* Announcements, and no messages, may be added to a queue in order.
LEMMA AnnouncedOrder ==
    ASSUME NEW q \in Seq(Parcel), InOrder(q, ParcelOrder), NEW r \in Seq(SubEnvelope)
    PROVE  /\ InOrder(q \o r, ParcelOrder)
           /\ \A x \in Elements(q \o r) : Carries(x) => x \in Elements(q)
<1>1. r \in Seq(Parcel)
  BY SeqMonotonic DEF Parcel, Envelope
<1>2. /\ Elements(q) \subseteq Parcel /\ Elements(r) \subseteq SubEnvelope
      /\ Elements(r) \subseteq Parcel
  BY <1>1, ElementsType
<1>3. \A x \in Elements(r) : ~Carries(x)
  BY <1>2 DEF SubEnvelope, Carries
<1>4. InOrder(r, ParcelOrder)
  BY <1>2, <1>3, SilentParcels DEF InOrder, Elements
<1>5. \A x \in Elements(q), y \in Elements(r) : <<x, y>> \in ParcelOrder
  BY <1>2, <1>3, SilentParcels
<1>6. InOrder(q \o r, ParcelOrder)
  BY <1>1, <1>4, <1>5, OrderConcat
<1>7. QED
  BY <1>1, <1>3, <1>6, ElementsConcat

\* Telling a router something that is no message.
LEMMA SilentTellThins ==
    ASSUME FlowInv, NEW k \in Nodes, NEW env \in Envelope, ~Carries(env), Tell(k, env)
    PROVE  MailboxThins
<1> SUFFICES ASSUME NEW n \in Nodes
             PROVE  /\ InOrder(mailbox'[n], ParcelOrder)
                    /\ Waiting(n)' \subseteq Waiting(n)
  BY DEF MailboxThins
<1>1. /\ mailbox[n] \in Seq(Envelope) /\ InOrder(mailbox[n], ParcelOrder)
      /\ Elements(mailbox[n]) \subseteq Parcel
  BY ElementsType DEF FlowInv, TypeInv, TypeOK, QueuesInOrder, Parcel
<1>2. mailbox'[n] = mailbox[n] \/ mailbox'[n] = Append(mailbox[n], env)
  BY DEF Tell, FlowInv, TypeInv, TypeOK
<1>3. CASE mailbox'[n] = mailbox[n]
  BY <1>1, <1>3 DEF Waiting
<1>4. CASE mailbox'[n] = Append(mailbox[n], env)
  <2>1. InOrder(mailbox'[n], ParcelOrder)
    BY <1>1, <1>4, OrderAppend, SilentParcels DEF Parcel
  <2>2. Elements(mailbox'[n]) = Elements(mailbox[n]) \cup {env}
    BY <1>1, <1>4, ElementsAppend
  <2>3. QED
    BY <2>1, <2>2 DEF Waiting, Carries
<1>5. QED
  BY <1>2, <1>3, <1>4

\* Taking the head of a mailbox, and announcing to it, brings no message.
LEMMA TakingThins ==
    ASSUME FlowInv, NEW k \in Nodes, mailbox[k] # <<>>, NEW told \in Seq(SubEnvelope),
           mailbox' = [mailbox EXCEPT ![k] = Tail(mailbox[k]) \o told]
    PROVE  MailboxThins
<1> SUFFICES ASSUME NEW n \in Nodes
             PROVE  /\ InOrder(mailbox'[n], ParcelOrder)
                    /\ Waiting(n)' \subseteq Waiting(n)
  BY DEF MailboxThins
<1>1. mailbox[n] \in Seq(Envelope) /\ InOrder(mailbox[n], ParcelOrder)
  BY DEF FlowInv, TypeInv, TypeOK, QueuesInOrder
<1>2. CASE n # k
  <2>1. mailbox'[n] = mailbox[n]
    BY <1>2 DEF FlowInv, TypeInv, TypeOK
  <2>2. QED
    BY <1>1, <2>1 DEF Waiting
<1>3. CASE n = k
  <2>1. mailbox'[n] = Tail(mailbox[n]) \o told
    BY <1>3 DEF FlowInv, TypeInv, TypeOK
  <2>2. /\ InOrder(Tail(mailbox[n]), ParcelOrder)
        /\ Elements(Tail(mailbox[n])) \subseteq Elements(mailbox[n])
    BY <1>1, <1>3, OrderTail, ElementsHeadTail
  <2>3. Tail(mailbox[n]) \in Seq(Parcel)
    BY <1>1, <1>3, HeadTailProperties, SeqMonotonic DEF Parcel
  <2>4. QED
    BY <2>1, <2>2, <2>3, AnnouncedOrder DEF Waiting, Carries
<1>4. QED
  BY <1>2, <1>3

\* The wires whose one queue loses its head, or all.
LEMMA WireTakenThins ==
    ASSUME FlowInv, NEW a \in Nodes, NEW b \in Nodes, NEW q,
           wire' = [wire EXCEPT ![a][b] = q],
           q = <<>> \/ (wire[a][b] # <<>> /\ q = Tail(wire[a][b]))
    PROVE  WireThins
<1> SUFFICES ASSUME NEW n \in Nodes, NEW k \in Nodes
             PROVE  /\ InOrder(wire'[n][k], ParcelOrder)
                    /\ ToldPackets(n, k)' \subseteq ToldPackets(n, k)
  BY DEF WireThins
<1>1. /\ wire \in [Nodes -> [Nodes -> Seq(Packet)]]
      /\ wire[n][k] \in Seq(Packet) /\ InOrder(wire[n][k], ParcelOrder)
  BY DEF FlowInv, TypeInv, TypeOK, QueuesInOrder
<1>2. CASE n = a /\ k = b
  <2>1. wire'[n][k] = q
    BY <1>1, <1>2
  <2>2. CASE q = <<>>
    BY <2>1, <2>2, ElementsEmpty DEF InOrder, ToldPackets
  <2>3. CASE wire[a][b] # <<>> /\ q = Tail(wire[a][b])
    <3>1. InOrder(q, ParcelOrder) /\ Elements(q) \subseteq Elements(wire[n][k])
      BY <1>1, <1>2, <2>3, OrderTail, ElementsHeadTail
    <3>2. QED
      BY <2>1, <3>1 DEF ToldPackets
  <2>4. QED
    BY <2>2, <2>3
<1>3. CASE ~(n = a /\ k = b)
  <2>1. wire'[n][k] = wire[n][k]
    BY <1>1, <1>3
  <2>2. QED
    BY <1>1, <2>1 DEF ToldPackets
<1>4. QED
  BY <1>2, <1>3

\* The messages of an observer move on in order (OnNext), or are dropped when it stops.
LEMMA ObserverThins ==
    ASSUME FlowInv, NEW v \in Writers, OnNext(v) \/ ObserverStops(v)
    PROVE  SeenThins
<1> SUFFICES ASSUME NEW w \in Writers
             PROVE  /\ InOrder(inbox'[w], MessageOrder) /\ InOrder(received'[w], MessageOrder)
                    /\ \A x \in Elements(received'[w]), y \in Elements(inbox'[w]) :
                          <<x, y>> \in MessageOrder
                    /\ Seen(w)' \subseteq Seen(w)
  BY DEF SeenThins
<1>1. /\ inbox \in [Writers -> Seq(Message)] /\ received \in [Writers -> Seq(Message)]
      /\ inbox[w] \in Seq(Message) /\ received[w] \in Seq(Message)
      /\ InOrder(inbox[w], MessageOrder) /\ InOrder(received[w], MessageOrder)
      /\ \A x \in Elements(received[w]), y \in Elements(inbox[w]) : <<x, y>> \in MessageOrder
  BY DEF FlowInv, TypeInv, TypeOK, QueuesInOrder
<1>2. CASE v # w
  <2>1. inbox'[w] = inbox[w] /\ received'[w] = received[w]
    BY <1>1, <1>2 DEF OnNext, ObserverStops
  <2>2. QED
    BY <1>1, <2>1 DEF Seen
<1>3. CASE v = w /\ OnNext(w)
  <2>1. /\ inbox[w] # <<>> /\ inbox'[w] = Tail(inbox[w])
        /\ received'[w] = Append(received[w], Head(inbox[w]))
    BY <1>1, <1>3 DEF OnNext
  <2>2. /\ InOrder(inbox'[w], MessageOrder)
        /\ \A y \in Elements(inbox'[w]) : <<Head(inbox[w]), y>> \in MessageOrder
        /\ Head(inbox[w]) \in Elements(inbox[w])
        /\ Elements(inbox'[w]) \subseteq Elements(inbox[w])
    BY <1>1, <2>1, OrderTail, ElementsHeadTail
  <2>3. InOrder(received'[w], MessageOrder)
    BY <1>1, <2>1, <2>2, OrderAppend
  <2>4. Elements(received'[w]) = Elements(received[w]) \cup {Head(inbox[w])}
    BY <1>1, <2>1, ElementsAppend
  <2>5. QED
    BY <1>1, <2>2, <2>3, <2>4 DEF Seen
<1>4. CASE v = w /\ ObserverStops(w)
  <2>1. inbox'[w] = <<>> /\ received'[w] = received[w]
    BY <1>1, <1>4 DEF ObserverStops
  <2>2. QED
    BY <1>1, <2>1, ElementsEmpty DEF Seen, InOrder
<1>5. QED
  BY <1>2, <1>3, <1>4

\* HandleTopology announces subscriptions behind what was told.
LEMMA TopologyThins ==
    ASSUME FlowInv, NEW a \in Nodes, HandleTopology(a)
    PROVE  MailboxThins /\ WireThins /\ SeenThins
<1> DEFINE alive == Head(mailbox[a]).alive
<1>1. PICK q \in Orders(db[a]) :
        /\ mailbox' = [mailbox EXCEPT ![a] =
                          Tail(mailbox[a]) \o (IF a \in alive THEN Announce(q) ELSE <<>>)]
        /\ wire' = [wire EXCEPT ![a] = [k \in Nodes |->
                        IF k \in alive \ {a} THEN wire[a][k] \o Announce(q)
                                             ELSE wire[a][k]]]
  BY DEF HandleTopology
<1>2. Announce(q) \in Seq(SubEnvelope) /\ <<>> \in Seq(SubEnvelope)
  BY AnnounceType, EmptySeq DEF FlowInv, TypeInv, TypeOK
<1>3. MailboxThins
  <2>1. mailbox[a] # <<>>
    BY DEF HandleTopology, Heads
  <2> DEFINE told == IF a \in alive THEN Announce(q) ELSE <<>>
  <2>2. told \in Seq(SubEnvelope)
    BY <1>2
  <2> HIDE DEF told
  <2>3. mailbox' = [mailbox EXCEPT ![a] = Tail(mailbox[a]) \o told]
    BY <1>1 DEF told
  <2>4. QED
    BY <2>1, <2>2, <2>3, TakingThins
<1>4. WireThins
  <2> SUFFICES ASSUME NEW n \in Nodes, NEW k \in Nodes
               PROVE  /\ InOrder(wire'[n][k], ParcelOrder)
                      /\ ToldPackets(n, k)' \subseteq ToldPackets(n, k)
    BY DEF WireThins
  <2>1. /\ wire \in [Nodes -> [Nodes -> Seq(Packet)]]
        /\ wire[n][k] \in Seq(Packet) /\ InOrder(wire[n][k], ParcelOrder)
    BY DEF FlowInv, TypeInv, TypeOK, QueuesInOrder
  <2>2. wire[n][k] \in Seq(Parcel)
    BY <2>1, SeqMonotonic DEF Parcel
  <2>3. wire'[n][k] = wire[n][k] \/ wire'[n][k] = wire[n][k] \o Announce(q)
    <3> HIDE DEF alive
    <3>1. QED
      BY <1>1, <2>1
  <2>4. CASE wire'[n][k] = wire[n][k]
    BY <2>1, <2>4 DEF ToldPackets
  <2>5. CASE wire'[n][k] = wire[n][k] \o Announce(q)
    BY <1>2, <2>1, <2>2, <2>5, AnnouncedOrder DEF ToldPackets, Carries
  <2>6. QED
    BY <2>3, <2>4, <2>5
<1>5. SeenThins
  BY NothingThins DEF HandleTopology, observerVars
<1>6. QED
  BY <1>3, <1>4, <1>5

\* A message published is the last of its node.
LEMMA PublishKeepsOrder ==
    ASSUME FlowInv, [Next]_vars, NEW a \in Nodes, NEW t \in Topics, Publish(a, t)
    PROVE  FlowInv'
<1> DEFINE m == [id |-> published + 1, topic |-> t, node |-> a]
           env == [kind |-> "msg", msg |-> m]
<1>1. TypeInv' /\ TypeInv
  BY NextType DEF FlowInv
<1>2. Tell(a, env) /\ UNCHANGED <<inbox, received, wire>> /\ published' = published + 1
  BY DEF Publish, observerVars
<1>3. published \in Nat /\ published' \in Nat
  BY PublishedGrows DEF FlowInv
<1>4. m \in Message
  BY <1>3, RouterAssumption DEF Publish, Message
<1>5. env \in Parcel /\ env.msg = m /\ env.kind = "msg" /\ Carries(env)
  BY <1>4 DEF Parcel, Envelope, MsgEnvelope, Carries
<1>6. m.id = published + 1 /\ m.node = a
  OBVIOUS
<1> HIDE DEF m, env
<1>7. \A l \in Message : l.id \in Nat /\ l.node \in Nodes
  BY DEF Message
<1>8. ASSUME NEW n \in Nodes
      PROVE  /\ InOrder(mailbox'[n], ParcelOrder)
             /\ Waiting(n)' \subseteq Waiting(n) \cup (IF n = a THEN {m} ELSE {})
  <2>1. /\ mailbox[n] \in Seq(Envelope) /\ InOrder(mailbox[n], ParcelOrder)
        /\ Elements(mailbox[n]) \subseteq Envelope
    BY ElementsType DEF FlowInv, TypeInv, TypeOK, QueuesInOrder
  <2>2. mailbox'[n] = mailbox[n] \/ (n = a /\ mailbox'[n] = Append(mailbox[n], env))
    BY <1>2 DEF Tell, FlowInv, TypeInv, TypeOK
  <2>3. CASE mailbox'[n] = mailbox[n]
    BY <2>1, <2>3 DEF Waiting
  <2>4. CASE n = a /\ mailbox'[n] = Append(mailbox[n], env)
    <3>1. ASSUME NEW y \in Elements(mailbox[n])
          PROVE  <<y, env>> \in ParcelOrder
      <4>1. y \in Parcel
        BY <2>1 DEF Parcel
      <4>2. CASE ~Carries(y)
        BY <1>5, <4>1, <4>2, SilentParcels
      <4>3. CASE Carries(y)
        <5>1. y.kind = "msg"
          BY <2>1, <4>3 DEF Carries, Envelope, SubEnvelope, MsgEnvelope, TopologyEnvelope
        <5>2. y.msg \in Waiting(n)
          BY <5>1 DEF Waiting
        <5>3. y.msg \in Message /\ y.msg.id =< published
          BY <1>1, <5>2, StagesTyped DEF FlowInv, StagesInOrder
        <5>4. y.msg.id < env.msg.id
          BY <1>3, <1>5, <1>6, <1>7, <5>3
        <5>5. QED
          BY <1>5, <4>1, <5>4 DEF ParcelOrder
      <4>4. QED
        BY <4>2, <4>3
    <3>2. InOrder(mailbox'[n], ParcelOrder)
      BY <2>1, <2>4, <3>1, OrderAppend
    <3>3. Elements(mailbox'[n]) = Elements(mailbox[n]) \cup {env}
      BY <2>1, <2>4, ElementsAppend
    <3>4. QED
      BY <1>5, <2>4, <3>2, <3>3 DEF Waiting
  <2>5. QED
    BY <2>2, <2>3, <2>4
<1>9. QueuesInOrder' /\ ToldAtHome'
  BY <1>2, <1>8 DEF FlowInv, QueuesInOrder, ToldAtHome, ToldPackets
<1>10. /\ \A n, k \in Nodes : Told(n, k)' = Told(n, k)
       /\ \A w \in Writers : Seen(w)' = Seen(w)
  BY <1>2 DEF Told, ToldPackets, Seen
<1>11. /\ \A n \in Nodes : Waiting(n) \subseteq Message
       /\ \A n, k \in Nodes : Told(n, k) \subseteq Message
       /\ \A w \in Writers : Seen(w) \subseteq Message
  BY <1>1, StagesTyped
<1>12. \A i \in Nat : i =< published => i =< published' /\ i < m.id
  BY <1>2, <1>3, <1>6
<1>13. \A n \in Nodes : \A l \in Waiting(n)' : l.node = n /\ l.id =< published'
  BY <1>2, <1>3, <1>6, <1>7, <1>8, <1>11, <1>12 DEF FlowInv, StagesInOrder
<1>14. ASSUME NEW n \in Nodes, NEW k \in Nodes, NEW l \in Told(n, k)
       PROVE  /\ l.node = n /\ n # k /\ l.id =< published'
              /\ \A x \in Waiting(n)' : l.id < x.id
  <2>1. /\ l.node = n /\ n # k /\ l.id =< published /\ l.id \in Nat
        /\ \A x \in Waiting(n) : l.id < x.id
    BY <1>7, <1>11 DEF FlowInv, StagesInOrder
  <2>2. QED
    BY <1>8, <1>12, <2>1
<1>15. ASSUME NEW w \in Writers, NEW l \in Seen(w)
       PROVE  /\ l.id =< published'
              /\ \A x \in Waiting(l.node)' \cup Told(l.node, Home[w])' : l.id < x.id
  <2>1. /\ l.id =< published /\ l.id \in Nat /\ l.node \in Nodes /\ Home[w] \in Nodes
        /\ \A x \in Waiting(l.node) \cup Told(l.node, Home[w]) : l.id < x.id
    BY <1>7, <1>11, RouterAssumption DEF FlowInv, StagesInOrder
  <2>2. QED
    BY <1>8, <1>10, <1>12, <2>1
<1>16. StagesInOrder'
  BY <1>10, <1>13, <1>14, <1>15 DEF StagesInOrder
<1>17. QED
  BY <1>1, <1>9, <1>16 DEF FlowInv

\* A message that comes to an observer after all it has seen of the message's node
\* keeps its inbox in order.
LEMMA ComesLast ==
    ASSUME FlowInv, NEW w \in Writers, NEW m \in Message,
           \A x \in Seen(w) : x.node = m.node => x.id < m.id,
           inbox'[w] = Append(inbox[w], m), received'[w] = received[w]
    PROVE  /\ InOrder(inbox'[w], MessageOrder) /\ InOrder(received'[w], MessageOrder)
           /\ \A x \in Elements(received'[w]), y \in Elements(inbox'[w]) :
                 <<x, y>> \in MessageOrder
           /\ Seen(w)' = Seen(w) \cup {m}
<1>1. /\ inbox[w] \in Seq(Message) /\ received[w] \in Seq(Message)
      /\ InOrder(inbox[w], MessageOrder) /\ InOrder(received[w], MessageOrder)
      /\ \A x \in Elements(received[w]), y \in Elements(inbox[w]) : <<x, y>> \in MessageOrder
  BY DEF FlowInv, TypeInv, TypeOK, QueuesInOrder
<1>2. \A x \in Seen(w) : <<x, m>> \in MessageOrder
  BY StagesTyped DEF FlowInv, MessageOrder
<1>3. Elements(inbox'[w]) = Elements(inbox[w]) \cup {m}
  BY <1>1, ElementsAppend
<1>4. InOrder(inbox'[w], MessageOrder)
  BY <1>1, <1>2, OrderAppend DEF Seen
<1>5. QED
  BY <1>1, <1>2, <1>3, <1>4 DEF Seen

\* HandleMessage tells what comes first: it goes behind all that was told before, and in
\* front of all that waits.
LEMMA HandleMessageKeepsOrder ==
    ASSUME FlowInv, [Next]_vars, NEW a \in Nodes, HandleMessage(a)
    PROVE  FlowInv'
<1> DEFINE m == Head(mailbox[a]).msg
<1>1. TypeInv' /\ TypeInv
  BY NextType DEF FlowInv
<1>2. PICK to : /\ Dispatch(a, m, to)
                /\ mailbox' = [mailbox EXCEPT ![a] = Tail(mailbox[a])]
                /\ mailbox[a] # <<>> /\ Head(mailbox[a]).kind = "msg"
                /\ UNCHANGED <<received, published>>
  BY DEF HandleMessage, Heads, Consume, counters
<1>3. mailbox[a] \in Seq(Envelope) /\ InOrder(mailbox[a], ParcelOrder)
  BY DEF FlowInv, TypeInv, TypeOK, QueuesInOrder
<1>4. /\ m \in Waiting(a) /\ m \in Message
      /\ \A l \in Waiting(a)' : m.id < l.id
  <2>1. /\ Head(mailbox[a]) \in Elements(mailbox[a])
        /\ \A x \in Elements(Tail(mailbox[a])) : <<Head(mailbox[a]), x>> \in ParcelOrder
    BY <1>2, <1>3, ElementsHeadTail, OrderTail
  <2>2. m \in Waiting(a)
    BY <1>2, <2>1 DEF Waiting
  <2>3. mailbox'[a] = Tail(mailbox[a])
    BY <1>2 DEF FlowInv, TypeInv, TypeOK
  <2>4. ASSUME NEW l \in Waiting(a)'  PROVE m.id < l.id
    <3>1. PICK x \in Elements(mailbox'[a]) : x.kind = "msg" /\ l = x.msg
      BY DEF Waiting
    <3>2. <<Head(mailbox[a]), x>> \in ParcelOrder
      BY <2>1, <2>3, <3>1
    <3>3. QED
      BY <1>2, <3>1, <3>2 DEF ParcelOrder, Carries
  <2>5. QED
    BY <1>1, <2>2, <2>4, StagesTyped
<1>5. MailboxThins
  <2>1. <<>> \in Seq(SubEnvelope) /\ Tail(mailbox[a]) \o <<>> = Tail(mailbox[a])
    BY <1>2, <1>3, HeadTailProperties, ConcatEmptySeq, EmptySeq
  <2>2. QED
    BY <1>2, <2>1, TakingThins
<1> DEFINE packet(k) == [kind |-> "told", to |-> to \cap At(k), msg |-> m]
<1>6. /\ \A n, k \in Nodes : wire'[n][k] = wire[n][k]
                              \/ (n = a /\ k # a /\ wire'[n][k] = Append(wire[n][k], packet(k)))
      /\ \A w \in Writers : inbox'[w] = inbox[w]
                            \/ (Home[w] = a /\ inbox'[w] = Append(inbox[w], m))
  <2> HIDE DEF m
  <2>1. QED
    BY <1>2 DEF Dispatch, At, FlowInv, TypeInv, TypeOK
<1> HIDE DEF m
<1>7. \A k \in Nodes : /\ packet(k).msg = m /\ packet(k).kind = "told"
                       /\ packet(k).to \subseteq At(k)
  OBVIOUS
<1>8. wire' \in [Nodes -> [Nodes -> Seq(Packet)]]
  BY <1>1 DEF TypeInv, TypeOK
<1> HIDE DEF packet
<1>9. \A l \in Message : l.id \in Nat /\ l.node \in Nodes
  BY DEF Message
<1>10. m.node = a /\ m.id =< published /\ m.id \in Nat
  BY <1>4, <1>9 DEF FlowInv, StagesInOrder
<1>11. ASSUME NEW n \in Nodes, NEW k \in Nodes
       PROVE  /\ InOrder(wire'[n][k], ParcelOrder)
              /\ \A x \in ToldPackets(n, k)' :
                    \/ x \in ToldPackets(n, k)
                    \/ n = a /\ k # a /\ x = packet(k)
  <2>1. /\ wire[n][k] \in Seq(Packet) /\ InOrder(wire[n][k], ParcelOrder)
        /\ Elements(wire[n][k]) \subseteq Packet
    BY ElementsType DEF FlowInv, TypeInv, TypeOK, QueuesInOrder
  <2>2. CASE wire'[n][k] = wire[n][k]
    BY <2>1, <2>2 DEF ToldPackets
  <2>3. CASE n = a /\ k # a /\ wire'[n][k] = Append(wire[n][k], packet(k))
    <3>1. Elements(wire'[n][k]) = Elements(wire[n][k]) \cup {packet(k)}
      BY <2>1, <2>3, ElementsAppend
    <3>2. packet(k) \in Packet
      <4>1. Elements(wire'[n][k]) \subseteq Packet
        BY <1>8, ElementsType
      <4>2. QED
        BY <3>1, <4>1
    <3>3. ASSUME NEW y \in Elements(wire[n][k])
          PROVE  <<y, packet(k)>> \in ParcelOrder
      <4>1. y \in Parcel /\ packet(k) \in Parcel
        BY <2>1, <3>2 DEF Parcel
      <4>2. CASE ~Carries(y)
        BY <4>1, <4>2, SilentParcels
      <4>3. CASE Carries(y)
        <5>1. y.kind = "told"
          BY <2>1, <4>3 DEF Carries, Packet, SubEnvelope
        <5>2. y.msg \in Told(n, k)
          BY <5>1 DEF Told, ToldPackets
        <5>3. y.msg.id < packet(k).msg.id
          BY <1>4, <1>7, <2>3, <5>2 DEF FlowInv, StagesInOrder
        <5>4. QED
          BY <4>1, <5>3 DEF ParcelOrder
      <4>4. QED
        BY <4>2, <4>3
    <3>4. InOrder(wire'[n][k], ParcelOrder)
      BY <2>1, <2>3, <3>3, OrderAppend
    <3>5. QED
      BY <2>3, <3>1, <3>4 DEF ToldPackets
  <2>4. QED
    BY <1>6, <2>2, <2>3
<1>12. \A n, k \in Nodes : \A l \in Told(n, k)' :
           l \in Told(n, k) \/ (n = a /\ k # a /\ l = m)
  BY <1>7, <1>11 DEF Told
<1>13. ASSUME NEW w \in Writers
       PROVE  /\ InOrder(inbox'[w], MessageOrder) /\ InOrder(received'[w], MessageOrder)
              /\ \A x \in Elements(received'[w]), y \in Elements(inbox'[w]) :
                    <<x, y>> \in MessageOrder
              /\ \A x \in Seen(w)' : x \in Seen(w) \/ (Home[w] = a /\ x = m)
  <2>1. CASE inbox'[w] = inbox[w]
    BY <1>2, <2>1 DEF FlowInv, QueuesInOrder, Seen
  <2>2. CASE Home[w] = a /\ inbox'[w] = Append(inbox[w], m)
    <3>1. \A x \in Seen(w) : x.node = m.node => x.id < m.id
      BY <1>4, <1>10 DEF FlowInv, StagesInOrder
    <3>2. received'[w] = received[w]
      BY <1>2
    <3>3. QED
      BY <1>4, <2>2, <3>1, <3>2, ComesLast
  <2>3. QED
    BY <1>6, <2>1, <2>2
<1>14. QueuesInOrder'
  BY <1>5, <1>11, <1>13 DEF QueuesInOrder, MailboxThins
<1>15. ToldAtHome'
  BY <1>7, <1>11 DEF FlowInv, ToldAtHome
<1>16. /\ \A n \in Nodes : Waiting(n) \subseteq Message /\ Waiting(n)' \subseteq Waiting(n)
       /\ \A n, k \in Nodes : Told(n, k) \subseteq Message
       /\ \A w \in Writers : Seen(w) \subseteq Message
  BY <1>1, <1>5, StagesTyped DEF MailboxThins
<1>17. \A n \in Nodes : \A l \in Waiting(n)' : l.node = n /\ l.id =< published'
  BY <1>2, <1>16 DEF FlowInv, StagesInOrder
<1>18. ASSUME NEW n \in Nodes, NEW k \in Nodes, NEW l \in Told(n, k)'
       PROVE  /\ l.node = n /\ n # k /\ l.id =< published'
              /\ \A x \in Waiting(n)' : l.id < x.id
  <2>1. CASE l \in Told(n, k)
    BY <1>2, <1>16, <2>1 DEF FlowInv, StagesInOrder
  <2>2. CASE n = a /\ k # a /\ l = m
    BY <1>2, <1>4, <1>10, <2>2
  <2>3. QED
    BY <1>12, <2>1, <2>2
<1>19. ASSUME NEW w \in Writers, NEW l \in Seen(w)'
       PROVE  /\ l.id =< published'
              /\ \A x \in Waiting(l.node)' \cup Told(l.node, Home[w])' : l.id < x.id
  <2>1. Home[w] \in Nodes
    BY RouterAssumption
  <2>2. CASE l \in Seen(w)
    <3>1. /\ l.id =< published /\ l.node \in Nodes
          /\ \A x \in Waiting(l.node) \cup Told(l.node, Home[w]) : l.id < x.id
      BY <1>9, <1>16, <2>2 DEF FlowInv, StagesInOrder
    <3>2. l.node = a => l.id < m.id
      BY <1>4, <3>1
    <3>3. QED
      BY <1>2, <1>12, <1>16, <2>1, <3>1, <3>2
  <2>3. CASE Home[w] = a /\ l = m
    <3>1. \A x \in Told(a, a)' : FALSE
      BY <1>12 DEF FlowInv, StagesInOrder
    <3>2. QED
      BY <1>2, <1>4, <1>10, <2>3, <3>1
  <2>4. QED
    BY <1>13, <2>2, <2>3
<1>20. StagesInOrder'
  BY <1>17, <1>18, <1>19 DEF StagesInOrder
<1>21. QED
  BY <1>1, <1>14, <1>15, <1>20 DEF FlowInv

\* DeliverTold hands a message over behind all that came from its node, and in front of
\* what is still on the wire.
LEMMA DeliverToldKeepsOrder ==
    ASSUME FlowInv, [Next]_vars, NEW a \in Nodes, NEW b \in Nodes, DeliverTold(a, b)
    PROVE  FlowInv'
<1> DEFINE p == Head(wire[a][b])
           m == p.msg
<1>1. TypeInv' /\ TypeInv
  BY NextType DEF FlowInv
<1>2. /\ wire[a][b] # <<>> /\ p.kind = "told"
      /\ wire' = [wire EXCEPT ![a][b] = Tail(wire[a][b])]
      /\ inbox' = [w \in Writers |-> IF w \in p.to /\ Live(w) THEN Append(inbox[w], m)
                                                            ELSE inbox[w]]
      /\ UNCHANGED <<mailbox, received, published>>
  BY DEF DeliverTold, counters
<1>3. /\ wire[a][b] \in Seq(Packet) /\ InOrder(wire[a][b], ParcelOrder)
      /\ wire \in [Nodes -> [Nodes -> Seq(Packet)]]
  BY DEF FlowInv, TypeInv, TypeOK, QueuesInOrder
<1>4. /\ p \in ToldPackets(a, b)
      /\ \A x \in Elements(Tail(wire[a][b])) : <<p, x>> \in ParcelOrder
  BY <1>2, <1>3, ElementsHeadTail, OrderTail DEF ToldPackets
<1>5. m \in Told(a, b) /\ m \in Message /\ p.to \subseteq At(b)
  <2>1. m \in Told(a, b)
    BY <1>4 DEF Told
  <2>2. QED
    BY <1>1, <1>4, <2>1, StagesTyped DEF FlowInv, ToldAtHome
<1>6. \A l \in Told(a, b)' : m.id < l.id
  <2> SUFFICES ASSUME NEW l \in Told(a, b)'  PROVE m.id < l.id
    OBVIOUS
  <2>1. wire'[a][b] = Tail(wire[a][b])
    BY <1>2, <1>3
  <2>2. PICK x \in Elements(wire'[a][b]) : x.kind = "told" /\ l = x.msg
    BY DEF Told, ToldPackets
  <2>3. <<p, x>> \in ParcelOrder
    BY <1>4, <2>1, <2>2
  <2>4. QED
    BY <1>2, <2>2, <2>3 DEF ParcelOrder, Carries
<1>7. \A w \in Writers : inbox'[w] = inbox[w]
                       \/ (Home[w] = b /\ inbox'[w] = Append(inbox[w], m))
  <2> HIDE DEF p
  <2>1. QED
    BY <1>2, <1>5 DEF At
<1> HIDE DEF m, p
<1>8. MailboxThins /\ WireThins
  BY <1>2, NothingThins, WireTakenThins
<1>9. \A l \in Message : l.id \in Nat /\ l.node \in Nodes
  BY DEF Message
<1>10. /\ m.node = a /\ a # b /\ m.id =< published /\ m.id \in Nat
       /\ \A l \in Waiting(a) : m.id < l.id
  BY <1>5, <1>9 DEF FlowInv, StagesInOrder
<1>11. ASSUME NEW w \in Writers
       PROVE  /\ InOrder(inbox'[w], MessageOrder) /\ InOrder(received'[w], MessageOrder)
              /\ \A x \in Elements(received'[w]), y \in Elements(inbox'[w]) :
                    <<x, y>> \in MessageOrder
              /\ \A x \in Seen(w)' : x \in Seen(w) \/ (Home[w] = b /\ x = m)
  <2>1. CASE inbox'[w] = inbox[w]
    BY <1>2, <2>1 DEF FlowInv, QueuesInOrder, Seen
  <2>2. CASE Home[w] = b /\ inbox'[w] = Append(inbox[w], m)
    <3>1. \A x \in Seen(w) : x.node = m.node => x.id < m.id
      BY <1>5, <1>10, <2>2 DEF FlowInv, StagesInOrder
    <3>2. received'[w] = received[w]
      BY <1>2
    <3>3. QED
      BY <1>5, <2>2, <3>1, <3>2, ComesLast
  <2>3. QED
    BY <1>7, <2>1, <2>2
<1>12. QueuesInOrder' /\ ToldAtHome'
  BY <1>8, <1>11 DEF FlowInv, QueuesInOrder, ToldAtHome, MailboxThins, WireThins
<1>13. /\ \A n \in Nodes : Waiting(n) \subseteq Message /\ Waiting(n)' \subseteq Waiting(n)
       /\ \A n, k \in Nodes : Told(n, k) \subseteq Message /\ Told(n, k)' \subseteq Told(n, k)
       /\ \A w \in Writers : Seen(w) \subseteq Message
  BY <1>1, <1>8, StagesTyped DEF MailboxThins, WireThins, Told
<1>14. /\ \A n \in Nodes : \A l \in Waiting(n)' : l.node = n /\ l.id =< published'
       /\ \A n, k \in Nodes : \A l \in Told(n, k)' :
             /\ l.node = n /\ n # k /\ l.id =< published'
             /\ \A x \in Waiting(n)' : l.id < x.id
  BY <1>2, <1>13 DEF FlowInv, StagesInOrder
<1>15. ASSUME NEW w \in Writers, NEW l \in Seen(w)'
       PROVE  /\ l.id =< published'
              /\ \A x \in Waiting(l.node)' \cup Told(l.node, Home[w])' : l.id < x.id
  <2>1. CASE l \in Seen(w)
    <3>1. /\ l.id =< published /\ l.node \in Nodes /\ Home[w] \in Nodes
          /\ \A x \in Waiting(l.node) \cup Told(l.node, Home[w]) : l.id < x.id
      BY <1>9, <1>13, <2>1, RouterAssumption DEF FlowInv, StagesInOrder
    <3>2. QED
      BY <1>2, <1>13, <3>1
  <2>2. CASE Home[w] = b /\ l = m
    BY <1>2, <1>6, <1>10, <1>13, <2>2
  <2>3. QED
    BY <1>11, <2>1, <2>2
<1>16. StagesInOrder'
  BY <1>14, <1>15 DEF StagesInOrder
<1>17. QED
  BY <1>1, <1>12, <1>16 DEF FlowInv

\* Steps that bring no message anywhere.
LEMMA SilentSteps ==
    ASSUME FlowInv, [Next]_vars
    PROVE  \/ MailboxThins /\ WireThins /\ SeenThins
           \/ \E n \in Nodes, t \in Topics : Publish(n, t)
           \/ \E n \in Nodes : HandleMessage(n)
           \/ \E n, k \in Nodes : DeliverTold(n, k)
<1> DEFINE Thins == MailboxThins /\ WireThins /\ SeenThins
<1>1. ASSUME NEW w \in Writers, NEW s \in Subscriptions, Observe(w, s)  PROVE Thins
  <2> DEFINE env == [kind |-> "sub", entry |-> ProtoSubscription(w, s)]
  <2>1. Tell(Home[w], env) /\ UNCHANGED <<wire, inbox, received>>
    BY <1>1 DEF Observe
  <2>2. ProtoSubscription(w, s) \in Entry
    BY RouterAssumption DEF ProtoSubscription, Entry
  <2>3. env \in Envelope /\ ~Carries(env)
    BY <2>2 DEF Envelope, SubEnvelope, Carries
  <2> HIDE DEF env
  <2>4. QED
    BY <2>1, <2>3, SilentTellThins, NothingThins, RouterAssumption
<1>2. ASSUME NEW n \in Nodes, NEW alive \in SUBSET Nodes, TopologyChanged(n, alive)
      PROVE  Thins
  <2> DEFINE env == [kind |-> "topology", alive |-> alive]
  <2>1. Tell(n, env) /\ UNCHANGED <<wire, inbox, received>>
    BY <1>2 DEF TopologyChanged, observerVars
  <2>2. env \in Envelope /\ ~Carries(env)
    BY DEF Envelope, TopologyEnvelope, Carries
  <2> HIDE DEF env
  <2>3. QED
    BY <2>1, <2>2, SilentTellThins, NothingThins
<1>3. ASSUME NEW n \in Nodes, StopRouter(n)  PROVE Thins
  <2>1. mailbox' = [mailbox EXCEPT ![n] = <<>>] /\ UNCHANGED <<wire, inbox, received>>
    BY <1>3 DEF StopRouter, observerVars
  <2>2. MailboxThins
    <3> SUFFICES ASSUME NEW k \in Nodes
                 PROVE  /\ InOrder(mailbox'[k], ParcelOrder)
                        /\ Waiting(k)' \subseteq Waiting(k)
      BY DEF MailboxThins
    <3>1. CASE mailbox'[k] = <<>>
      BY <3>1, ElementsEmpty DEF InOrder, Waiting
    <3>2. CASE mailbox'[k] = mailbox[k]
      BY <3>2 DEF FlowInv, QueuesInOrder, Waiting
    <3>3. QED
      BY <2>1, <3>1, <3>2 DEF FlowInv, TypeInv, TypeOK
  <2>3. QED
    BY <2>1, <2>2, NothingThins
<1>4. ASSUME NEW n \in Nodes, HandleSubscription(n)  PROVE Thins
  <2>1. /\ mailbox' = [mailbox EXCEPT ![n] = Tail(mailbox[n])] /\ mailbox[n] # <<>>
        /\ UNCHANGED <<wire, inbox, received>>
    BY <1>4 DEF HandleSubscription, Consume, Heads, observerVars
  <2>2. <<>> \in Seq(SubEnvelope) /\ Tail(mailbox[n]) \o <<>> = Tail(mailbox[n])
    BY <2>1, HeadsType, ConcatEmptySeq, EmptySeq DEF FlowInv
  <2>3. QED
    BY <2>1, <2>2, TakingThins, NothingThins
<1>5. ASSUME NEW n \in Nodes, NEW k \in Nodes, DeliverSub(n, k)  PROVE Thins
  <2>1. /\ wire[n][k] # <<>> /\ Head(wire[n][k]).kind = "sub"
        /\ Tell(k, Head(wire[n][k]))
        /\ wire' = [wire EXCEPT ![n][k] = Tail(wire[n][k])]
        /\ UNCHANGED <<inbox, received>>
    BY <1>5 DEF DeliverSub, observerVars
  <2>2. Head(wire[n][k]) \in Packet
    BY <2>1, HeadTailProperties DEF FlowInv, TypeInv, TypeOK
  <2>3. Head(wire[n][k]) \in Envelope /\ ~Carries(Head(wire[n][k]))
    BY <2>1, <2>2 DEF Packet, Envelope, Carries
  <2>4. QED
    BY <2>1, <2>3, SilentTellThins, WireTakenThins, NothingThins
<1>6. ASSUME NEW n \in Nodes, NEW k \in Nodes, Disconnect(n, k)  PROVE Thins
  <2>1. wire' = [wire EXCEPT ![n][k] = <<>>] /\ UNCHANGED <<mailbox, inbox, received>>
    BY <1>6 DEF Disconnect, observerVars
  <2>2. QED
    BY <2>1, WireTakenThins, NothingThins
<1>7. ASSUME NEW n \in Nodes, NEW w \in Writers, HandleTerminated(n, w)  PROVE Thins
  BY <1>7, NothingThins DEF HandleTerminated, observerVars
<1>8. ASSUME NEW w \in Writers, Unsubscribe(w)  PROVE Thins
  BY <1>8, NothingThins DEF Unsubscribe
<1>9. ASSUME NEW w \in Writers, ObserverStep(w)  PROVE Thins
  BY <1>9, ObserverThins, NothingThins DEF ObserverStep, OnNext, ObserverStops
<1>10. UNCHANGED vars => Thins
  BY NothingThins DEF vars, observerVars
<1>11. \A n \in Nodes : HandleTopology(n) => Thins
  BY TopologyThins
<1> HIDE DEF Thins
<1>12. \/ Thins
       \/ \E n \in Nodes, t \in Topics : Publish(n, t)
       \/ \E n \in Nodes : HandleMessage(n)
       \/ \E n, k \in Nodes : DeliverTold(n, k)
  <2>1. CASE Client
    BY <1>1, <1>3, <1>8, <2>1 DEF Client
  <2>2. ASSUME NEW n \in Nodes, RouterStep(n)  PROVE Thins \/ HandleMessage(n)
    BY <1>4, <1>7, <1>11, <2>2 DEF RouterStep
  <2>3. ASSUME NEW n \in Nodes, NEW k \in Nodes, Delivery(n, k)
        PROVE  Thins \/ DeliverTold(n, k)
    BY <1>5, <2>3 DEF Delivery
  <2>4. QED
    BY <1>2, <1>6, <1>9, <1>10, <2>1, <2>2, <2>3 DEF Next
<1>13. QED
  BY <1>12 DEF Thins

\* What an observer received and what waits for it follow the order of publication.
LEMMA FlowOrders ==
    ASSUME FlowInv
    PROVE  PublishOrder
<1> SUFFICES ASSUME NEW w \in Writers,
                    NEW i \in DOMAIN (received[w] \o inbox[w]),
                    NEW j \in DOMAIN (received[w] \o inbox[w]),
                    i < j, (received[w] \o inbox[w])[i].node = (received[w] \o inbox[w])[j].node
             PROVE  (received[w] \o inbox[w])[i].id < (received[w] \o inbox[w])[j].id
  BY DEF PublishOrder
<1> DEFINE seen == received[w] \o inbox[w]
<1>1. received[w] \in Seq(Message) /\ inbox[w] \in Seq(Message)
  BY DEF FlowInv, TypeInv, TypeOK
<1>2. InOrder(seen, MessageOrder)
  BY <1>1, OrderConcat DEF FlowInv, QueuesInOrder
<1> HIDE DEF seen
<1>3. <<seen[i], seen[j]>> \in MessageOrder
  BY <1>2 DEF InOrder, seen
<1>4. QED
  BY <1>3 DEF MessageOrder, seen

\* An observer sees the messages published on one node in the order they were
\* published, and none of them twice, whatever connections break between.
THEOREM MessagesKeepTheirOrder == Spec => []PublishOrder
<1>1. Init => QueuesInOrder /\ ToldAtHome /\ StagesInOrder
  BY ElementsEmpty DEF Init, QueuesInOrder, InOrder, ToldAtHome, StagesInOrder, Waiting,
     ToldPackets, Told, Seen
<1>2. FlowInv /\ [Next]_vars => FlowInv'
  BY SilentSteps, ThinsKeeps, PublishKeepsOrder, HandleMessageKeepsOrder,
     DeliverToldKeepsOrder
<1>3. FlowInv => PublishOrder
  BY FlowOrders
<1>4. Init => TypeInv
  BY InitType
<1>5. QED
  BY <1>1, <1>2, <1>3, <1>4, PTL DEF Spec, FlowInv
=============================================================================
