-------------------------- MODULE PubSubPromiseProofs --------------------------
(***************************************************************************)
(* PubSubRouter implements PubSubPromise, for all values of its constants. *)
(***************************************************************************)
EXTENDS PubSubRouterProofs, NaturalsInduction, WellFoundedInduction

Elements(q) == {q[i] : i \in DOMAIN q}

-----------------------------------------------------------------------------
(* Elements of sequences.                                                  *)

\* The elements of a typed queue are typed.
LEMMA ElementsType ==
    ASSUME NEW S, NEW q \in Seq(S)
    PROVE  Elements(q) \subseteq S
BY ElementOfSeq DEF Elements

\* An empty queue has no elements.
LEMMA ElementsEmpty == Elements(<<>>) = {}
BY DEF Elements

\* Appending adds one element.
LEMMA ElementsAppend ==
    ASSUME NEW S, NEW q \in Seq(S), NEW x
    PROVE  Elements(Append(q, x)) = Elements(q) \cup {x}
<1>1. /\ DOMAIN Append(q, x) = 1..(Len(q) + 1)
      /\ \A i \in 1..Len(q) : Append(q, x)[i] = q[i]
      /\ Append(q, x)[Len(q) + 1] = x
      /\ Len(q) \in Nat /\ DOMAIN q = 1..Len(q)
  OBVIOUS
<1>2. 1..(Len(q) + 1) = 1..Len(q) \cup {Len(q) + 1}
  BY <1>1
<1>3. QED
  BY <1>1, <1>2 DEF Elements

\* A queue that is not empty holds its head and the elements of its tail.
LEMMA ElementsHeadTail ==
    ASSUME NEW S, NEW q \in Seq(S), q # <<>>
    PROVE  Head(q) \in Elements(q) /\ Elements(Tail(q)) \subseteq Elements(q)
<1>1. /\ Len(q) \in Nat /\ Len(q) >= 1 /\ DOMAIN q = 1..Len(q)
      /\ Head(q) = q[1]
      /\ DOMAIN Tail(q) = 1..(Len(q) - 1)
      /\ \A i \in 1..(Len(q) - 1) : Tail(q)[i] = q[i + 1] /\ i + 1 \in 1..Len(q)
  BY EmptySeq
<1>2. QED
  BY <1>1 DEF Elements

\* Concatenation adds no elements of its own.
LEMMA ElementsConcat ==
    ASSUME NEW S, NEW q \in Seq(S), NEW r \in Seq(S)
    PROVE  Elements(q \o r) \subseteq Elements(q) \cup Elements(r)
<1>1. /\ Len(q) \in Nat /\ Len(r) \in Nat
      /\ DOMAIN q = 1..Len(q) /\ DOMAIN r = 1..Len(r)
      /\ DOMAIN (q \o r) = 1..(Len(q) + Len(r))
      /\ \A i \in 1..(Len(q) + Len(r)) :
            (q \o r)[i] = IF i =< Len(q) THEN q[i] ELSE r[i - Len(q)]
  OBVIOUS
<1>2. \A i \in 1..(Len(q) + Len(r)) : i =< Len(q) \/ i - Len(q) \in 1..Len(r)
  BY <1>1
<1>3. QED
  BY <1>1, <1>2 DEF Elements

\* An announcement holds requests of the table's subscriptions.
LEMMA ElementsAnnounce ==
    ASSUME NEW table \in SUBSET Entry, IsFiniteSet(table), NEW q \in Orders(table),
           NEW x \in Elements(Announce(q))
    PROVE  x.kind = "sub" /\ x.entry \in table
<1>1. Cardinality(table) \in Nat
  BY FS_CardinalityType
<1>2. q \in [1..Cardinality(table) -> table]
  BY DEF Orders
<1>3. Len(q) = Cardinality(table)
  BY <1>1, <1>2
<1>4. QED
  BY <1>2, <1>3 DEF Elements, Announce

-----------------------------------------------------------------------------
(* Every subscription on its way is the one its observer asked for.        *)

Genuine(e) == e = sub[e.writer]

OneSubscription ==
    /\ \A w \in Writers : observer[w] = "unspawned" => sub[w] = NoSub
    /\ \A n \in Nodes : \A e \in db[n] : Genuine(e)
    /\ \A n \in Nodes : \A x \in Elements(mailbox[n]) : x.kind = "sub" => Genuine(x.entry)
    /\ \A n, k \in Nodes : \A x \in Elements(wire[n][k]) :
            x.kind = "sub" => Genuine(x.entry)

\* The subscription of an observer is fixed when it is spawned.
LEMMA SubStays ==
    ASSUME [Next]_vars
    PROVE  \/ UNCHANGED sub
           \/ \E w \in Writers, s \in Subscriptions : Observe(w, s)
<1>1. Client => \/ UNCHANGED sub
                \/ \E w \in Writers, s \in Subscriptions : Observe(w, s)
  BY DEF Client, Publish, Unsubscribe, StopRouter, observerVars
<1>2. \A n \in Nodes : RouterStep(n) => UNCHANGED sub
  BY DEF RouterStep, HandleSubscription, HandleMessage, HandleTopology,
     HandleTerminated, observerVars
<1>3. \A w \in Writers : ObserverStep(w) => UNCHANGED sub
  BY DEF ObserverStep, OnNext, ObserverStops
<1>4. \A n, k \in Nodes : Delivery(n, k) \/ Disconnect(n, k) => UNCHANGED sub
  BY DEF Delivery, DeliverSub, DeliverTold, Disconnect, observerVars
<1>5. \A n \in Nodes, alive \in SUBSET Nodes : TopologyChanged(n, alive) => UNCHANGED sub
  BY DEF TopologyChanged, observerVars
<1>6. UNCHANGED vars => UNCHANGED sub
  BY DEF vars, observerVars
<1>7. QED
  BY <1>1, <1>2, <1>3, <1>4, <1>5, <1>6 DEF Next

\* What a spawned observer asked for stays what it asked for.
LEMMA GenuineStays ==
    ASSUME TypeInv, OneSubscription, [Next]_vars, NEW e \in Entry, Genuine(e)
    PROVE  Genuine(e)'
<1>1. CASE UNCHANGED sub
  BY <1>1 DEF Genuine
<1>2. ASSUME NEW w \in Writers, NEW s \in Subscriptions, Observe(w, s)
      PROVE  Genuine(e)'
  <2>1. sub[w] = NoSub
    BY <1>2 DEF Observe, OneSubscription
  <2>2. e.writer \in Writers /\ e.writer # w
    BY <2>1, RouterAssumption DEF Genuine, Entry
  <2>3. sub' = [sub EXCEPT ![w] = ProtoSubscription(w, s)]
    BY <1>2 DEF Observe
  <2>4. QED
    BY <2>2, <2>3 DEF Genuine, TypeInv, TypeOK
<1>3. QED
  BY <1>1, <1>2, SubStays

\* Telling adds to one mailbox what is told.
LEMMA TellElements ==
    ASSUME TypeInv, NEW n \in Nodes, NEW env, Tell(n, env), NEW k \in Nodes,
           NEW x \in Elements(mailbox'[k])
    PROVE  x \in Elements(mailbox[k]) \/ (x = env /\ k = n)
<1>1. mailbox \in [Nodes -> Seq(Envelope)]
  BY DEF TypeInv, TypeOK
<1>2. mailbox'[k] = IF Up(n) /\ k = n THEN Append(mailbox[k], env) ELSE mailbox[k]
  BY <1>1 DEF Tell
<1>3. QED
  BY <1>1, <1>2, ElementsAppend

\* Consuming a packet leaves a mailbox no packets it did not hold.
LEMMA ConsumeElements ==
    ASSUME TypeInv, NEW n \in Nodes, mailbox[n] # <<>>, Consume(n), NEW k \in Nodes
    PROVE  Elements(mailbox'[k]) \subseteq Elements(mailbox[k])
<1>1. mailbox \in [Nodes -> Seq(Envelope)]
  BY DEF TypeInv, TypeOK
<1>2. mailbox'[k] = IF k = n THEN Tail(mailbox[n]) ELSE mailbox[k]
  BY <1>1 DEF Consume
<1>3. QED
  BY <1>1, <1>2, ElementsHeadTail

\* Where a request that was not in a mailbox comes from: an observer, the router's
\* own announcement, or a connection.
LEMMA NewRequest ==
    ASSUME TypeInv, [Next]_vars, NEW n \in Nodes,
           NEW x \in Elements(mailbox'[n]), x \notin Elements(mailbox[n]), x.kind = "sub"
    PROVE  \/ \E w \in Writers, s \in Subscriptions :
                 Observe(w, s) /\ x.entry = ProtoSubscription(w, s)
           \/ x.entry \in db[n]
           \/ \E k \in Nodes : x \in Elements(wire[k][n])
<1> DEFINE Goal == \/ \E w \in Writers, s \in Subscriptions :
                         Observe(w, s) /\ x.entry = ProtoSubscription(w, s)
                   \/ x.entry \in db[n]
                   \/ \E k \in Nodes : x \in Elements(wire[k][n])
<1>1. mailbox \in [Nodes -> Seq(Envelope)]
  BY DEF TypeInv, TypeOK
<1>2. ASSUME NEW k \in Nodes, NEW t \in Topics, Publish(k, t)  PROVE FALSE
  BY <1>2, TellElements DEF Publish
<1>3. ASSUME NEW w \in Writers, NEW s \in Subscriptions, Observe(w, s)  PROVE Goal
  <2> DEFINE env == [kind |-> "sub", entry |-> ProtoSubscription(w, s)]
  <2>1. Home[w] \in Nodes /\ Tell(Home[w], env)
    BY <1>3, RouterAssumption DEF Observe
  <2>2. x = env
    BY <2>1, TellElements
  <2>3. QED
    BY <1>3, <2>2
<1>4. ASSUME NEW w \in Writers, Unsubscribe(w) \/ ObserverStep(w)  PROVE FALSE
  BY <1>4 DEF Unsubscribe, ObserverStep, OnNext, ObserverStops
<1>5. ASSUME NEW k \in Nodes, StopRouter(k)  PROVE FALSE
  BY <1>1, <1>5, ElementsEmpty DEF StopRouter
<1>6. ASSUME NEW k \in Nodes, HandleSubscription(k) \/ HandleMessage(k)  PROVE FALSE
  BY <1>6, ConsumeElements DEF HandleSubscription, HandleMessage, Heads
<1>7. ASSUME NEW k \in Nodes, HandleTopology(k)  PROVE Goal
  <2>1. PICK q \in Orders(db[k]) :
          mailbox' = [mailbox EXCEPT ![k] =
                         Tail(@) \o (IF k \in Head(mailbox[k]).alive THEN Announce(q)
                                                                     ELSE <<>>)]
    BY <1>7 DEF HandleTopology
  <2>2. n = k
    BY <1>1, <2>1
  <2>3. Announce(q) \in Seq(Envelope) /\ <<>> \in Seq(Envelope)
    <3>1. Announce(q) \in Seq(SubEnvelope)
      BY AnnounceType DEF TypeInv, TypeOK
    <3>2. QED
      BY <3>1, SeqMonotonic, EmptySeq DEF Envelope
  <2>4. mailbox[k] # <<>> /\ Tail(mailbox[k]) \in Seq(Envelope)
    BY <1>7, HeadsType DEF HandleTopology, Heads
  <2>5. x \in Elements(Tail(mailbox[k])) \cup Elements(Announce(q)) \cup Elements(<<>>)
    BY <1>1, <2>1, <2>2, <2>3, <2>4, ElementsConcat
  <2>6. x \in Elements(Announce(q))
    BY <1>1, <2>2, <2>4, <2>5, ElementsHeadTail, ElementsEmpty
  <2>7. QED
    BY <2>2, <2>6, ElementsAnnounce DEF TypeInv, TypeOK
<1>8. ASSUME NEW k \in Nodes, NEW w \in Writers, HandleTerminated(k, w)  PROVE FALSE
  BY <1>8 DEF HandleTerminated
<1>9. ASSUME NEW k \in Nodes, NEW alive \in SUBSET Nodes, TopologyChanged(k, alive)
      PROVE  FALSE
  BY <1>9, TellElements DEF TopologyChanged
<1>10. ASSUME NEW i \in Nodes, NEW k \in Nodes, Delivery(i, k)  PROVE Goal
  <2>1. CASE DeliverTold(i, k)
    BY <2>1 DEF DeliverTold
  <2>2. CASE DeliverSub(i, k)
    <3>1. x = Head(wire[i][k]) /\ n = k
      BY <2>2, TellElements DEF DeliverSub
    <3>2. wire[i][k] \in Seq(Packet) /\ wire[i][k] # <<>>
      BY <2>2 DEF DeliverSub, TypeInv, TypeOK
    <3>3. QED
      BY <3>1, <3>2, ElementsHeadTail
  <2>3. QED
    BY <1>10, <2>1, <2>2 DEF Delivery
<1>11. ASSUME NEW i \in Nodes, NEW k \in Nodes, Disconnect(i, k)  PROVE FALSE
  BY <1>11 DEF Disconnect
<1>12. ASSUME UNCHANGED vars  PROVE FALSE
  BY <1>12 DEF vars
<1>13. QED
  BY <1>2, <1>3, <1>4, <1>5, <1>6, <1>7, <1>8, <1>9, <1>10, <1>11, <1>12
     DEF Next, Client, RouterStep

\* A connection carries requests of its sender's table only.
LEMMA NewPacket ==
    ASSUME TypeInv, [Next]_vars, NEW n \in Nodes, NEW k \in Nodes,
           NEW x \in Elements(wire'[n][k]), x \notin Elements(wire[n][k]), x.kind = "sub"
    PROVE  x.entry \in db[n]
<1>1. wire \in [Nodes -> [Nodes -> Seq(Packet)]]
  BY DEF TypeInv, TypeOK
<1>2. ASSUME NEW i \in Nodes, HandleMessage(i)  PROVE FALSE
  <2> DEFINE m == Head(mailbox[i]).msg
  <2>1. PICK to \in Selections(RoutesAt(i, m.topic)) : Dispatch(i, m, to)
    BY <1>2 DEF HandleMessage
  <2> DEFINE p == [kind |-> "told", to |-> to \cap At(k), msg |-> m]
  <2>2. wire'[n][k] \in {wire[n][k], Append(wire[n][k], p)}
    BY <1>1, <2>1 DEF Dispatch
  <2>3. x = p
    <3> HIDE DEF p
    <3>1. wire[n][k] \in Seq(Packet)
      BY <1>1
    <3>2. Elements(Append(wire[n][k], p)) = Elements(wire[n][k]) \cup {p}
      BY <3>1, ElementsAppend
    <3>3. QED
      BY <2>2, <3>2
  <2>4. QED
    BY <2>3
<1>3. ASSUME NEW i \in Nodes, HandleTopology(i)  PROVE x.entry \in db[n]
  <2>1. PICK q \in Orders(db[i]) :
          wire' = [wire EXCEPT ![i] = [j \in Nodes |->
                      IF j \in Head(mailbox[i]).alive \ {i} THEN wire[i][j] \o Announce(q)
                                                            ELSE wire[i][j]]]
    BY <1>3 DEF HandleTopology
  <2>2. wire'[n][k] = wire[n][k] \/ (n = i /\ wire'[n][k] = wire[n][k] \o Announce(q))
    BY <1>1, <2>1
  <2>3. Announce(q) \in Seq(Packet)
    <3>1. Announce(q) \in Seq(SubEnvelope)
      BY AnnounceType DEF TypeInv, TypeOK
    <3>2. QED
      BY <3>1, SeqMonotonic DEF Packet
  <2>4. n = i /\ x \in Elements(Announce(q))
    <3>1. Elements(wire[n][k] \o Announce(q))
             \subseteq Elements(wire[n][k]) \cup Elements(Announce(q))
      BY <1>1, <2>3, ElementsConcat
    <3>2. QED
      BY <2>2, <3>1
  <2>5. QED
    BY <2>4, ElementsAnnounce DEF TypeInv, TypeOK
<1>4. ASSUME NEW i \in Nodes, NEW j \in Nodes, Delivery(i, j)  PROVE FALSE
  <2>1. wire[i][j] # <<>> /\ wire' = [wire EXCEPT ![i][j] = Tail(@)]
    BY <1>4 DEF Delivery, DeliverSub, DeliverTold
  <2>2. \/ wire'[n][k] = wire[n][k]
        \/ wire'[n][k] = Tail(wire[n][k]) /\ wire[n][k] # <<>>
    BY <1>1, <2>1
  <2>3. wire[n][k] \in Seq(Packet)
    BY <1>1
  <2>4. Elements(wire'[n][k]) \subseteq Elements(wire[n][k])
    BY <2>2, <2>3, ElementsHeadTail
  <2>5. QED
    BY <2>4
<1>5. ASSUME NEW i \in Nodes, NEW j \in Nodes, Disconnect(i, j)  PROVE FALSE
  <2>1. wire' = [wire EXCEPT ![i][j] = <<>>]
    BY <1>5 DEF Disconnect
  <2>2. wire'[n][k] \in {wire[n][k], <<>>}
    BY <1>1, <2>1
  <2>3. QED
    BY <2>2, ElementsEmpty
<1>6. (\A i \in Nodes : ~HandleMessage(i) /\ ~HandleTopology(i))
      /\ (\A i, j \in Nodes : ~Delivery(i, j) /\ ~Disconnect(i, j))
        => UNCHANGED wire
  <2>1. Client => UNCHANGED wire
    BY DEF Client, Publish, Observe, Unsubscribe, StopRouter
  <2>2. \A i \in Nodes : RouterStep(i) =>
            HandleMessage(i) \/ HandleTopology(i) \/ UNCHANGED wire
    BY DEF RouterStep, HandleSubscription, HandleTerminated
  <2>3. \A w \in Writers : ObserverStep(w) => UNCHANGED wire
    BY DEF ObserverStep, OnNext, ObserverStops
  <2>4. \A i \in Nodes, alive \in SUBSET Nodes : TopologyChanged(i, alive) => UNCHANGED wire
    BY DEF TopologyChanged
  <2>5. UNCHANGED vars => UNCHANGED wire
    BY DEF vars
  <2>6. QED
    BY <2>1, <2>2, <2>3, <2>4, <2>5 DEF Next
<1>7. QED
  BY <1>2, <1>3, <1>4, <1>5, <1>6

\* A router takes into its table only the request it handles.
LEMMA NewEntry ==
    ASSUME TypeInv, [Next]_vars, NEW n \in Nodes, NEW e \in db'[n], e \notin db[n]
    PROVE  HandleSubscription(n) /\ e = Head(mailbox[n]).entry
<1>1. db \in [Nodes -> SUBSET Entry]
  BY DEF TypeInv, TypeOK
<1>2. ASSUME NEW k \in Nodes, HandleSubscription(k)
      PROVE  n = k /\ e = Head(mailbox[k]).entry
  BY <1>1, <1>2 DEF HandleSubscription, Added
<1>3. ASSUME NEW k \in Nodes, NEW w \in Writers, HandleTerminated(k, w)  PROVE FALSE
  BY <1>1, <1>3 DEF HandleTerminated, Removed
<1>4. (\A k \in Nodes : ~HandleSubscription(k)) /\
      (\A k \in Nodes, w \in Writers : ~HandleTerminated(k, w)) => UNCHANGED db
  <2>1. Client => UNCHANGED db
    BY DEF Client, Publish, Observe, Unsubscribe, StopRouter, tableVars
  <2>2. \A k \in Nodes : HandleMessage(k) \/ HandleTopology(k) => UNCHANGED db
    BY DEF HandleMessage, HandleTopology, tableVars
  <2>3. \A w \in Writers : ObserverStep(w) => UNCHANGED db
    BY DEF ObserverStep, OnNext, ObserverStops, tableVars
  <2>4. \A k \in Nodes, alive \in SUBSET Nodes : TopologyChanged(k, alive) => UNCHANGED db
    BY DEF TopologyChanged, tableVars
  <2>5. \A i, k \in Nodes : Delivery(i, k) \/ Disconnect(i, k) => UNCHANGED db
    BY DEF Delivery, DeliverSub, DeliverTold, Disconnect, tableVars
  <2>6. UNCHANGED vars => UNCHANGED db
    BY DEF vars, tableVars
  <2>7. QED
    BY <2>1, <2>2, <2>3, <2>4, <2>5, <2>6 DEF Next, RouterStep
<1>5. QED
  BY <1>2, <1>3, <1>4

\* What waits in mailboxes and on the wire is typed.
LEMMA ElementTypes ==
    ASSUME TypeInv, NEW n \in Nodes, NEW k \in Nodes
    PROVE  /\ Elements(mailbox[n]) \subseteq Envelope
           /\ Elements(wire[n][k]) \subseteq Packet
           /\ \A x \in Envelope \cup Packet : x.kind = "sub" => x.entry \in Entry
<1>1. mailbox[n] \in Seq(Envelope) /\ wire[n][k] \in Seq(Packet)
  BY DEF TypeInv, TypeOK
<1>2. \A x \in Envelope \cup Packet : x.kind = "sub" => x.entry \in Entry
  BY DEF Envelope, Packet, SubEnvelope, MsgEnvelope, TopologyEnvelope
<1>3. QED
  BY <1>1, <1>2, ElementsType

\* A new observer's subscription is its own.
LEMMA ObserveGenuine ==
    ASSUME TypeInv, NEW w \in Writers, NEW s \in Subscriptions, Observe(w, s)
    PROVE  Genuine(ProtoSubscription(w, s))'
<1>1. sub' = [sub EXCEPT ![w] = ProtoSubscription(w, s)]
  BY DEF Observe
<1>2. ProtoSubscription(w, s).writer = w
  BY DEF ProtoSubscription
<1>3. QED
  BY <1>1, <1>2 DEF Genuine, TypeInv, TypeOK, ProtoSubscription

\* Every step keeps OneSubscription.
LEMMA NextOneSubscription ==
    ASSUME TypeInv, OneSubscription, [Next]_vars
    PROVE  OneSubscription'
<1>0. TypeInv'
  BY NextType
<1>1. \A w \in Writers : observer'[w] = "unspawned" => sub'[w] = NoSub
  <2> SUFFICES ASSUME NEW w \in Writers, observer'[w] = "unspawned"
               PROVE  sub'[w] = NoSub
    OBVIOUS
  <2>1. observer[w] = "unspawned"
    <3>1. \A v \in Writers, s \in Subscriptions : Observe(v, s) => observer[w] = "unspawned"
      BY DEF Observe, TypeInv, TypeOK
    <3>2. \A v \in Writers : Unsubscribe(v) \/ ObserverStep(v) => observer[w] = "unspawned"
      BY DEF Unsubscribe, ObserverStep, OnNext, ObserverStops, TypeInv, TypeOK
    <3>3. \A n \in Nodes : RouterStep(n) \/ StopRouter(n) => UNCHANGED observer
      BY DEF RouterStep, HandleSubscription, HandleMessage, HandleTopology,
         HandleTerminated, StopRouter, observerVars
    <3>4. \A n, k \in Nodes : Delivery(n, k) \/ Disconnect(n, k) => UNCHANGED observer
      BY DEF Delivery, DeliverSub, DeliverTold, Disconnect, observerVars
    <3>5. \A n \in Nodes : /\ \A t \in Topics : Publish(n, t) => UNCHANGED observer
                           /\ \A alive \in SUBSET Nodes :
                                TopologyChanged(n, alive) => UNCHANGED observer
      BY DEF Publish, TopologyChanged, observerVars
    <3>6. UNCHANGED vars => UNCHANGED observer
      BY DEF vars, observerVars
    <3>7. QED
      BY <3>1, <3>2, <3>3, <3>4, <3>5, <3>6 DEF Next, Client
  <2>2. sub[w] = NoSub
    BY <2>1 DEF OneSubscription
  <2>3. ASSUME NEW v \in Writers, NEW s \in Subscriptions, Observe(v, s)
        PROVE  sub'[w] = sub[w]
    BY <2>3 DEF Observe, TypeInv, TypeOK
  <2>4. QED
    BY <2>2, <2>3, SubStays
<1>2. ASSUME NEW n \in Nodes, NEW e \in db'[n]  PROVE Genuine(e)'
  <2>1. CASE e \in db[n]
    BY <2>1, GenuineStays DEF OneSubscription, TypeInv, TypeOK
  <2>2. CASE e \notin db[n]
    <3>1. HandleSubscription(n) /\ e = Head(mailbox[n]).entry
      BY <2>2, NewEntry
    <3>2. Head(mailbox[n]) \in Elements(mailbox[n]) /\ Head(mailbox[n]).kind = "sub"
      BY <3>1, ElementsHeadTail DEF HandleSubscription, Heads, TypeInv, TypeOK
    <3>3. Genuine(e) /\ e \in Entry
      BY <3>1, <3>2, ElementTypes DEF OneSubscription
    <3>4. QED
      BY <3>3, GenuineStays
  <2>3. QED
    BY <2>1, <2>2
<1>3. ASSUME NEW n \in Nodes, NEW x \in Elements(mailbox'[n]), x.kind = "sub"
      PROVE  Genuine(x.entry)'
  <2>1. CASE x \in Elements(mailbox[n])
    <3>1. x.entry \in Entry /\ Genuine(x.entry)
      BY <1>3, <2>1, ElementTypes DEF OneSubscription
    <3>2. QED
      BY <3>1, GenuineStays
  <2>2. CASE x \notin Elements(mailbox[n])
    <3>1. CASE x.entry \in db[n]
      <4>1. x.entry \in Entry /\ Genuine(x.entry)
        BY <3>1 DEF OneSubscription, TypeInv, TypeOK
      <4>2. QED
        BY <4>1, GenuineStays
    <3>2. ASSUME NEW k \in Nodes, x \in Elements(wire[k][n])  PROVE Genuine(x.entry)'
      <4>1. x.entry \in Entry /\ Genuine(x.entry)
        BY <1>3, <3>2, ElementTypes DEF OneSubscription
      <4>2. QED
        BY <4>1, GenuineStays
    <3>3. QED
      BY <1>3, <2>2, <3>1, <3>2, NewRequest, ObserveGenuine
  <2>3. QED
    BY <2>1, <2>2
<1>4. ASSUME NEW n \in Nodes, NEW k \in Nodes, NEW x \in Elements(wire'[n][k]),
             x.kind = "sub"
      PROVE  Genuine(x.entry)'
  <2>1. x.entry \in Entry /\ Genuine(x.entry)
    BY <1>4, NewPacket, ElementTypes DEF OneSubscription, TypeInv, TypeOK
  <2>2. QED
    BY <2>1, GenuineStays
<1>5. QED
  BY <1>1, <1>2, <1>3, <1>4 DEF OneSubscription

\* A subscription is never altered on its way through mailboxes, connections and
\* tables, so that no table holds two of one writer.
THEOREM SubscriptionsUnaltered == Spec => []OneSubscription
<1>1. Init => OneSubscription
  BY ElementsEmpty DEF Init, OneSubscription
<1>2. QED
  BY <1>1, NextOneSubscription, TypeInvariant, PTL DEF Spec

-----------------------------------------------------------------------------
(* Every message is told once: its number tells it apart.                  *)

IsMsg(x) == x.kind = "msg"

OneMessage ==
    /\ \A n \in Nodes : \A i \in DOMAIN mailbox[n] : IsMsg(mailbox[n][i]) =>
            /\ mailbox[n][i].msg.id =< published
            /\ \A r \in routed : r.msg.id # mailbox[n][i].msg.id
    /\ \A n, k \in Nodes : \A i \in DOMAIN mailbox[n], j \in DOMAIN mailbox[k] :
            /\ IsMsg(mailbox[n][i])
            /\ IsMsg(mailbox[k][j])
            /\ mailbox[n][i].msg.id = mailbox[k][j].msg.id
            => n = k /\ i = j
    /\ \A r \in routed : r.msg.id =< published

\* A step that only takes messages away from the fronts of mailboxes, the d[n]
\* first of mailbox n, and routes none but a first it takes, keeps messages apart.
LEMMA ShiftedOneMessage ==
    ASSUME OneMessage, NEW d \in [Nodes -> Nat],
           \A n \in Nodes : \A i \in DOMAIN mailbox'[n] : IsMsg(mailbox'[n][i]) =>
               /\ i \in Nat \ {0}
               /\ i + d[n] \in DOMAIN mailbox[n]
               /\ mailbox'[n][i] = mailbox[n][i + d[n]],
           published' = published,
           \A r \in routed' \ routed : \E n \in Nodes :
               /\ d[n] >= 1
               /\ 1 \in DOMAIN mailbox[n]
               /\ IsMsg(mailbox[n][1])
               /\ r.msg = mailbox[n][1].msg
    PROVE  OneMessage'
<1>1. ASSUME NEW n \in Nodes, NEW i \in DOMAIN mailbox'[n], IsMsg(mailbox'[n][i])
      PROVE  /\ mailbox'[n][i].msg.id =< published
             /\ \A r \in routed' : r.msg.id # mailbox'[n][i].msg.id
  <2>1. /\ i \in Nat \ {0} /\ i + d[n] \in DOMAIN mailbox[n]
        /\ mailbox'[n][i] = mailbox[n][i + d[n]]
    BY <1>1
  <2>2. ASSUME NEW r \in routed' \ routed  PROVE r.msg.id # mailbox'[n][i].msg.id
    <3>1. PICK k \in Nodes : /\ d[k] >= 1
                             /\ 1 \in DOMAIN mailbox[k]
                             /\ IsMsg(mailbox[k][1])
                             /\ r.msg = mailbox[k][1].msg
      OBVIOUS
    <3>2. ~(n = k /\ i + d[n] = 1)
      BY <2>1, <3>1
    <3>3. QED
      BY <1>1, <2>1, <3>1, <3>2 DEF OneMessage
  <2>3. QED
    BY <1>1, <2>1, <2>2 DEF OneMessage
<1>2. ASSUME NEW n \in Nodes, NEW k \in Nodes,
             NEW i \in DOMAIN mailbox'[n], NEW j \in DOMAIN mailbox'[k],
             IsMsg(mailbox'[n][i]), IsMsg(mailbox'[k][j]),
             mailbox'[n][i].msg.id = mailbox'[k][j].msg.id
      PROVE  n = k /\ i = j
  <2>1. /\ i \in Nat /\ i + d[n] \in DOMAIN mailbox[n]
        /\ j \in Nat /\ j + d[k] \in DOMAIN mailbox[k]
        /\ mailbox'[n][i] = mailbox[n][i + d[n]] /\ mailbox'[k][j] = mailbox[k][j + d[k]]
    BY <1>2
  <2>2. n = k /\ i + d[n] = j + d[k]
    BY <1>2, <2>1 DEF OneMessage
  <2>3. QED
    BY <2>1, <2>2
<1>3. \A r \in routed' : r.msg.id =< published
  BY DEF OneMessage
<1>4. QED
  BY <1>1, <1>2, <1>3 DEF OneMessage

\* What is told is not a message, or mailboxes stay: no message moves.
LEMMA ToldOneMessage ==
    ASSUME TypeInv, OneMessage, UNCHANGED <<published, routed>>,
           \/ UNCHANGED mailbox
           \/ \E n \in Nodes, env \in Envelope : Tell(n, env) /\ ~IsMsg(env)
    PROVE  OneMessage'
<1> DEFINE d == [n \in Nodes |-> 0]
<1>1. mailbox \in [Nodes -> Seq(Envelope)]
  BY DEF TypeInv, TypeOK
<1>2. ASSUME NEW k \in Nodes, NEW i \in DOMAIN mailbox'[k], IsMsg(mailbox'[k][i])
      PROVE  i \in DOMAIN mailbox[k] /\ i \in Nat \ {0} /\ mailbox'[k][i] = mailbox[k][i]
  <2>1. CASE UNCHANGED mailbox
    BY <1>1, <1>2, <2>1
  <2>2. ASSUME NEW n \in Nodes, NEW env \in Envelope, Tell(n, env), ~IsMsg(env)
        PROVE  i \in DOMAIN mailbox[k] /\ i \in Nat \ {0} /\ mailbox'[k][i] = mailbox[k][i]
    <3>1. mailbox[k] \in Seq(Envelope)
      BY <1>1
    <3>2. CASE mailbox'[k] = mailbox[k]
      BY <3>1, <3>2, <1>2
    <3>3. CASE mailbox'[k] = Append(mailbox[k], env)
      <4>1. /\ DOMAIN mailbox'[k] = 1..(Len(mailbox[k]) + 1)
            /\ mailbox'[k][Len(mailbox[k]) + 1] = env
            /\ \A j \in 1..Len(mailbox[k]) : mailbox'[k][j] = mailbox[k][j]
            /\ DOMAIN mailbox[k] = 1..Len(mailbox[k])
            /\ Len(mailbox[k]) \in Nat
        BY <3>1, <3>3
      <4>2. i # Len(mailbox[k]) + 1
        BY <1>2, <2>2, <4>1
      <4>3. QED
        BY <4>1, <4>2
    <3>4. QED
      BY <1>1, <2>2, <3>2, <3>3 DEF Tell
  <2>3. QED
    BY <2>1, <2>2
<1>3. d \in [Nodes -> Nat]
  OBVIOUS
<1>4. \A n \in Nodes : \A i \in DOMAIN mailbox'[n] : IsMsg(mailbox'[n][i]) =>
               /\ i \in Nat \ {0}
               /\ i + d[n] \in DOMAIN mailbox[n]
               /\ mailbox'[n][i] = mailbox[n][i + d[n]]
  BY <1>2
<1> HIDE DEF d
<1>5. QED
  BY <1>3, <1>4, ShiftedOneMessage

\* The router hands on the first message, and may announce behind the others.
LEMMA HandledOneMessage ==
    ASSUME TypeInv, OneMessage, NEW n \in Nodes, mailbox[n] # <<>>,
           NEW told \in Seq(SubEnvelope),
           mailbox' = [mailbox EXCEPT ![n] = Tail(mailbox[n]) \o told],
           published' = published,
           \A r \in routed' \ routed :
               IsMsg(Head(mailbox[n])) /\ r.msg = Head(mailbox[n]).msg
    PROVE  OneMessage'
<1> DEFINE d == [k \in Nodes |-> IF k = n THEN 1 ELSE 0]
<1>1. mailbox \in [Nodes -> Seq(Envelope)]
  BY DEF TypeInv, TypeOK
<1>2. /\ mailbox[n] \in Seq(Envelope) /\ Len(mailbox[n]) \in Nat \ {0}
      /\ DOMAIN mailbox[n] = 1..Len(mailbox[n])
      /\ Head(mailbox[n]) = mailbox[n][1]
      /\ Tail(mailbox[n]) \in Seq(Envelope)
      /\ Len(Tail(mailbox[n])) = Len(mailbox[n]) - 1
      /\ \A i \in 1..(Len(mailbox[n]) - 1) : Tail(mailbox[n])[i] = mailbox[n][i + 1]
  BY <1>1, EmptySeq
<1>3. ASSUME NEW i \in DOMAIN mailbox'[n], IsMsg(mailbox'[n][i])
      PROVE  /\ i \in Nat \ {0}
             /\ i + 1 \in DOMAIN mailbox[n]
             /\ mailbox'[n][i] = mailbox[n][i + 1]
  <2>1. /\ Len(told) \in Nat
        /\ DOMAIN mailbox'[n] = 1..(Len(mailbox[n]) - 1 + Len(told))
        /\ \A j \in 1..(Len(mailbox[n]) - 1) : mailbox'[n][j] = Tail(mailbox[n])[j]
        /\ \A j \in 1..Len(told) : /\ mailbox'[n][Len(mailbox[n]) - 1 + j] = told[j]
                                   /\ told[j] \in SubEnvelope
    <3>1. mailbox'[n] = Tail(mailbox[n]) \o told
      BY <1>1
    <3>2. told \in Seq(SubEnvelope) /\ Len(told) \in Nat
      OBVIOUS
    <3>3. \A j \in 1..Len(told) : told[j] \in SubEnvelope
      BY <3>2, ElementOfSeq
    <3>4. told \in Seq(Envelope)
      BY SeqMonotonic DEF Envelope
    <3>5. /\ DOMAIN mailbox'[n] = 1..(Len(Tail(mailbox[n])) + Len(told))
          /\ \A j \in 1..Len(Tail(mailbox[n])) : mailbox'[n][j] = Tail(mailbox[n])[j]
      BY <1>2, <3>1, <3>2, <3>4
    <3>6. \A j \in 1..Len(told) : mailbox'[n][Len(Tail(mailbox[n])) + j] = told[j]
      BY <1>2, <3>1, <3>2, <3>4
    <3>7. QED
      BY <1>2, <3>2, <3>3, <3>5, <3>6
  <2>2. CASE i \in 1..(Len(mailbox[n]) - 1)
    BY <1>2, <2>1, <2>2
  <2>3. CASE i \notin 1..(Len(mailbox[n]) - 1)
    <3>1. i - (Len(mailbox[n]) - 1) \in 1..Len(told)
      BY <1>2, <2>1, <2>3
    <3>2. mailbox'[n][i] \in SubEnvelope
      <4>1. mailbox'[n][Len(mailbox[n]) - 1 + (i - (Len(mailbox[n]) - 1))] \in SubEnvelope
        BY <2>1, <3>1
      <4>2. Len(mailbox[n]) - 1 + (i - (Len(mailbox[n]) - 1)) = i
        BY <1>2, <2>1
      <4>3. QED
        BY <4>1, <4>2
    <3>3. QED
      BY <1>3, <3>2 DEF SubEnvelope, IsMsg
  <2>4. QED
    BY <2>2, <2>3
<1>4. ASSUME NEW k \in Nodes \ {n}, NEW i \in DOMAIN mailbox'[k]
      PROVE  /\ i \in Nat \ {0}
             /\ i \in DOMAIN mailbox[k]
             /\ mailbox'[k][i] = mailbox[k][i]
  <2>1. mailbox'[k] = mailbox[k] /\ mailbox[k] \in Seq(Envelope)
    BY <1>1
  <2>2. QED
    BY <2>1
<1>5. d \in [Nodes -> Nat] /\ d[n] = 1 /\ \A k \in Nodes \ {n} : d[k] = 0
  OBVIOUS
<1> HIDE DEF d
<1>6. \A k \in Nodes : \A i \in DOMAIN mailbox'[k] : IsMsg(mailbox'[k][i]) =>
               /\ i \in Nat \ {0}
               /\ i + d[k] \in DOMAIN mailbox[k]
               /\ mailbox'[k][i] = mailbox[k][i + d[k]]
  BY <1>3, <1>4, <1>5
<1>7. \A r \in routed' \ routed : \E k \in Nodes :
               /\ d[k] >= 1
               /\ 1 \in DOMAIN mailbox[k]
               /\ IsMsg(mailbox[k][1])
               /\ r.msg = mailbox[k][1].msg
  BY <1>2, <1>5
<1>8. QED
  BY <1>5, <1>6, <1>7, ShiftedOneMessage

\* Publish takes a fresh identity, so it keeps OneMessage.
LEMMA PublishOneMessage ==
    ASSUME TypeInv, OneMessage, NEW n \in Nodes, NEW t \in Topics, Publish(n, t)
    PROVE  OneMessage'
<1> DEFINE env == [kind |-> "msg", msg |-> [id |-> published + 1, topic |-> t, node |-> n]]
<1>1. /\ published \in Nat
      /\ published' = published + 1
      /\ routed' = routed
      /\ Tell(n, env)
  BY RouterAssumption DEF Publish, TypeInv, TypeOK
<1>2. \A k \in Nodes : mailbox[k] \in Seq(Envelope)
  BY DEF TypeInv, TypeOK
<1>3. IsMsg(env) /\ env.msg.id = published + 1
  BY DEF IsMsg
<1> HIDE DEF env
<1>4. ASSUME NEW k \in Nodes, NEW i \in DOMAIN mailbox'[k], IsMsg(mailbox'[k][i])
      PROVE  \/ i \in DOMAIN mailbox[k] /\ mailbox'[k][i] = mailbox[k][i]
             \/ /\ k = n /\ i = Len(mailbox[n]) + 1
                /\ mailbox'[k][i].msg.id = published + 1
  <2>1. CASE mailbox'[k] = mailbox[k]
    BY <2>1, <1>4
  <2>2. CASE k = n /\ mailbox'[k] = Append(mailbox[k], env)
    <3>1. /\ DOMAIN mailbox'[k] = 1..(Len(mailbox[k]) + 1)
          /\ mailbox'[k][Len(mailbox[k]) + 1] = env
          /\ \A j \in 1..Len(mailbox[k]) : mailbox'[k][j] = mailbox[k][j]
          /\ DOMAIN mailbox[k] = 1..Len(mailbox[k])
          /\ Len(mailbox[k]) \in Nat
      BY <1>2, <2>2
    <3>2. CASE i = Len(mailbox[k]) + 1
      BY <1>3, <2>2, <3>1, <3>2
    <3>3. CASE i # Len(mailbox[k]) + 1
      BY <3>1, <3>3
    <3>4. QED
      BY <3>2, <3>3
  <2>3. QED
    BY <1>1, <2>1, <2>2 DEF Tell, TypeInv, TypeOK
<1>5. \A k \in Nodes : \A i \in DOMAIN mailbox[k] : IsMsg(mailbox[k][i]) =>
          mailbox[k][i].msg.id \in Nat
  <2> SUFFICES ASSUME NEW k \in Nodes, NEW i \in DOMAIN mailbox[k], IsMsg(mailbox[k][i])
               PROVE  mailbox[k][i].msg.id \in Nat
    OBVIOUS
  <2>1. mailbox[k][i] \in Envelope
    BY <1>2, ElementOfSeq
  <2>2. QED
    BY <2>1 DEF IsMsg, Envelope, SubEnvelope, TopologyEnvelope, MsgEnvelope, Message
<1>6. \A r \in routed : r.msg.id \in Nat
  BY DEF TypeInv, TypeOK, Message
<1>7. ASSUME NEW k \in Nodes, NEW i \in DOMAIN mailbox'[k], IsMsg(mailbox'[k][i])
      PROVE  /\ mailbox'[k][i].msg.id =< published'
             /\ \A r \in routed : r.msg.id # mailbox'[k][i].msg.id
  <2>1. CASE i \in DOMAIN mailbox[k] /\ mailbox'[k][i] = mailbox[k][i]
    BY <1>1, <1>5, <1>7, <2>1 DEF OneMessage
  <2>2. CASE mailbox'[k][i].msg.id = published + 1
    BY <1>1, <1>6, <2>2 DEF OneMessage
  <2>3. QED
    BY <1>4, <1>7, <2>1, <2>2
<1>8. ASSUME NEW k \in Nodes, NEW l \in Nodes,
             NEW i \in DOMAIN mailbox'[k], NEW j \in DOMAIN mailbox'[l],
             IsMsg(mailbox'[k][i]), IsMsg(mailbox'[l][j]),
             mailbox'[k][i].msg.id = mailbox'[l][j].msg.id
      PROVE  k = l /\ i = j
  <2> DEFINE Old(h, p) == p \in DOMAIN mailbox[h] /\ mailbox'[h][p] = mailbox[h][p]
             New(h, p) == /\ h = n /\ p = Len(mailbox[n]) + 1
                          /\ mailbox'[h][p].msg.id = published + 1
  <2>1. (Old(k, i) \/ New(k, i)) /\ (Old(l, j) \/ New(l, j))
    BY <1>4, <1>8
  <2>2. CASE Old(k, i) /\ Old(l, j)
    BY <1>8, <2>2 DEF OneMessage
  <2>3. CASE New(k, i) /\ New(l, j)
    BY <2>3
  <2>4. CASE Old(k, i) /\ New(l, j)
    BY <1>1, <1>5, <1>8, <2>4 DEF OneMessage
  <2>5. CASE New(k, i) /\ Old(l, j)
    BY <1>1, <1>5, <1>8, <2>5 DEF OneMessage
  <2>6. QED
    BY <2>1, <2>2, <2>3, <2>4, <2>5
<1>9. \A r \in routed' : r.msg.id =< published'
  BY <1>1, <1>6 DEF OneMessage
<1>10. QED
  BY <1>1, <1>7, <1>8, <1>9 DEF OneMessage

\* A router that stops loses messages and makes none.
LEMMA StopRouterOneMessage ==
    ASSUME TypeInv, OneMessage, NEW n \in Nodes, StopRouter(n)
    PROVE  OneMessage'
<1> DEFINE d == [k \in Nodes |-> 0]
<1>1. /\ \A k \in Nodes : mailbox[k] \in Seq(Envelope)
      /\ \A k \in Nodes : mailbox'[k] = IF k = n THEN <<>> ELSE mailbox[k]
      /\ published' = published /\ routed' = routed
  BY DEF StopRouter, TypeInv, TypeOK, counters
<1>2. \A k \in Nodes : \A i \in DOMAIN mailbox'[k] : IsMsg(mailbox'[k][i]) =>
               /\ i \in Nat \ {0}
               /\ i + d[k] \in DOMAIN mailbox[k]
               /\ mailbox'[k][i] = mailbox[k][i + d[k]]
  <2> SUFFICES ASSUME NEW k \in Nodes, NEW i \in DOMAIN mailbox'[k]
               PROVE  /\ i \in Nat \ {0}
                      /\ i + d[k] \in DOMAIN mailbox[k]
                      /\ mailbox'[k][i] = mailbox[k][i + d[k]]
    OBVIOUS
  <2>1. k # n /\ mailbox'[k] = mailbox[k]
    BY <1>1
  <2>2. QED
    BY <1>1, <2>1
<1>3. d \in [Nodes -> Nat]
  OBVIOUS
<1> HIDE DEF d
<1>4. QED
  BY <1>1, <1>2, <1>3, ShiftedOneMessage

\* Every step keeps OneMessage.
LEMMA NextOneMessage ==
    ASSUME TypeInv, OneMessage, [Next]_vars
    PROVE  OneMessage'
<1>1. ASSUME NEW w \in Writers, NEW s \in Subscriptions, Observe(w, s)
      PROVE  OneMessage'
  <2> DEFINE env == [kind |-> "sub", entry |-> ProtoSubscription(w, s)]
  <2>1. env \in Envelope /\ ~IsMsg(env)
    <3>1. ProtoSubscription(w, s) \in Entry
      BY RouterAssumption DEF ProtoSubscription, Entry
    <3>2. QED
      BY <3>1 DEF Envelope, SubEnvelope, IsMsg
  <2>2. Home[w] \in Nodes /\ Tell(Home[w], env) /\ UNCHANGED <<published, routed>>
    BY <1>1, RouterAssumption DEF Observe, counters
  <2>3. QED
    BY <2>1, <2>2, ToldOneMessage
<1>2. ASSUME NEW w \in Writers, Unsubscribe(w) \/ ObserverStep(w)  PROVE OneMessage'
  BY <1>2, ToldOneMessage DEF Unsubscribe, ObserverStep, OnNext, ObserverStops, counters
<1>3. CASE Client
  BY <1>1, <1>2, <1>3, PublishOneMessage, StopRouterOneMessage DEF Client
<1>4. ASSUME NEW n \in Nodes, HandleSubscription(n) \/ HandleMessage(n)
      PROVE  OneMessage'
  <2>1. /\ mailbox[n] # <<>>
        /\ mailbox' = [mailbox EXCEPT ![n] = Tail(mailbox[n])]
        /\ published' = published
    BY <1>4 DEF HandleSubscription, HandleMessage, Heads, Consume, counters
  <2>2. \A r \in routed' \ routed : IsMsg(Head(mailbox[n])) /\ r.msg = Head(mailbox[n]).msg
    <3>1. HandleSubscription(n) => routed' = routed
      BY DEF HandleSubscription
    <3>2. HandleMessage(n) => /\ IsMsg(Head(mailbox[n]))
                              /\ \E to : routed' = routed \cup
                                            {[msg |-> Head(mailbox[n]).msg, to |-> to]}
      BY DEF HandleMessage, Dispatch, Heads, IsMsg
    <3>3. QED
      BY <1>4, <3>1, <3>2
  <2>3. Tail(mailbox[n]) \o <<>> = Tail(mailbox[n]) /\ <<>> \in Seq(SubEnvelope)
    BY <2>1, HeadsType, ConcatEmptySeq, EmptySeq
  <2>4. QED
    BY <2>1, <2>2, <2>3, HandledOneMessage
<1>5. ASSUME NEW n \in Nodes, HandleTopology(n)  PROVE OneMessage'
  <2> DEFINE alive == Head(mailbox[n]).alive
  <2>1. PICK q \in Orders(db[n]) :
          mailbox' = [mailbox EXCEPT ![n] =
                         Tail(@) \o (IF n \in alive THEN Announce(q) ELSE <<>>)]
    BY <1>5 DEF HandleTopology
  <2>2. (IF n \in alive THEN Announce(q) ELSE <<>>) \in Seq(SubEnvelope)
    BY AnnounceType, EmptySeq DEF TypeInv, TypeOK
  <2>3. mailbox[n] # <<>> /\ UNCHANGED <<published, routed>>
    BY <1>5 DEF HandleTopology, Heads, counters
  <2>4. QED
    BY <2>1, <2>2, <2>3, HandledOneMessage
<1>6. ASSUME NEW n \in Nodes, NEW w \in Writers, HandleTerminated(n, w)
      PROVE  OneMessage'
  BY <1>6, ToldOneMessage DEF HandleTerminated, counters
<1>7. ASSUME NEW n \in Nodes, NEW alive \in SUBSET Nodes, TopologyChanged(n, alive)
      PROVE  OneMessage'
  <2> DEFINE env == [kind |-> "topology", alive |-> alive]
  <2>1. env \in Envelope /\ ~IsMsg(env)
    BY DEF Envelope, TopologyEnvelope, IsMsg
  <2>2. Tell(n, env) /\ UNCHANGED <<published, routed>>
    BY <1>7 DEF TopologyChanged
  <2>3. QED
    BY <2>1, <2>2, ToldOneMessage
<1>8. ASSUME NEW n \in Nodes, NEW k \in Nodes, Delivery(n, k) \/ Disconnect(n, k)
      PROVE  OneMessage'
  <2>1. CASE DeliverSub(n, k)
    <3>1. Head(wire[n][k]) \in Envelope /\ ~IsMsg(Head(wire[n][k]))
      <4>1. wire[n][k] \in Seq(Packet) /\ wire[n][k] # <<>>
        BY <2>1 DEF DeliverSub, TypeInv, TypeOK
      <4>2. Head(wire[n][k]) \in Packet /\ Head(wire[n][k]).kind = "sub"
        BY <2>1, <4>1, HeadTailProperties DEF DeliverSub
      <4>3. QED
        BY <4>2 DEF Packet, Envelope, IsMsg
    <3>2. Tell(k, Head(wire[n][k])) /\ UNCHANGED <<published, routed>>
      BY <2>1 DEF DeliverSub, counters
    <3>3. QED
      BY <3>1, <3>2, ToldOneMessage
  <2>2. CASE DeliverTold(n, k) \/ Disconnect(n, k)
    BY <2>2, ToldOneMessage DEF DeliverTold, Disconnect, counters
  <2>3. QED
    BY <1>8, <2>1, <2>2 DEF Delivery
<1>9. CASE UNCHANGED vars
  BY <1>9, ToldOneMessage DEF vars, counters
<1>10. QED
  BY <1>2, <1>3, <1>4, <1>5, <1>6, <1>7, <1>8, <1>9 DEF Next, RouterStep

\* No message is in two places of the mailboxes, nor in one after it was routed.
THEOREM MessagesToldOnce == Spec => []OneMessage
<1>1. Init => OneMessage
  BY EmptySeq DEF Init, OneMessage
<1>2. QED
  BY <1>1, NextOneMessage, TypeInvariant, PTL DEF Spec

-----------------------------------------------------------------------------
(* The recipients the router chooses are those the promise allows.         *)

\* The ring meets one of the members first.
LEMMA RingNodeMember ==
    ASSUME NEW S \in SUBSET Writers, S # {}
    PROVE  RingNode(S) \in S
<1> DEFINE T == {RingOrder[w] : w \in S}
<1>1. T \subseteq Nat /\ T # {}
  BY LookupAssumption
<1>2. PICK x \in T : \A y \in T : ~(<<y, x>> \in OpToRel(<, Nat))
  <2> HIDE DEF T
  <2>1. QED
    BY <1>1, NatLessThanWellFounded, WFMin
<1>3. \A y \in T : x =< y
  <2> HIDE DEF T
  <2>1. OpToRel(<, Nat) = {ss \in Nat \X Nat : ss[1] < ss[2]}
    BY DEF OpToRel
  <2>2. x \in Nat /\ \A y \in T : y \in Nat
    BY <1>1
  <2>3. ASSUME NEW y \in T  PROVE x =< y
    <3>1. ~(y < x)
      BY <1>2, <2>1, <2>2
    <3>2. QED
      BY <2>2, <3>1
  <2>4. QED
    BY <2>3
<1>4. \E w \in S : \A v \in S : RingOrder[w] =< RingOrder[v]
  BY <1>3
<1>5. QED
  BY <1>4 DEF RingNode

\* No route is empty, and a route tells members of its class only.
LEMMA ChoicesMembers ==
    ASSUME NEW c \in Class, c.writers # {}, NEW r \in RoutesOf(c)
    PROVE  /\ Choices(r) # {}
           /\ Choices(r) \subseteq c.writers
<1>1. r.members \subseteq c.writers /\ r.members # {} /\ c.writers \subseteq Writers
  BY DEF RoutesOf, Class
<1>2. QED
  BY <1>1, RingNodeMember DEF Choices

\* Two classes of a table that holds one entry for a writer share no writer.
LEMMA ClassesDisjoint ==
    ASSUME NEW table \in SUBSET Entry, NEW t \in Topics,
           \A e, f \in table : e.writer = f.writer => e = f,
           NEW c \in Classes(table, t), NEW d \in Classes(table, t),
           NEW w \in c.writers \cap d.writers
    PROVE  c = d
<1>1. PICK e \in Matching(table, t) : c = ClassOf(Matching(table, t), e)
  BY DEF Classes
<1>2. PICK f \in Matching(table, t) : d = ClassOf(Matching(table, t), f)
  BY DEF Classes
<1>3. PICK g \in Matching(table, t) : g.writer = w /\ g.group = e.group /\ g.hashBy = e.hashBy
  BY <1>1 DEF ClassOf
<1>4. PICK h \in Matching(table, t) : h.writer = w /\ h.group = f.group /\ h.hashBy = f.hashBy
  BY <1>2 DEF ClassOf
<1>5. g = h
  BY <1>3, <1>4 DEF Matching
<1>6. e.group = f.group /\ e.hashBy = f.hashBy
  BY <1>3, <1>4, <1>5
<1>7. QED
  BY <1>1, <1>2, <1>6 DEF ClassOf

\* Lookup returns no empty class.
LEMMA ClassesInhabited ==
    ASSUME NEW table \in SUBSET Entry, NEW t \in Topics, NEW c \in Classes(table, t)
    PROVE  c \in Class /\ c.writers # {}
<1>1. c \in Class
  BY ClassesType
<1>2. PICK e \in Matching(table, t) : c = ClassOf(Matching(table, t), e)
  BY DEF Classes
<1>3. e.writer \in c.writers
  BY <1>2 DEF ClassOf
<1>4. QED
  BY <1>1, <1>3

\* Whatever the routers choose, the writers told are those the promise asks for:
\* all of a class without group and hash, one of any other.
LEMMA SelectionsServe ==
    ASSUME NEW table \in SUBSET Entry, NEW t \in Topics,
           \A e, f \in table : e.writer = f.writer => e = f,
           NEW to \in Selections(Routes(Classes(table, t)))
    PROVE  /\ to \subseteq UNION {c.writers : c \in Classes(table, t)}
           /\ \A c \in Classes(table, t) : IF Broadcast(c)
                                           THEN c.writers \subseteq to
                                           ELSE \E w \in c.writers : to \cap c.writers = {w}
<1> DEFINE classes == Classes(table, t)
           routes == Routes(classes)
<1>1. PICK pick \in [routes -> Writers] : /\ \A r \in routes : pick[r] \in Choices(r)
                                          /\ to = {pick[r] : r \in routes}
  BY DEF Selections
<1>2. \A r \in routes : \E c \in classes : r \in RoutesOf(c)
  BY DEF Routes
<1>3. \A c \in classes : \A r \in RoutesOf(c) : r \in routes /\ pick[r] \in c.writers
  <2>1. \A c \in classes : \A r \in RoutesOf(c) : r \in routes
    BY DEF Routes
  <2>2. QED
    BY <1>1, <2>1, ClassesInhabited, ChoicesMembers
<1>4. \A c, d \in classes : \A w \in c.writers \cap d.writers : c = d
  BY ClassesDisjoint
<1>5. \A c \in classes : c \in Class /\ c.writers # {}
  BY ClassesInhabited
<1> HIDE DEF classes, routes
<1>6. to \subseteq UNION {c.writers : c \in classes}
  BY <1>1, <1>2, <1>3
<1>7. ASSUME NEW c \in classes, Broadcast(c)  PROVE c.writers \subseteq to
  <2> SUFFICES ASSUME NEW w \in c.writers  PROVE w \in to
    OBVIOUS
  <2> DEFINE r == [how |-> "direct", group |-> c.group, members |-> {w}]
  <2>1. r \in RoutesOf(c)
    BY <1>7 DEF RoutesOf
  <2>2. Choices(r) = {w}
    BY DEF Choices
  <2> HIDE DEF r
  <2>3. QED
    BY <1>1, <1>3, <2>1, <2>2
<1>8. ASSUME NEW c \in classes, ~Broadcast(c)
      PROVE  \E w \in c.writers : to \cap c.writers = {w}
  <2>1. \E r : RoutesOf(c) = {r}
    <3>1. CASE Single(c)
      <4>1. PICK w \in c.writers : c.writers = {w}
        BY <3>1 DEF Single
      <4>2. RoutesOf(c) = {[how |-> "direct", group |-> c.group, members |-> {w}]}
        BY <3>1, <4>1 DEF RoutesOf
      <4>3. QED
        BY <4>2
    <3>2. CASE ~Single(c)
      BY <1>8, <3>2 DEF RoutesOf
    <3>3. QED
      BY <3>1, <3>2
  <2>2. PICK r : RoutesOf(c) = {r}
    BY <2>1
  <2>3. r \in routes /\ pick[r] \in c.writers /\ pick[r] \in to
    BY <1>1, <1>3, <2>2
  <2>4. ASSUME NEW v \in to \cap c.writers  PROVE v = pick[r]
    <3>1. PICK s \in routes : v = pick[s]
      BY <1>1
    <3>2. PICK d \in classes : s \in RoutesOf(d)
      BY <1>2
    <3>3. v \in d.writers
      BY <1>3, <3>1, <3>2
    <3>4. d = c
      BY <1>4, <3>3
    <3>5. QED
      BY <2>2, <3>1, <3>2, <3>4
  <2>5. QED
    BY <2>3, <2>4
<1>9. QED
  BY <1>6, <1>7, <1>8 DEF classes

-----------------------------------------------------------------------------
(* Refinement.                                                             *)

RouterInv ==
    /\ TypeInv
    /\ CachesCoherent
    /\ OneSubscription
    /\ OneMessage

\* The promise speaks of the same classes.
LEMMA PromiseOperators ==
    /\ Promise!Entry = Entry
    /\ \A table, t : Promise!Classes(table, t) = Classes(table, t)
    /\ \A table, w : Promise!Removed(table, w) = Removed(table, w)
    /\ \A to, classes : Promise!Serves(to, classes) <=>
          /\ to \subseteq UNION {c.writers : c \in classes}
          /\ \A c \in classes : IF Broadcast(c)
                                THEN c.writers \subseteq to
                                ELSE \E w \in c.writers : to \cap c.writers = {w}
BY DEF Promise!Entry, Entry, Promise!Classes, Classes, Promise!ClassOf, ClassOf,
   Promise!Matching, Matching, Promise!Removed, Removed, Promise!Serves,
   Promise!Broadcast, Broadcast

\* A handled subscription is one of the promise, or changes nothing the promise sees.
LEMMA HandleSubscriptionPromise ==
    ASSUME RouterInv, NEW n \in Nodes, HandleSubscription(n)
    PROVE  Promise!Next \/ UNCHANGED <<db, routed>>
<1> DEFINE e == Head(mailbox[n]).entry
<1>1. routed' = routed
  BY DEF HandleSubscription
<1>2. CASE Taken(db[n], e)
  BY <1>1, <1>2 DEF HandleSubscription
<1>3. CASE ~Taken(db[n], e)
  <2>1. Head(mailbox[n]) \in Elements(mailbox[n]) /\ Head(mailbox[n]).kind = "sub"
    BY ElementsHeadTail DEF HandleSubscription, Heads, RouterInv, TypeInv, TypeOK
  <2>2. e \in Entry /\ Genuine(e)
    BY <2>1, ElementTypes DEF RouterInv, OneSubscription
  <2>3. \A f \in db[n] : f.writer # e.writer
    BY <1>3, <2>2 DEF Taken, RouterInv, OneSubscription, Genuine
  <2>4. db' = [db EXCEPT ![n] = @ \cup {e}]
    BY <1>3 DEF HandleSubscription, Added
  <2> HIDE DEF e
  <2>5. Promise!Subscribe(n, e)
    BY <1>1, <2>3, <2>4 DEF Promise!Subscribe
  <2>6. QED
    BY <2>2, <2>5, PromiseOperators DEF Promise!Next
<1>4. QED
  BY <1>2, <1>3

\* A handled message is told as the promise says.
LEMMA HandleMessagePromise ==
    ASSUME RouterInv, NEW n \in Nodes, HandleMessage(n)
    PROVE  Promise!Next
<1> DEFINE m == Head(mailbox[n]).msg
           t == m.topic
<1>1. m \in Message /\ t \in Topics /\ IsMsg(Head(mailbox[n])) /\ mailbox[n] # <<>>
  <2>1. m \in Message /\ IsMsg(Head(mailbox[n])) /\ mailbox[n] # <<>>
    BY HeadsType DEF RouterInv, HandleMessage, Heads, IsMsg, Envelope, SubEnvelope,
       MsgEnvelope, TopologyEnvelope
  <2>2. QED
    BY <2>1 DEF Message
<1>2. db' = db
  BY DEF HandleMessage
<1>3. PICK to \in Selections(RoutesAt(n, t)) : routed' = routed \cup {[msg |-> m, to |-> to]}
  BY DEF HandleMessage, Dispatch
<1>4. \A r \in routed : r.msg.id # m.id
  <2>1. mailbox[n] \in Seq(Envelope)
    BY DEF RouterInv, TypeInv, TypeOK
  <2>2. 1 \in DOMAIN mailbox[n] /\ mailbox[n][1] = Head(mailbox[n])
    BY <1>1, <2>1, EmptySeq
  <2>3. QED
    BY <1>1, <2>2 DEF RouterInv, OneMessage
<1>5. RoutesAt(n, t) = Routes(Classes(db[n], t))
  BY <1>1, CachesAnswer DEF RouterInv
<1>6. \A e, f \in db[n] : e.writer = f.writer => e = f
  BY DEF RouterInv, OneSubscription, Genuine
<1>7. db[n] \in SUBSET Entry
  BY DEF RouterInv, TypeInv, TypeOK
<1> HIDE DEF m
<1>8. Promise!Serves(to, Classes(db[n], t))
  <2> HIDE DEF t
  <2>1. to \in Selections(Routes(Classes(db[n], t)))
    BY <1>3, <1>5
  <2>2. /\ to \subseteq UNION {c.writers : c \in Classes(db[n], t)}
        /\ \A c \in Classes(db[n], t) : IF Broadcast(c)
                                        THEN c.writers \subseteq to
                                        ELSE \E w \in c.writers : to \cap c.writers = {w}
    <3>1. t \in Topics
      BY <1>1
    <3>2. QED
      BY <3>1, <1>6, <1>7, <2>1, SelectionsServe
  <2>3. QED
    BY <2>2, PromiseOperators
<1>9. to \in SUBSET Writers
  BY <1>3, SelectionsType
<1>10. Promise!Tell(n, m)
  BY <1>2, <1>3, <1>4, <1>8, <1>9, PromiseOperators DEF Promise!Tell
<1>11. QED
  BY <1>1, <1>10 DEF Promise!Next

\* A handled Terminated forgets as the promise allows.
LEMMA HandleTerminatedPromise ==
    ASSUME NEW n \in Nodes, NEW w \in Writers, HandleTerminated(n, w)
    PROVE  Promise!Next
<1>1. db' = [db EXCEPT ![n] = Removed(@, w)] /\ routed' = routed
  BY DEF HandleTerminated
<1>2. Promise!Forget(n, w)
  BY <1>1 DEF Promise!Forget, Promise!Removed, Removed
<1>3. QED
  BY <1>2 DEF Promise!Next

\* Every step of the routers is a step of the promise or a stutter.
LEMMA NextPromise ==
    ASSUME RouterInv, [Next]_vars
    PROVE  [Promise!Next]_<<db, routed>>
<1>1. Client => UNCHANGED <<db, routed>>
  BY DEF Client, Publish, Observe, Unsubscribe, StopRouter, tableVars
<1>2. ASSUME NEW n \in Nodes, RouterStep(n)
      PROVE  Promise!Next \/ UNCHANGED <<db, routed>>
  <2>1. HandleTopology(n) => UNCHANGED <<db, routed>>
    BY DEF HandleTopology, tableVars
  <2>2. QED
    BY <1>2, <2>1, HandleSubscriptionPromise, HandleMessagePromise,
       HandleTerminatedPromise DEF RouterStep
<1>3. \A w \in Writers : ObserverStep(w) => UNCHANGED <<db, routed>>
  BY DEF ObserverStep, OnNext, ObserverStops, tableVars
<1>4. \A n \in Nodes, alive \in SUBSET Nodes :
         TopologyChanged(n, alive) => UNCHANGED <<db, routed>>
  BY DEF TopologyChanged, tableVars
<1>5. \A n, k \in Nodes : Delivery(n, k) \/ Disconnect(n, k) => UNCHANGED <<db, routed>>
  BY DEF Delivery, DeliverSub, DeliverTold, Disconnect, tableVars
<1>6. UNCHANGED vars => UNCHANGED <<db, routed>>
  BY DEF vars, tableVars
<1>7. QED
  BY <1>1, <1>2, <1>3, <1>4, <1>5, <1>6 DEF Next

\* The routers with their caches, mailboxes, connections and faults implement the
\* promise: whatever happens, each message is told once, to all matching plain
\* subscribers of the table and one member of each other class, and to nobody else.
THEOREM RouterKeepsPromise == Spec => PromiseKept
<1>1. Init => Promise!Init
  BY DEF Init, Promise!Init
<1>2. RouterInv /\ [Next]_vars => [Promise!Next]_<<db, routed>>
  BY NextPromise
<1>3. Spec => []RouterInv
  BY TypeInvariant, CachesAreCoherent, SubscriptionsUnaltered, MessagesToldOnce, PTL
     DEF RouterInv
<1>4. QED
  BY <1>1, <1>2, <1>3, PTL DEF Spec, PromiseKept, Promise!Spec
=============================================================================
