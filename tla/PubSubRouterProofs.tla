-------------------------- MODULE PubSubRouterProofs --------------------------
(***************************************************************************)
(* Proofs about PubSubRouter, for all values of its constants.             *)
(***************************************************************************)
EXTENDS PubSubRouter, FiniteSetTheorems, SequenceTheorems, TLAPS

-----------------------------------------------------------------------------
(* What the operators of SubscriptionLookup return.                        *)

\* A lookup returns classes of the table's writers (SubscriptionWriterLookup.Lookup).
LEMMA ClassesType ==
    ASSUME NEW table \in SUBSET Entry, NEW t \in Topics
    PROVE  Classes(table, t) \in SUBSET Class
<1>1. ASSUME NEW e \in Matching(table, t)
      PROVE  ClassOf(Matching(table, t), e) \in Class
  <2>1. Matching(table, t) \subseteq Entry
    BY DEF Matching
  <2>2. \A f \in Entry : f.writer \in Writers /\ f.group \in Groups /\ f.hashBy \in BOOLEAN
    BY DEF Entry
  <2>3. {f.writer : f \in {g \in Matching(table, t) : /\ g.group = e.group
                                                     /\ g.hashBy = e.hashBy}}
           \in SUBSET Writers
    BY <2>1, <2>2
  <2>4. QED
    BY <2>1, <2>2, <2>3 DEF ClassOf, Class
<1>2. QED
  BY <1>1 DEF Classes

\* The router turns classes into routes to their writers.
LEMMA RoutesType ==
    ASSUME NEW classes \in SUBSET Class
    PROVE  Routes(classes) \in SUBSET Route
<1>1. ASSUME NEW c \in Class  PROVE RoutesOf(c) \in SUBSET Route
  BY <1>1 DEF RoutesOf, Class, Route
<1>2. QED
  BY <1>1 DEF Routes

\* A message is told to writers only.
LEMMA SelectionsType ==
    ASSUME NEW routes, NEW to \in Selections(routes)
    PROVE  to \in SUBSET Writers
BY DEF Selections

\* An order of a finite table announces subscriptions of the table.
LEMMA AnnounceType ==
    ASSUME NEW table \in SUBSET Entry, IsFiniteSet(table), NEW q \in Orders(table)
    PROVE  Announce(q) \in Seq(SubEnvelope)
<1>1. Cardinality(table) \in Nat
  BY FS_CardinalityType
<1>2. q \in [1..Cardinality(table) -> Entry]
  BY DEF Orders
<1>3. Len(q) = Cardinality(table)
  BY <1>1, <1>2
<1>4. Announce(q) \in [1..Cardinality(table) -> SubEnvelope]
  BY <1>2, <1>3 DEF Announce, SubEnvelope
<1>5. QED
  BY <1>1, <1>4, SeqDef

-----------------------------------------------------------------------------
(* Types, and that every table is finite.                                  *)

TypeInv == TypeOK /\ \A n \in Nodes : IsFiniteSet(db[n])

\* The initial states are typed.
LEMMA InitType == Init => TypeInv
<1>1. IsFiniteSet({})
  BY FS_EmptySet
<1>2. \A S : <<>> \in Seq(S)
  BY EmptySeq
<1>3. QED
  BY <1>1, <1>2, RouterAssumption DEF Init, TypeInv, TypeOK, EmptyCache

\* A told message goes to a mailbox, or is a dead letter.
LEMMA TellType ==
    ASSUME TypeOK, NEW n \in Nodes, NEW env \in Envelope, Tell(n, env)
    PROVE  mailbox' \in [Nodes -> Seq(Envelope)]
BY AppendProperties DEF TypeOK, Tell

\* Publish keeps the types.
LEMMA PublishType ==
    ASSUME TypeInv, NEW n \in Nodes, NEW t \in Topics, Publish(n, t)
    PROVE  TypeInv'
<1> DEFINE m == [id |-> published + 1, topic |-> t, node |-> n]
<1>1. m \in Message /\ published' \in 0..MaxPublished
  BY RouterAssumption DEF Publish, TypeInv, TypeOK, Message
<1>2. mailbox' \in [Nodes -> Seq(Envelope)]
  BY <1>1, TellType DEF Publish, TypeInv, Envelope, MsgEnvelope
<1>3. due' \subseteq Writers \X Message
  <2>1. Owed(n, t) \subseteq Writers
    BY DEF Owed, At
  <2>2. due \subseteq Writers \X Message
    BY DEF TypeInv, TypeOK
  <2>3. due' = due \cup {<<w, m>> : w \in Owed(n, t)}
    BY DEF Publish
  <2> HIDE DEF m
  <2>4. QED
    BY <1>1, <2>1, <2>2, <2>3
<1>4. QED
  BY <1>1, <1>2, <1>3 DEF Publish, TypeInv, TypeOK, observerVars, tableVars

\* Observe keeps the types.
LEMMA ObserveType ==
    ASSUME TypeInv, NEW w \in Writers, NEW s \in Subscriptions, Observe(w, s)
    PROVE  TypeInv'
<1>1. ProtoSubscription(w, s) \in Entry
  BY RouterAssumption DEF ProtoSubscription, Entry
<1>2. mailbox' \in [Nodes -> Seq(Envelope)]
  BY <1>1, TellType, RouterAssumption DEF Observe, TypeInv, Envelope, SubEnvelope
<1>3. QED
  BY <1>1, <1>2 DEF Observe, TypeInv, TypeOK, tableVars, counters

\* Unsubscribe and a stop of an observer keep the types.
LEMMA ClientType ==
    ASSUME TypeInv, NEW w \in Writers, Unsubscribe(w) \/ ObserverStops(w)
    PROVE  TypeInv'
<1>1. \A S : <<>> \in Seq(S)
  BY EmptySeq
<1>2. QED
  <2>1. CASE Unsubscribe(w)
    BY <2>1 DEF Unsubscribe, TypeInv, TypeOK, tableVars, counters
  <2>2. CASE ObserverStops(w)
    <3>1. /\ observer' \in [Writers -> {"unspawned", "running", "stopping", "stopped"}]
          /\ inbox' \in [Writers -> Seq(Message)]
      BY <1>1, <2>2 DEF ObserverStops, TypeInv, TypeOK
    <3>2. terminated' \in [Nodes -> SUBSET Writers]
      BY <2>2 DEF ObserverStops, TypeInv, TypeOK
    <3>3. QED
      BY <2>2, <3>1, <3>2 DEF ObserverStops, TypeInv, TypeOK, tableVars, counters
  <2>3. QED
    BY <2>1, <2>2

\* OnNext keeps the types.
LEMMA OnNextType ==
    ASSUME TypeInv, NEW w \in Writers, OnNext(w)
    PROVE  TypeInv'
<1>1. /\ inbox[w] \in Seq(Message) /\ inbox[w] # <<>>
      /\ received[w] \in Seq(Message)
  BY DEF TypeInv, TypeOK, OnNext
<1>2. Head(inbox[w]) \in Message /\ Tail(inbox[w]) \in Seq(Message)
  BY <1>1, HeadTailProperties
<1>3. Append(received[w], Head(inbox[w])) \in Seq(Message)
  BY <1>1, <1>2, AppendProperties
<1>4. QED
  BY <1>2, <1>3 DEF OnNext, TypeInv, TypeOK, tableVars, counters

\* StopRouter keeps the types.
LEMMA StopRouterType ==
    ASSUME TypeInv, NEW n \in Nodes, StopRouter(n)
    PROVE  TypeInv'
<1>1. \A S : <<>> \in Seq(S)
  BY EmptySeq
<1>2. QED
  BY <1>1 DEF StopRouter, TypeInv, TypeOK, observerVars, counters

\* What the router handles is the head of its mailbox, and the rest stays.
LEMMA HeadsType ==
    ASSUME TypeInv, NEW n \in Nodes, mailbox[n] # <<>>
    PROVE  /\ Head(mailbox[n]) \in Envelope
           /\ Tail(mailbox[n]) \in Seq(Envelope)
           /\ Consume(n) => mailbox' \in [Nodes -> Seq(Envelope)]
<1>1. mailbox \in [Nodes -> Seq(Envelope)]
  BY DEF TypeInv, TypeOK
<1>2. mailbox[n] \in Seq(Envelope)
  BY <1>1
<1>3. Head(mailbox[n]) \in Envelope /\ Tail(mailbox[n]) \in Seq(Envelope)
  BY <1>2, HeadTailProperties
<1>4. QED
  BY <1>1, <1>3 DEF Consume

\* Cleared caches are caches.
LEMMA ClearedType ==
    ASSUME TypeInv, NEW n \in Nodes
    PROVE  /\ ClearCache(n) =>
                routeCache' \in [Nodes -> [Topics -> (SUBSET Route) \cup {Uncached}]]
           /\ ClearLookupCache(n) =>
                lookupCache' \in [Nodes -> [Topics -> (SUBSET Class) \cup {Uncached}]]
<1>1. /\ routeCache \in [Nodes -> [Topics -> (SUBSET Route) \cup {Uncached}]]
      /\ lookupCache \in [Nodes -> [Topics -> (SUBSET Class) \cup {Uncached}]]
  BY DEF TypeInv, TypeOK
<1>2. /\ EmptyCache \in [Topics -> (SUBSET Route) \cup {Uncached}]
      /\ EmptyCache \in [Topics -> (SUBSET Class) \cup {Uncached}]
  BY DEF EmptyCache
<1>3. QED
  BY <1>1, <1>2 DEF ClearCache, ClearLookupCache

\* HandleSubscription keeps the types, and tables finite.
LEMMA HandleSubscriptionType ==
    ASSUME TypeInv, NEW n \in Nodes, HandleSubscription(n)
    PROVE  TypeInv'
<1> DEFINE e == Head(mailbox[n]).entry
<1>1. e \in Entry /\ mailbox' \in [Nodes -> Seq(Envelope)]
  BY HeadsType DEF HandleSubscription, Heads, Envelope, SubEnvelope, MsgEnvelope,
     TopologyEnvelope
<1>2. lookupCache' \in [Nodes -> [Topics -> (SUBSET Class) \cup {Uncached}]]
  BY ClearedType DEF HandleSubscription
<1>3. CASE Taken(db[n], e)
  BY <1>1, <1>2, <1>3 DEF HandleSubscription, TypeInv, TypeOK, observerVars, counters
<1>4. CASE ~Taken(db[n], e)
  <2>1. routeCache' \in [Nodes -> [Topics -> (SUBSET Route) \cup {Uncached}]]
    BY <1>4, ClearedType DEF HandleSubscription
  <2>2. /\ db' = [db EXCEPT ![n] = @ \cup {e}]
        /\ watched' = [watched EXCEPT ![n] = @ \cup {e.writer}]
        /\ terminated' \in {terminated, [terminated EXCEPT ![n] = @ \cup {e.writer}]}
    BY <1>4 DEF HandleSubscription, Added
  <2>3. /\ db' \in [Nodes -> SUBSET Entry]
        /\ watched' \in [Nodes -> SUBSET Writers]
        /\ terminated' \in [Nodes -> SUBSET Writers]
    <3>1. /\ db \in [Nodes -> SUBSET Entry]
          /\ watched \in [Nodes -> SUBSET Writers]
          /\ terminated \in [Nodes -> SUBSET Writers]
      BY DEF TypeInv, TypeOK
    <3>2. e.writer \in Writers
      BY <1>1 DEF Entry
    <3> HIDE DEF e
    <3>3. QED
      BY <1>1, <2>2, <3>1, <3>2
  <2>4. \A k \in Nodes : IsFiniteSet(db'[k])
    <3>1. \A k \in Nodes : IsFiniteSet(db[k]) /\ db[k] \in SUBSET Entry
      BY DEF TypeInv, TypeOK
    <3>2. IsFiniteSet(db[n] \cup {e})
      BY <3>1, FS_AddElement
    <3>3. \A k \in Nodes : db'[k] = IF k = n THEN db[n] \cup {e} ELSE db[k]
      BY <2>2 DEF TypeInv, TypeOK
    <3>4. QED
      BY <3>1, <3>2, <3>3
  <2>5. QED
    BY <1>1, <1>2, <2>1, <2>3, <2>4
       DEF HandleSubscription, TypeInv, TypeOK, observerVars, counters
<1>5. QED
  BY <1>3, <1>4

\* The classes and routes a message finds are well formed, cached or not.
LEMMA RoutesAtType ==
    ASSUME TypeInv, NEW n \in Nodes, NEW t \in Topics
    PROVE  /\ ClassesAt(n, t) \in SUBSET Class
           /\ RoutesAt(n, t) \in SUBSET Route
<1>1. /\ lookupCache[n][t] \in (SUBSET Class) \cup {Uncached}
      /\ routeCache[n][t] \in (SUBSET Route) \cup {Uncached}
      /\ db[n] \in SUBSET Entry
  BY DEF TypeInv, TypeOK
<1>2. ClassesAt(n, t) \in SUBSET Class
  BY <1>1, ClassesType DEF ClassesAt
<1>3. QED
  BY <1>1, <1>2, RoutesType DEF RoutesAt

\* Telling routes to writers keeps the types of mailboxes and wires.
LEMMA DispatchType ==
    ASSUME TypeInv, NEW n \in Nodes, NEW m \in Message, NEW to \in SUBSET Writers,
           Dispatch(n, m, to)
    PROVE  /\ inbox' \in [Writers -> Seq(Message)]
           /\ wire' \in [Nodes -> [Nodes -> Seq(Packet)]]
           /\ routed' \subseteq [msg : Message, to : SUBSET Writers]
<1>1. inbox' \in [Writers -> Seq(Message)]
  BY AppendProperties DEF Dispatch, TypeInv, TypeOK
<1>2. wire' \in [Nodes -> [Nodes -> Seq(Packet)]]
  <2> DEFINE p(k) == [kind |-> "told", to |-> to \cap At(k), msg |-> m]
  <2>1. \A k \in Nodes : p(k) \in Packet
    BY DEF Packet, At
  <2>2. \A k \in Nodes : wire[n][k] \in Seq(Packet)
    BY DEF TypeInv, TypeOK
  <2>3. \A k \in Nodes : Append(wire[n][k], p(k)) \in Seq(Packet)
    BY <2>1, <2>2, AppendProperties
  <2>4. wire' = [wire EXCEPT ![n] = [k \in Nodes |->
                    IF k # n /\ to \cap At(k) # {} THEN Append(wire[n][k], p(k))
                                                   ELSE wire[n][k]]]
    BY DEF Dispatch
  <2>5. wire \in [Nodes -> [Nodes -> Seq(Packet)]]
    BY DEF TypeInv, TypeOK
  <2> HIDE DEF p
  <2>6. QED
    BY <2>2, <2>3, <2>4, <2>5
<1>3. routed' \subseteq [msg : Message, to : SUBSET Writers]
  BY DEF Dispatch, TypeInv, TypeOK
<1>4. QED
  BY <1>1, <1>2, <1>3

\* HandleMessage keeps the types.
LEMMA HandleMessageType ==
    ASSUME TypeInv, NEW n \in Nodes, HandleMessage(n)
    PROVE  TypeInv'
<1> DEFINE m == Head(mailbox[n]).msg
           t == m.topic
<1>1. m \in Message /\ t \in Topics /\ mailbox' \in [Nodes -> Seq(Envelope)]
  <2>1. m \in Message /\ mailbox' \in [Nodes -> Seq(Envelope)]
    BY HeadsType DEF HandleMessage, Heads, Envelope, SubEnvelope, MsgEnvelope,
       TopologyEnvelope
  <2>2. QED
    BY <2>1 DEF Message
<1> HIDE DEF m
<1>2. lookupCache' \in [Nodes -> [Topics -> (SUBSET Class) \cup {Uncached}]]
  <2>1. lookupCache \in [Nodes -> [Topics -> (SUBSET Class) \cup {Uncached}]]
    BY DEF TypeInv, TypeOK
  <2>2. ClassesAt(n, t) \in SUBSET Class
    BY <1>1, RoutesAtType
  <2>3. [lookupCache[n] EXCEPT ![t] = ClassesAt(n, t)]
           \in [Topics -> (SUBSET Class) \cup {Uncached}]
    BY <2>1, <2>2
  <2>4. \/ lookupCache' = lookupCache
        \/ lookupCache' = [lookupCache EXCEPT ![n] =
                              [lookupCache[n] EXCEPT ![t] = ClassesAt(n, t)]]
    BY <2>1 DEF HandleMessage, m
  <2>5. QED
    BY <2>1, <2>3, <2>4
<1>3. routeCache' \in [Nodes -> [Topics -> (SUBSET Route) \cup {Uncached}]]
  <2>1. routeCache \in [Nodes -> [Topics -> (SUBSET Route) \cup {Uncached}]]
    BY DEF TypeInv, TypeOK
  <2>2. RoutesAt(n, t) \in SUBSET Route
    BY <1>1, RoutesAtType
  <2>3. routeCache' = [routeCache EXCEPT ![n][t] = RoutesAt(n, t)]
    BY DEF HandleMessage, m
  <2>4. [routeCache[n] EXCEPT ![t] = RoutesAt(n, t)]
           \in [Topics -> (SUBSET Route) \cup {Uncached}]
    BY <2>1, <2>2
  <2>5. routeCache' = [routeCache EXCEPT ![n] = [routeCache[n] EXCEPT ![t] = RoutesAt(n, t)]]
    BY <2>1, <2>3
  <2>6. QED
    BY <2>1, <2>4, <2>5
<1>4. /\ inbox' \in [Writers -> Seq(Message)]
      /\ wire' \in [Nodes -> [Nodes -> Seq(Packet)]]
      /\ routed' \subseteq [msg : Message, to : SUBSET Writers]
  <2>1. PICK to \in Selections(RoutesAt(n, t)) : Dispatch(n, m, to)
    BY DEF HandleMessage, m
  <2>2. QED
    BY <1>1, <2>1, SelectionsType, DispatchType
<1>5. QED
  BY <1>1, <1>2, <1>3, <1>4 DEF HandleMessage, TypeInv, TypeOK, counters

\* HandleTopology keeps the types: a finite table has an order.
LEMMA HandleTopologyType ==
    ASSUME TypeInv, NEW n \in Nodes, HandleTopology(n)
    PROVE  TypeInv'
<1> DEFINE alive == Head(mailbox[n]).alive
<1>1. PICK q \in Orders(db[n]) :
        /\ mailbox' = [mailbox EXCEPT ![n] =
                          Tail(@) \o (IF n \in alive THEN Announce(q) ELSE <<>>)]
        /\ wire' = [wire EXCEPT ![n] = [k \in Nodes |->
                        IF k \in alive \ {n} THEN wire[n][k] \o Announce(q)
                                             ELSE wire[n][k]]]
  BY DEF HandleTopology
<1>2. Announce(q) \in Seq(SubEnvelope)
  BY AnnounceType DEF TypeInv, TypeOK
<1>3. Announce(q) \in Seq(Envelope) /\ Announce(q) \in Seq(Packet)
  BY <1>2, SeqMonotonic DEF Envelope, Packet
<1>4. mailbox' \in [Nodes -> Seq(Envelope)]
  <2>1. Tail(mailbox[n]) \in Seq(Envelope) /\ mailbox \in [Nodes -> Seq(Envelope)]
    BY HeadsType DEF HandleTopology, Heads, TypeInv, TypeOK
  <2>2. (IF n \in alive THEN Announce(q) ELSE <<>>) \in Seq(Envelope)
    BY <1>3, EmptySeq
  <2>3. Tail(mailbox[n]) \o (IF n \in alive THEN Announce(q) ELSE <<>>) \in Seq(Envelope)
    BY <2>1, <2>2, ConcatProperties
  <2>4. QED
    BY <1>1, <2>1, <2>3
<1>5. wire' \in [Nodes -> [Nodes -> Seq(Packet)]]
  <2>1. wire \in [Nodes -> [Nodes -> Seq(Packet)]]
    BY DEF TypeInv, TypeOK
  <2>2. \A k \in Nodes : wire[n][k] \o Announce(q) \in Seq(Packet)
    BY <1>3, <2>1, ConcatProperties
  <2>3. QED
    BY <1>1, <2>1, <2>2
<1>6. QED
  BY <1>4, <1>5 DEF HandleTopology, TypeInv, TypeOK, observerVars, tableVars, counters

\* HandleTerminated keeps the types, and tables finite.
LEMMA HandleTerminatedType ==
    ASSUME TypeInv, NEW n \in Nodes, NEW w \in Writers, HandleTerminated(n, w)
    PROVE  TypeInv'
<1>1. /\ routeCache' \in [Nodes -> [Topics -> (SUBSET Route) \cup {Uncached}]]
      /\ lookupCache' \in [Nodes -> [Topics -> (SUBSET Class) \cup {Uncached}]]
  BY ClearedType DEF HandleTerminated
<1>2. Removed(db[n], w) \subseteq db[n]
  BY DEF Removed
<1>3. db' \in [Nodes -> SUBSET Entry]
  BY <1>2 DEF HandleTerminated, TypeInv, TypeOK
<1>4. \A k \in Nodes : IsFiniteSet(db'[k])
  BY <1>2, FS_Subset DEF HandleTerminated, TypeInv, TypeOK
<1>5. /\ watched' \in [Nodes -> SUBSET Writers]
      /\ terminated' \in [Nodes -> SUBSET Writers]
  BY DEF HandleTerminated, TypeInv, TypeOK
<1>6. QED
  BY <1>1, <1>3, <1>4, <1>5 DEF HandleTerminated, TypeInv, TypeOK, observerVars, counters

\* TopologyChanged keeps the types.
LEMMA TopologyChangedType ==
    ASSUME TypeInv, NEW n \in Nodes, NEW alive \in SUBSET Nodes,
           TopologyChanged(n, alive)
    PROVE  TypeInv'
<1>1. mailbox' \in [Nodes -> Seq(Envelope)]
  BY TellType DEF TopologyChanged, TypeInv, Envelope, TopologyEnvelope
<1>2. topologyEvents' \in 0..MaxTopologyEvents
  BY RouterAssumption DEF TopologyChanged, TypeInv, TypeOK
<1>3. QED
  BY <1>1, <1>2 DEF TopologyChanged, TypeInv, TypeOK, observerVars, tableVars

\* Delivery keeps the types.
LEMMA DeliveryType ==
    ASSUME TypeInv, NEW n \in Nodes, NEW k \in Nodes, Delivery(n, k)
    PROVE  TypeInv'
<1>1. wire \in [Nodes -> [Nodes -> Seq(Packet)]] /\ wire[n][k] \in Seq(Packet)
  BY DEF TypeInv, TypeOK
<1>2. wire[n][k] # <<>>
  BY DEF Delivery, DeliverSub, DeliverTold
<1>3. Head(wire[n][k]) \in Packet /\ Tail(wire[n][k]) \in Seq(Packet)
  BY <1>1, <1>2, HeadTailProperties
<1>4. wire' \in [Nodes -> [Nodes -> Seq(Packet)]]
  <2>1. wire' = [wire EXCEPT ![n] = [wire[n] EXCEPT ![k] = Tail(wire[n][k])]]
    BY <1>1 DEF Delivery, DeliverSub, DeliverTold
  <2>2. [wire[n] EXCEPT ![k] = Tail(wire[n][k])] \in [Nodes -> Seq(Packet)]
    BY <1>1, <1>3
  <2>3. QED
    BY <1>1, <2>1, <2>2
<1>5. CASE DeliverSub(n, k)
  <2>1. Head(wire[n][k]) \in Envelope
    BY <1>3, <1>5 DEF DeliverSub, Packet, Envelope
  <2>2. mailbox' \in [Nodes -> Seq(Envelope)]
    BY <1>5, <2>1, TellType DEF DeliverSub, TypeInv
  <2>3. QED
    BY <1>4, <1>5, <2>2 DEF DeliverSub, TypeInv, TypeOK, observerVars, tableVars, counters
<1>6. CASE DeliverTold(n, k)
  <2>1. Head(wire[n][k]).msg \in Message
    BY <1>3, <1>6 DEF DeliverTold, Packet, SubEnvelope
  <2>2. inbox' \in [Writers -> Seq(Message)]
    BY <1>6, <2>1, AppendProperties DEF DeliverTold, TypeInv, TypeOK
  <2>3. QED
    BY <1>4, <1>6, <2>2 DEF DeliverTold, TypeInv, TypeOK, tableVars, counters
<1>7. QED
  BY <1>5, <1>6 DEF Delivery

\* Disconnect keeps the types.
LEMMA DisconnectType ==
    ASSUME TypeInv, NEW n \in Nodes, NEW k \in Nodes, Disconnect(n, k)
    PROVE  TypeInv'
<1>1. wire' \in [Nodes -> [Nodes -> Seq(Packet)]]
  BY EmptySeq DEF Disconnect, TypeInv, TypeOK
<1>2. terminated' \in [Nodes -> SUBSET Writers]
  BY DEF Disconnect, TypeInv, TypeOK
<1>3. disconnects' \in 0..MaxDisconnects
  BY RouterAssumption DEF Disconnect, TypeInv, TypeOK
<1>4. QED
  BY <1>1, <1>2, <1>3 DEF Disconnect, TypeInv, TypeOK, observerVars, tableVars

\* TypeInv is inductive.
LEMMA NextType == TypeInv /\ [Next]_vars => TypeInv'
<1> SUFFICES ASSUME TypeInv, [Next]_vars  PROVE TypeInv'
  OBVIOUS
<1>1. CASE Client
  BY <1>1, PublishType, ObserveType, ClientType, StopRouterType DEF Client
<1>2. ASSUME NEW n \in Nodes, RouterStep(n)  PROVE TypeInv'
  BY <1>2, HandleSubscriptionType, HandleMessageType, HandleTopologyType,
     HandleTerminatedType DEF RouterStep
<1>3. ASSUME NEW w \in Writers, ObserverStep(w)  PROVE TypeInv'
  BY <1>3, OnNextType, ClientType DEF ObserverStep
<1>4. CASE UNCHANGED vars
  BY <1>4 DEF vars, TypeInv, TypeOK, observerVars, tableVars, counters
<1>5. QED
  BY <1>1, <1>2, <1>3, <1>4, TopologyChangedType, DeliveryType, DisconnectType DEF Next

\* Every variable keeps its type, and no table grows without end, whatever the
\* numbers of nodes, observers, messages and faults.
THEOREM TypeCorrect == Spec => []TypeOK
<1>1. TypeInv => TypeOK
  BY DEF TypeInv
<1>2. QED
  BY <1>1, InitType, NextType, PTL DEF Spec

\* In every behaviour of the routers the variables keep their types and every table
\* is finite, so that HandleTopology (PublishSubscribeRouterActor) can announce it.
THEOREM TypeInvariant == Spec => []TypeInv
BY InitType, NextType, PTL DEF Spec

-----------------------------------------------------------------------------
(* The caches.                                                             *)

\* A router whose table and caches a step leaves alone stays coherent.
LEMMA CoherentUntouched ==
    ASSUME CachesCoherent, UNCHANGED <<db, lookupCache, routeCache>>
    PROVE  CachesCoherent'
BY DEF CachesCoherent

\* Clearing both caches makes them agree with any table.
LEMMA CoherentCleared ==
    ASSUME TypeInv, CachesCoherent, NEW n \in Nodes,
           ClearCache(n), ClearLookupCache(n),
           \A k \in Nodes \ {n} : db'[k] = db[k]
    PROVE  CachesCoherent'
<1> SUFFICES ASSUME NEW k \in Nodes, NEW t \in Topics
             PROVE  /\ lookupCache'[k][t] \in {Uncached, Classes(db'[k], t)}
                    /\ routeCache'[k][t] \in {Uncached, Routes(Classes(db'[k], t))}
  BY DEF CachesCoherent
<1>1. CASE k = n
  <2>1. lookupCache'[n] = EmptyCache /\ routeCache'[n] = EmptyCache
    BY DEF ClearCache, ClearLookupCache, TypeInv, TypeOK
  <2>2. QED
    BY <1>1, <2>1 DEF EmptyCache
<1>2. CASE k # n
  <2>1. lookupCache'[k] = lookupCache[k] /\ routeCache'[k] = routeCache[k]
    BY <1>2 DEF ClearCache, ClearLookupCache, TypeInv, TypeOK
  <2>2. db'[k] = db[k]
    BY <1>2
  <2>3. QED
    BY <2>1, <2>2 DEF CachesCoherent
<1>3. QED
  BY <1>1, <1>2

\* Coherent caches answer what the table answers.
LEMMA CachesAnswer ==
    ASSUME CachesCoherent, NEW n \in Nodes, NEW t \in Topics
    PROVE  /\ ClassesAt(n, t) = Classes(db[n], t)
           /\ RoutesAt(n, t) = Routes(Classes(db[n], t))
BY DEF CachesCoherent, ClassesAt, RoutesAt

\* HandleSubscription clears both caches when it changes the table, so they stay coherent.
LEMMA HandleSubscriptionCoherent ==
    ASSUME TypeInv, CachesCoherent, NEW n \in Nodes, HandleSubscription(n)
    PROVE  CachesCoherent'
<1> DEFINE e == Head(mailbox[n]).entry
<1>1. ClearLookupCache(n)
  BY DEF HandleSubscription
<1>2. CASE Taken(db[n], e)
  <2>1. UNCHANGED <<db, routeCache>>
    BY <1>2 DEF HandleSubscription
  <2>2. \A k \in Nodes : lookupCache'[k] = IF k = n THEN EmptyCache ELSE lookupCache[k]
    BY <1>1 DEF ClearLookupCache, TypeInv, TypeOK
  <2>3. \A t \in Topics : EmptyCache[t] = Uncached
    BY DEF EmptyCache
  <2>4. QED
    BY <2>1, <2>2, <2>3 DEF CachesCoherent
<1>3. CASE ~Taken(db[n], e)
  <2>1. ClearCache(n)
    BY <1>3 DEF HandleSubscription
  <2>2. \A k \in Nodes \ {n} : db'[k] = db[k]
    BY <1>3 DEF HandleSubscription, TypeInv, TypeOK
  <2>3. QED
    BY <1>1, <2>1, <2>2, CoherentCleared
<1>4. QED
  BY <1>2, <1>3

\* HandleTerminated clears both caches when it changes the table, so they stay coherent.
LEMMA HandleTerminatedCoherent ==
    ASSUME TypeInv, CachesCoherent, NEW n \in Nodes, NEW w \in Writers,
           HandleTerminated(n, w)
    PROVE  CachesCoherent'
<1>1. \A k \in Nodes \ {n} : db'[k] = db[k]
  BY DEF HandleTerminated, TypeInv, TypeOK
<1>2. QED
  BY <1>1, CoherentCleared DEF HandleTerminated

\* HandleMessage caches only what the table answers.
LEMMA HandleMessageCoherent ==
    ASSUME TypeInv, CachesCoherent, NEW n \in Nodes, HandleMessage(n)
    PROVE  CachesCoherent'
<1> DEFINE m == Head(mailbox[n]).msg
           t == m.topic
<1>1. t \in Topics
  BY HeadsType DEF HandleMessage, Heads, Envelope, SubEnvelope, MsgEnvelope,
     TopologyEnvelope, Message
<1>2. db' = db
  BY DEF HandleMessage
<1>3. \/ lookupCache' = lookupCache
      \/ lookupCache' = [lookupCache EXCEPT ![n][t] = ClassesAt(n, t)]
  BY DEF HandleMessage
<1>4. routeCache' = [routeCache EXCEPT ![n][t] = RoutesAt(n, t)]
  BY DEF HandleMessage
<1>5. /\ ClassesAt(n, t) = Classes(db[n], t)
      /\ RoutesAt(n, t) = Routes(Classes(db[n], t))
  BY <1>1, CachesAnswer
<1> HIDE DEF t
<1> SUFFICES ASSUME NEW k \in Nodes, NEW u \in Topics
             PROVE  /\ lookupCache'[k][u] \in {Uncached, Classes(db[k], u)}
                    /\ routeCache'[k][u] \in {Uncached, Routes(Classes(db[k], u))}
  BY <1>2 DEF CachesCoherent
<1>6. lookupCache'[k][u] \in {lookupCache[k][u], Classes(db[k], u)}
  <2>1. lookupCache \in [Nodes -> [Topics -> (SUBSET Class) \cup {Uncached}]]
    BY DEF TypeInv, TypeOK
  <2>2. QED
    BY <1>1, <1>3, <1>5, <2>1
<1>7. routeCache'[k][u] \in {routeCache[k][u], Routes(Classes(db[k], u))}
  <2>1. routeCache \in [Nodes -> [Topics -> (SUBSET Route) \cup {Uncached}]]
    BY DEF TypeInv, TypeOK
  <2>2. QED
    BY <1>1, <1>4, <1>5, <2>1
<1>8. QED
  BY <1>6, <1>7 DEF CachesCoherent

\* Every step keeps the caches coherent.
LEMMA NextCoherent ==
    ASSUME TypeInv, CachesCoherent, [Next]_vars
    PROVE  CachesCoherent'
<1>1. CASE Client
  BY <1>1, CoherentUntouched
     DEF Client, Publish, Observe, Unsubscribe, StopRouter, tableVars
<1>2. ASSUME NEW n \in Nodes, RouterStep(n)  PROVE CachesCoherent'
  <2>1. CASE HandleTopology(n)
    BY <2>1, CoherentUntouched DEF HandleTopology, tableVars
  <2>2. QED
    BY <1>2, <2>1, HandleSubscriptionCoherent, HandleMessageCoherent,
       HandleTerminatedCoherent DEF RouterStep
<1>3. ASSUME NEW w \in Writers, ObserverStep(w)  PROVE CachesCoherent'
  BY <1>3, CoherentUntouched DEF ObserverStep, OnNext, ObserverStops, tableVars
<1>4. ASSUME NEW n \in Nodes, NEW alive \in SUBSET Nodes, TopologyChanged(n, alive)
      PROVE CachesCoherent'
  BY <1>4, CoherentUntouched DEF TopologyChanged, tableVars
<1>5. ASSUME NEW n \in Nodes, NEW k \in Nodes, Delivery(n, k) \/ Disconnect(n, k)
      PROVE CachesCoherent'
  BY <1>5, CoherentUntouched DEF Delivery, DeliverSub, DeliverTold, Disconnect, tableVars
<1>6. CASE UNCHANGED vars
  BY <1>6, CoherentUntouched DEF vars, tableVars
<1>7. QED
  BY <1>1, <1>2, <1>3, <1>4, <1>5, <1>6 DEF Next

\* Both caches always answer what the table would, on every node, for any filter,
\* any subscriptions and any order of joins, stops, messages and announcements.
THEOREM CachesAreCoherent == Spec => []CachesCoherent
<1>1. Init => CachesCoherent
  BY DEF Init, CachesCoherent, EmptyCache
<1>2. TypeInv /\ CachesCoherent /\ [Next]_vars => CachesCoherent'
  BY NextCoherent
<1>3. QED
  BY <1>1, <1>2, TypeInvariant, PTL DEF Spec

-----------------------------------------------------------------------------
(* Observers that stop.                                                    *)

\* What one router still has to know of its subscriptions.
Noticed(n) ==
    Up(n) => \A e \in db[n] :
                /\ e.writer \in watched[n]
                /\ observer[e.writer] = "stopped" => e.writer \in terminated[n]

\* StopsAreNoticed, node by node.
LEMMA NoticedEverywhere ==
    ASSUME WatchAnswersDead
    PROVE  StopsAreNoticed <=> \A n \in Nodes : Noticed(n)
BY DEF StopsAreNoticed, Noticed

\* A step that forgets no notice, watch or table entry of a running router, and
\* stops no observer, loses nothing.
LEMMA NoticedUntouched ==
    ASSUME NEW n \in Nodes, Noticed(n), TypeOK, Up(n)' => Up(n), db'[n] = db[n],
           watched'[n] = watched[n], terminated[n] \subseteq terminated'[n],
           \A w \in Writers : observer'[w] = "stopped" => observer[w] = "stopped"
    PROVE  Noticed(n)'
<1>1. \A e \in db[n] : e.writer \in Writers
  BY DEF TypeOK, Entry
<1>2. QED
  BY <1>1 DEF Noticed

\* A stop of an observer is noticed by every router that watches it.
LEMMA ObserverStopsNoticed ==
    ASSUME TypeInv, NEW w \in Writers, ObserverStops(w), NEW n \in Nodes, Noticed(n)
    PROVE  Noticed(n)'
<1>1. /\ UNCHANGED <<router, db, watched>>
      /\ observer' = [observer EXCEPT ![w] = "stopped"]
  BY DEF ObserverStops, tableVars
<1>2. terminated'[n] = IF w \in watched[n] THEN terminated[n] \cup {w} ELSE terminated[n]
  BY DEF ObserverStops
<1>3. \A v \in Writers : observer'[v] = IF v = w THEN "stopped" ELSE observer[v]
  BY <1>1 DEF TypeInv, TypeOK
<1>4. \A e \in db[n] : e.writer \in Writers
  BY DEF TypeInv, TypeOK, Entry
<1>5. QED
  BY <1>1, <1>2, <1>3, <1>4 DEF Noticed, Up

\* A stopped router keeps no table to notice stops for.
LEMMA StopRouterNoticed ==
    ASSUME TypeInv, NEW k \in Nodes, StopRouter(k), NEW n \in Nodes, Noticed(n)
    PROVE  Noticed(n)'
<1>1. CASE n = k
  BY <1>1 DEF StopRouter, Noticed, Up, TypeInv, TypeOK
<1>2. CASE n # k
  <2>1. /\ router'[n] = router[n] /\ watched'[n] = watched[n]
        /\ terminated'[n] = terminated[n] /\ db' = db /\ observer' = observer
    BY <1>2 DEF StopRouter, TypeInv, TypeOK, observerVars
  <2>2. QED
    BY <2>1 DEF Noticed, Up
<1>3. QED
  BY <1>1, <1>2

\* A router watches what it adds, and is told at once of one that has stopped.
LEMMA HandleSubscriptionNoticed ==
    ASSUME TypeInv, WatchAnswersDead, NEW k \in Nodes, HandleSubscription(k),
           NEW n \in Nodes, Noticed(n)
    PROVE  Noticed(n)'
<1> DEFINE e == Head(mailbox[k]).entry
<1>1. UNCHANGED <<router, observer>>
  BY DEF HandleSubscription, observerVars
<1>2. CASE Taken(db[k], e)
  BY <1>1, <1>2, NoticedUntouched DEF HandleSubscription, TypeInv, Up
<1>3. CASE ~Taken(db[k], e)
  <2>1. /\ db' = [db EXCEPT ![k] = @ \cup {e}]
        /\ watched' = [watched EXCEPT ![k] = @ \cup {e.writer}]
        /\ terminated' = IF observer[e.writer] = "stopped"
                         THEN [terminated EXCEPT ![k] = @ \cup {e.writer}]
                         ELSE terminated
    BY <1>3 DEF HandleSubscription, Added
  <2> HIDE DEF e
  <2>2. CASE n = k
    <3>1. /\ db'[n] = db[n] \cup {e}
          /\ watched'[n] = watched[n] \cup {e.writer}
          /\ terminated[n] \subseteq terminated'[n]
          /\ observer[e.writer] = "stopped" => e.writer \in terminated'[n]
      BY <2>1, <2>2 DEF TypeInv, TypeOK
    <3>2. QED
      BY <1>1, <3>1 DEF Noticed, Up
  <2>3. CASE n # k
    <3>1. db'[n] = db[n] /\ watched'[n] = watched[n] /\ terminated'[n] = terminated[n]
      BY <2>1, <2>3 DEF TypeInv, TypeOK
    <3>2. QED
      BY <1>1, <3>1 DEF Noticed, Up
  <2>4. QED
    BY <2>2, <2>3
<1>4. QED
  BY <1>2, <1>3

\* A router that forgets a writer removes all its entries.
LEMMA HandleTerminatedNoticed ==
    ASSUME TypeInv, NEW k \in Nodes, NEW w \in Writers, HandleTerminated(k, w),
           NEW n \in Nodes, Noticed(n)
    PROVE  Noticed(n)'
<1>1. UNCHANGED <<router, observer>>
  BY DEF HandleTerminated, observerVars
<1>2. CASE n = k
  <2>1. /\ db'[n] = {e \in db[n] : e.writer # w}
        /\ watched'[n] = watched[n] \ {w}
        /\ terminated'[n] = terminated[n] \ {w}
    BY <1>2 DEF HandleTerminated, Removed, TypeInv, TypeOK
  <2>2. QED
    BY <1>1, <2>1 DEF Noticed, Up
<1>3. CASE n # k
  <2>1. db'[n] = db[n] /\ watched'[n] = watched[n] /\ terminated'[n] = terminated[n]
    BY <1>3 DEF HandleTerminated, TypeInv, TypeOK
  <2>2. QED
    BY <1>1, <2>1 DEF Noticed, Up
<1>4. QED
  BY <1>2, <1>3

\* Every step keeps StopsAreNoticed.
LEMMA NextNoticed ==
    ASSUME TypeInv, WatchAnswersDead, [Next]_vars, NEW n \in Nodes, Noticed(n)
    PROVE  Noticed(n)'
<1>1. ASSUME NEW w \in Writers, NEW s \in Subscriptions, Observe(w, s)
      PROVE  Noticed(n)'
  <2>1. \A v \in Writers : observer'[v] = "stopped" => observer[v] = "stopped"
    BY <1>1 DEF Observe, TypeInv, TypeOK
  <2>2. UNCHANGED <<router, db, watched, terminated>>
    BY <1>1 DEF Observe, tableVars
  <2>3. QED
    BY <2>1, <2>2, NoticedUntouched DEF TypeInv, Up
<1>2. ASSUME NEW w \in Writers, Unsubscribe(w)  PROVE Noticed(n)'
  <2>1. \A v \in Writers : observer'[v] = "stopped" => observer[v] = "stopped"
    BY <1>2 DEF Unsubscribe, TypeInv, TypeOK
  <2>2. UNCHANGED <<router, db, watched, terminated>>
    BY <1>2 DEF Unsubscribe, tableVars
  <2>3. QED
    BY <2>1, <2>2, NoticedUntouched DEF TypeInv, Up
<1>3. ASSUME NEW k \in Nodes, NEW t \in Topics, Publish(k, t)  PROVE Noticed(n)'
  BY <1>3, NoticedUntouched DEF Publish, TypeInv, Up, observerVars, tableVars
<1>4. CASE Client
  BY <1>1, <1>2, <1>3, <1>4, StopRouterNoticed DEF Client
<1>5. ASSUME NEW k \in Nodes, RouterStep(k)  PROVE Noticed(n)'
  <2>1. CASE HandleMessage(k)
    BY <2>1, NoticedUntouched DEF HandleMessage, TypeInv, Up
  <2>2. CASE HandleTopology(k)
    BY <2>2, NoticedUntouched DEF HandleTopology, TypeInv, Up, observerVars, tableVars
  <2>3. QED
    BY <1>5, <2>1, <2>2, HandleSubscriptionNoticed, HandleTerminatedNoticed
       DEF RouterStep
<1>6. ASSUME NEW w \in Writers, ObserverStep(w)  PROVE Noticed(n)'
  <2>1. CASE OnNext(w)
    BY <2>1, NoticedUntouched DEF OnNext, TypeInv, Up, tableVars
  <2>2. QED
    BY <1>6, <2>1, ObserverStopsNoticed DEF ObserverStep
<1>7. ASSUME NEW k \in Nodes, NEW alive \in SUBSET Nodes, TopologyChanged(k, alive)
      PROVE  Noticed(n)'
  BY <1>7, NoticedUntouched DEF TopologyChanged, TypeInv, Up, observerVars, tableVars
<1>8. ASSUME NEW i \in Nodes, NEW k \in Nodes, Delivery(i, k)  PROVE Noticed(n)'
  BY <1>8, NoticedUntouched
     DEF Delivery, DeliverSub, DeliverTold, TypeInv, Up, observerVars, tableVars
<1>9. ASSUME NEW i \in Nodes, NEW k \in Nodes, Disconnect(i, k)  PROVE Noticed(n)'
  <2>1. terminated[n] \subseteq terminated'[n]
    BY <1>9 DEF Disconnect, TypeInv, TypeOK
  <2>2. UNCHANGED <<router, db, watched, observer>>
    BY <1>9 DEF Disconnect, observerVars, tableVars
  <2>3. QED
    BY <2>1, <2>2, NoticedUntouched DEF TypeInv, Up
<1>10. CASE UNCHANGED vars
  BY <1>10 DEF vars, tableVars, observerVars, Noticed, Up
<1>11. QED
  BY <1>4, <1>5, <1>6, <1>7, <1>8, <1>9, <1>10 DEF Next

\* On every node, whatever the order of stops, subscriptions and announcements, no
\* table keeps a stopped observer without a Terminated on its way to the router.
THEOREM StopsNoticed == Spec => []StopsAreNoticed
<1>1. Init => StopsAreNoticed
  BY DEF Init, StopsAreNoticed
<1>2. TypeInv /\ StopsAreNoticed /\ [Next]_vars => StopsAreNoticed'
  <2> SUFFICES ASSUME TypeInv, StopsAreNoticed, [Next]_vars, WatchAnswersDead
               PROVE  \A n \in Nodes : Noticed(n)'
    BY DEF StopsAreNoticed, Noticed
  <2>1. \A n \in Nodes : Noticed(n)
    BY NoticedEverywhere
  <2>2. QED
    BY <2>1, NextNoticed
<1>3. QED
  BY <1>1, <1>2, TypeInvariant, PTL DEF Spec

-----------------------------------------------------------------------------
(* What a router may forget.                                               *)

\* The reasons for which router n may be told that w terminated.
Gone(n, w) ==
    \/ observer[w] = "stopped"
    \/ Home[w] # n /\ disconnects > 0

TerminatedJustified == \A n \in Nodes : \A w \in terminated[n] : Gone(n, w)

\* An observer that stopped stays stopped, and no break is undone.
LEMMA GoneStays ==
    ASSUME TypeInv, [Next]_vars, NEW n \in Nodes, NEW w \in Writers, Gone(n, w)
    PROVE  Gone(n, w)'
<1>1. disconnects \in Nat
  BY RouterAssumption DEF TypeInv, TypeOK
<1>2. CASE Client
  <2>1. disconnects' = disconnects
    BY <1>2 DEF Client, Publish, Observe, Unsubscribe, StopRouter, counters
  <2>2. observer[w] = "stopped" => observer'[w] = "stopped"
    BY <1>2 DEF Client, Publish, Observe, Unsubscribe, StopRouter, observerVars,
       TypeInv, TypeOK
  <2>3. QED
    BY <2>1, <2>2 DEF Gone
<1>3. ASSUME NEW k \in Nodes, RouterStep(k)  PROVE UNCHANGED <<observer, disconnects>>
  BY <1>3 DEF RouterStep, HandleSubscription, HandleMessage, HandleTopology,
     HandleTerminated, observerVars, counters
<1>4. ASSUME NEW v \in Writers, ObserverStep(v)  PROVE Gone(n, w)'
  <2>1. disconnects' = disconnects
    BY <1>4 DEF ObserverStep, OnNext, ObserverStops, counters
  <2>2. observer[w] = "stopped" => observer'[w] = "stopped"
    BY <1>4 DEF ObserverStep, OnNext, ObserverStops, TypeInv, TypeOK
  <2>3. QED
    BY <2>1, <2>2 DEF Gone
<1>5. ASSUME NEW k \in Nodes, NEW alive \in SUBSET Nodes, TopologyChanged(k, alive)
      PROVE  UNCHANGED <<observer, disconnects>>
  BY <1>5 DEF TopologyChanged, observerVars
<1>6. ASSUME NEW i \in Nodes, NEW k \in Nodes, Delivery(i, k)
      PROVE  UNCHANGED <<observer, disconnects>>
  BY <1>6 DEF Delivery, DeliverSub, DeliverTold, observerVars, counters
<1>7. ASSUME NEW i \in Nodes, NEW k \in Nodes, Disconnect(i, k)
      PROVE  observer' = observer /\ disconnects' = disconnects + 1
  BY <1>7 DEF Disconnect, observerVars
<1>8. CASE UNCHANGED vars
  BY <1>8 DEF vars, observerVars, counters, Gone
<1>9. QED
  BY <1>1, <1>2, <1>3, <1>4, <1>5, <1>6, <1>7, <1>8 DEF Next, Gone

\* A step tells a router of no writer that is not gone after the step.
LEMMA NewlyTerminatedGone ==
    ASSUME TypeInv, [Next]_vars, NEW n \in Nodes, NEW w \in terminated'[n] \ terminated[n]
    PROVE  Gone(n, w)'
<1>1. disconnects \in Nat /\ terminated \in [Nodes -> SUBSET Writers]
  BY RouterAssumption DEF TypeInv, TypeOK
<1>2. ASSUME NEW v \in Writers, ObserverStops(v)  PROVE Gone(n, w)'
  <2>1. w = v
    BY <1>2 DEF ObserverStops
  <2>2. observer'[v] = "stopped"
    BY <1>2 DEF ObserverStops, TypeInv, TypeOK
  <2>3. QED
    BY <2>1, <2>2 DEF Gone
<1>3. ASSUME NEW k \in Nodes, HandleSubscription(k)  PROVE Gone(n, w)'
  <2> DEFINE v == Head(mailbox[k]).entry.writer
  <2>1. observer' = observer
    BY <1>3 DEF HandleSubscription, observerVars
  <2>2. \/ terminated' = terminated
        \/ /\ terminated' = [terminated EXCEPT ![k] = @ \cup {v}]
           /\ observer[v] = "stopped"
    BY <1>3 DEF HandleSubscription
  <2> HIDE DEF v
  <2>3. w = v /\ observer[v] = "stopped"
    BY <1>1, <2>2
  <2>4. QED
    BY <2>1, <2>3 DEF Gone
<1>4. ASSUME NEW i \in Nodes, NEW k \in Nodes, Disconnect(i, k)  PROVE Gone(n, w)'
  <2>1. i # k /\ disconnects' = disconnects + 1
    BY <1>4 DEF Disconnect
  <2>2. terminated' = [terminated EXCEPT ![i] = @ \cup (watched[i] \cap At(k))]
    BY <1>4 DEF Disconnect
  <2>3. n = i /\ w \in At(k)
    BY <1>1, <2>2
  <2>4. QED
    BY <1>1, <2>1, <2>3 DEF Gone, At
<1>5. ASSUME NEW k \in Nodes, NEW v \in Writers, HandleTerminated(k, v)  PROVE FALSE
  BY <1>1, <1>5 DEF HandleTerminated
<1>6. ASSUME NEW k \in Nodes, HandleMessage(k) \/ HandleTopology(k)  PROVE FALSE
  BY <1>6 DEF HandleMessage, HandleTopology
<1>7. ASSUME Client  PROVE FALSE
  BY <1>1, <1>7 DEF Client, Publish, Observe, Unsubscribe, StopRouter
<1>8. ASSUME NEW v \in Writers, OnNext(v)  PROVE FALSE
  BY <1>8 DEF OnNext
<1>9. ASSUME NEW k \in Nodes, NEW alive \in SUBSET Nodes, TopologyChanged(k, alive)
      PROVE  FALSE
  BY <1>9 DEF TopologyChanged
<1>10. ASSUME NEW i \in Nodes, NEW k \in Nodes, Delivery(i, k)  PROVE FALSE
  BY <1>10 DEF Delivery, DeliverSub, DeliverTold
<1>11. ASSUME UNCHANGED vars  PROVE FALSE
  BY <1>11 DEF vars
<1>12. QED
  BY <1>2, <1>3, <1>4, <1>5, <1>6, <1>7, <1>8, <1>9, <1>10, <1>11
     DEF Next, RouterStep, ObserverStep

\* Only HandleTerminated takes entries out of a table.
LEMMA ForgottenTerminated ==
    ASSUME TypeInv, [Next]_vars, NEW n \in Nodes, NEW e \in db[n] \ db'[n]
    PROVE  e.writer \in terminated[n]
<1>1. db \in [Nodes -> SUBSET Entry]
  BY DEF TypeInv, TypeOK
<1>2. ASSUME NEW k \in Nodes, NEW w \in Writers, HandleTerminated(k, w)
      PROVE  e.writer \in terminated[n]
  BY <1>1, <1>2 DEF HandleTerminated, Removed
<1>3. ASSUME NEW k \in Nodes, HandleSubscription(k)  PROVE FALSE
  BY <1>1, <1>3 DEF HandleSubscription, Added
<1>4. ASSUME NEW k \in Nodes, HandleMessage(k) \/ HandleTopology(k)  PROVE FALSE
  BY <1>4 DEF HandleMessage, HandleTopology, tableVars
<1>5. ASSUME Client  PROVE FALSE
  BY <1>5 DEF Client, Publish, Observe, Unsubscribe, StopRouter, tableVars
<1>6. ASSUME NEW v \in Writers, ObserverStep(v)  PROVE FALSE
  BY <1>6 DEF ObserverStep, OnNext, ObserverStops, tableVars
<1>7. ASSUME NEW k \in Nodes, NEW alive \in SUBSET Nodes, TopologyChanged(k, alive)
      PROVE  FALSE
  BY <1>7 DEF TopologyChanged, tableVars
<1>8. ASSUME NEW i \in Nodes, NEW k \in Nodes, Delivery(i, k) \/ Disconnect(i, k)
      PROVE  FALSE
  BY <1>8 DEF Delivery, DeliverSub, DeliverTold, Disconnect, tableVars
<1>9. ASSUME UNCHANGED vars  PROVE FALSE
  BY <1>9 DEF vars, tableVars
<1>10. QED
  BY <1>2, <1>3, <1>4, <1>5, <1>6, <1>7, <1>8, <1>9 DEF Next, RouterStep

\* No router is ever told that a writer terminated for any other reason than that it
\* stopped or, when it lives on another node, that a connection broke.
THEOREM TerminatedIsJustified == Spec => []TerminatedJustified
<1>1. Init => TerminatedJustified
  BY DEF Init, TerminatedJustified
<1>2. TypeInv /\ TerminatedJustified /\ [Next]_vars => TerminatedJustified'
  <2> SUFFICES ASSUME TypeInv, TerminatedJustified, [Next]_vars,
                      NEW n \in Nodes, NEW w \in terminated'[n]
               PROVE  Gone(n, w)'
    BY DEF TerminatedJustified, Gone
  <2>1. CASE w \in terminated[n]
    <3>1. w \in Writers /\ Gone(n, w)
      BY <2>1 DEF TypeInv, TypeOK, TerminatedJustified
    <3>2. QED
      BY <3>1, GoneStays
  <2>2. QED
    BY <2>1, NewlyTerminatedGone
<1>3. QED
  BY <1>1, <1>2, TypeInvariant, PTL DEF Spec

\* No step of the system makes a router forget a live observer of its own node, nor,
\* while connections hold, one of another node.
THEOREM OnlyTheGoneForgotten == Spec => OnlyGoneForgotten
<1>1. TypeInv /\ TerminatedJustified /\ [Next]_vars =>
        [\A n \in Nodes : \A e \in db[n] \ db'[n] :
            \/ observer[e.writer] = "stopped"
            \/ Home[e.writer] # n /\ disconnects > 0]_vars
  <2> SUFFICES ASSUME TypeInv, TerminatedJustified, [Next]_vars,
                      NEW n \in Nodes, NEW e \in db[n] \ db'[n]
               PROVE  Gone(n, e.writer)
    BY DEF Gone
  <2>1. e.writer \in terminated[n]
    BY ForgottenTerminated
  <2>2. QED
    BY <2>1 DEF TerminatedJustified
<1>2. QED
  BY <1>1, TypeInvariant, TerminatedIsJustified, PTL DEF Spec, OnlyGoneForgotten
=============================================================================
