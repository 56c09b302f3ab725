----------------------------- MODULE PubSubRouter -----------------------------
(***************************************************************************)
(* The Proto.Actor publish/subscribe of vivego: on every node a router     *)
(* actor (PublishSubscribeRouterActor) with a subscription table behind    *)
(* two caches, observers (the actors PublishSubscribe.Observe spawns), and *)
(* the exchange of subscriptions between nodes on a topology event.        *)
(*                                                                         *)
(* The actor library is outside the repository and is modelled by what the *)
(* code relies on: an actor handles one message at a time, a mailbox and a *)
(* connection are FIFO, a full bounded mailbox blocks its sender, a watch  *)
(* is answered by Terminated, and a broken connection terminates what was  *)
(* watched through it and loses what was queued on it.                     *)
(***************************************************************************)
EXTENDS SubscriptionLookup, Sequences, FiniteSets, Integers

CONSTANTS
    Nodes,
    Home,               \* the node each observer actor lives on
    Subscriptions,      \* the subscriptions observers ask for
    NoSub,              \* the subscription of an observer not yet spawned
    Uncached,           \* no entry of a cache
    WatchAnswersDead,   \* does watching a dead PID yield Terminated?
    MailboxCapacity,    \* sendBufferSize
    MaxPublished,       \* bound: messages published
    MaxTopologyEvents,  \* bound: topology events raised
    MaxDisconnects      \* bound: connections broken

ASSUME RouterAssumption ==
    /\ Home \in [Writers -> Nodes]
    /\ Subscriptions \subseteq [pattern : Patterns, group : Groups, hashBy : BOOLEAN]
    /\ NoSub \notin Entry
    /\ WatchAnswersDead \in BOOLEAN
    /\ {MailboxCapacity, MaxPublished, MaxTopologyEvents, MaxDisconnects} \subseteq Nat

VARIABLES
    observer,     \* the life of each observer actor
    sub,          \* its subscription
    inbox,        \* its mailbox
    received,     \* what OnNext was called with
    router,       \* is the router actor of the node up?
    mailbox,      \* its user mailbox
    db,           \* its subscription table
    lookupCache,  \* SubscriptionWriterLookupCache._lookupCache, by topic
    routeCache,   \* PublishSubscribeRouterActor._lookupCache, by topic
    watched,      \* the PIDs it watches
    terminated,   \* the Terminated notices sent to it and not yet handled
    wire,         \* wire[n][k]: what n told actors of k and k has not got yet
    published, topologyEvents, disconnects,  \* counters, for the bounds
    due,          \* history: who was subscribed, and alone responsible, at Publish
    routed        \* history: whom each message was told to

observerVars == <<observer, sub, inbox, received>>
tableVars == <<db, lookupCache, routeCache, watched>>
counters == <<published, topologyEvents, disconnects>>
vars == <<observerVars, router, mailbox, tableVars, terminated, wire, counters,
          due, routed>>

Message == [id : 1..MaxPublished, topic : Topics, node : Nodes]

SubEnvelope == [kind : {"sub"}, entry : Entry]
MsgEnvelope == [kind : {"msg"}, msg : Message]
TopologyEnvelope == [kind : {"topology"}, alive : SUBSET Nodes]
Envelope == SubEnvelope \cup MsgEnvelope \cup TopologyEnvelope
Packet == SubEnvelope \cup [kind : {"told"}, to : SUBSET Writers, msg : Message]

Up(n) == router[n] = "up"
Live(w) == observer[w] \in {"running", "stopping"}
At(n) == {w \in Writers : Home[w] = n}
EmptyCache == [t \in Topics |-> Uncached]

Init ==
    /\ observer = [w \in Writers |-> "unspawned"]
    /\ sub = [w \in Writers |-> NoSub]
    /\ inbox = [w \in Writers |-> <<>>]
    /\ received = [w \in Writers |-> <<>>]
    /\ router = [n \in Nodes |-> "up"]
    /\ mailbox = [n \in Nodes |-> <<>>]
    /\ db = [n \in Nodes |-> {}]
    /\ lookupCache = [n \in Nodes |-> EmptyCache]
    /\ routeCache = [n \in Nodes |-> EmptyCache]
    /\ watched = [n \in Nodes |-> {}]
    /\ terminated = [n \in Nodes |-> {}]
    /\ wire = [n \in Nodes |-> [k \in Nodes |-> <<>>]]
    /\ published = 0
    /\ topologyEvents = 0
    /\ disconnects = 0
    /\ due = {}
    /\ routed = {}

-----------------------------------------------------------------------------
(* Telling the router: a full mailbox holds the sender, a stopped router   *)
(* turns the message into a dead letter.                                   *)

Room(n, k) == Len(mailbox[n]) + k =< MailboxCapacity

\* Fault: a full mailbox drops what it is told.
TellDropsWhenFull(n, env) ==
    mailbox' = IF Up(n) /\ Room(n, 1) THEN [mailbox EXCEPT ![n] = Append(@, env)]
                                     ELSE mailbox

Tell(n, env) ==
    /\ Up(n) => Room(n, 1)
    /\ mailbox' = IF Up(n) THEN [mailbox EXCEPT ![n] = Append(@, env)] ELSE mailbox

-----------------------------------------------------------------------------
(* The clients: PublishSubscribe.                                          *)

\* The writers that a message of the topic, published on n now, must reach: plain
\* subscriptions whose request is already in front of the message.
Owed(n, t) ==
    {w \in At(n) : /\ Up(n)
                   /\ observer[w] = "running"
                   /\ Broadcast(sub[w])
                   /\ <<sub[w].pattern, t>> \in Matches}

Publish(n, t) ==
    /\ published < MaxPublished
    /\ LET m == [id |-> published + 1, topic |-> t, node |-> n]
       IN /\ Tell(n, [kind |-> "msg", msg |-> m])
          /\ due' = due \cup {<<w, m>> : w \in Owed(n, t)}
    /\ published' = published + 1
    /\ UNCHANGED <<observerVars, router, tableVars, terminated, wire,
                   topologyEvents, disconnects, routed>>

\* Fault: a subscription without a group names none, not the empty one.
ProtoSubscriptionNullGroup(w, s) ==
    [writer |-> w, pattern |-> s.pattern, hashBy |-> s.hashBy,
     group |-> IF s.group = NoGroup THEN NoSub ELSE s.group]

ProtoSubscription(w, s) ==
    [writer |-> w, pattern |-> s.pattern, group |-> s.group, hashBy |-> s.hashBy]

\* Observe(...).Subscribe: spawn the observer actor, tell the local router.
Observe(w, s) ==
    /\ observer[w] = "unspawned"
    /\ LET e == ProtoSubscription(w, s)
       IN /\ Tell(Home[w], [kind |-> "sub", entry |-> e])
          /\ sub' = [sub EXCEPT ![w] = e]
    /\ observer' = [observer EXCEPT ![w] = "running"]
    /\ UNCHANGED <<inbox, received, router, tableVars, terminated, wire, counters,
                   due, routed>>

\* Disposing the subscription stops the actor; the observer hears no more.
Unsubscribe(w) ==
    /\ observer[w] = "running"
    /\ observer' = [observer EXCEPT ![w] = "stopping"]
    /\ UNCHANGED <<sub, inbox, received, router, mailbox, tableVars, terminated,
                   wire, counters, due, routed>>

\* The observer actor handles a message: observer.OnNext.
OnNext(w) ==
    /\ observer[w] = "running"
    /\ inbox[w] # <<>>
    /\ received' = [received EXCEPT ![w] = Append(@, Head(inbox[w]))]
    /\ inbox' = [inbox EXCEPT ![w] = Tail(@)]
    /\ UNCHANGED <<observer, sub, router, mailbox, tableVars, terminated, wire,
                   counters, due, routed>>

\* Fault: only the router of its own node is told.
ObserverStopsHome(w) ==
    /\ observer[w] = "stopping"
    /\ observer' = [observer EXCEPT ![w] = "stopped"]
    /\ inbox' = [inbox EXCEPT ![w] = <<>>]
    /\ terminated' = [n \in Nodes |-> IF w \in watched[n] /\ Home[w] = n
                                      THEN terminated[n] \cup {w} ELSE terminated[n]]
    /\ UNCHANGED <<sub, received, router, mailbox, tableVars, wire, counters, due,
                   routed>>

\* The observer actor stops: its mailbox is dropped and its watchers are told.
ObserverStops(w) ==
    /\ observer[w] = "stopping"
    /\ observer' = [observer EXCEPT ![w] = "stopped"]
    /\ inbox' = [inbox EXCEPT ![w] = <<>>]
    /\ terminated' = [n \in Nodes |-> IF w \in watched[n] THEN terminated[n] \cup {w}
                                                          ELSE terminated[n]]
    /\ UNCHANGED <<sub, received, router, mailbox, tableVars, wire, counters, due,
                   routed>>

\* PublishSubscribe.Dispose stops the router of the node, not its observers.
StopRouter(n) ==
    /\ Up(n)
    /\ router' = [router EXCEPT ![n] = "stopped"]
    /\ mailbox' = [mailbox EXCEPT ![n] = <<>>]
    /\ watched' = [watched EXCEPT ![n] = {}]
    /\ terminated' = [terminated EXCEPT ![n] = {}]
    /\ UNCHANGED <<observerVars, db, lookupCache, routeCache, wire, counters, due,
                   routed>>

-----------------------------------------------------------------------------
(* The router: PublishSubscribeRouterActor.ReceiveAsync.                   *)

\* Fault: a message that finds no route cached is told again behind the others.
ConsumeRequeued(n) ==
    LET head == Head(mailbox[n])
        again == head.kind = "msg" /\ routeCache[n][head.msg.topic] = Uncached
    IN mailbox' = [mailbox EXCEPT ![n] = IF again THEN Append(Tail(@), head) ELSE Tail(@)]

\* The mailbox hands its first message over once.
Consume(n) == mailbox' = [mailbox EXCEPT ![n] = Tail(@)]

\* Fault: the routes found before the table changed are kept.
ClearNothing(n) == UNCHANGED routeCache

ClearCache(n) == routeCache' = [routeCache EXCEPT ![n] = EmptyCache]

\* Fault: the classes found before the table changed are kept.
ClearTableNothing(n) == UNCHANGED lookupCache

\* The table's cache is cleared by Add and Remove, whatever they did.
ClearLookupCache(n) == lookupCache' = [lookupCache EXCEPT ![n] = EmptyCache]

Heads(n, kind) == Up(n) /\ mailbox[n] # <<>> /\ Head(mailbox[n]).kind = kind

\* Fault: an observer that stopped already is taken into the table unwatched.
HandleSubscriptionUnwatched(n) ==
    /\ Heads(n, "sub")
    /\ Consume(n)
    /\ ClearLookupCache(n)
    /\ db' = [db EXCEPT ![n] = Added(@, Head(mailbox[n]).entry)]
    /\ ClearCache(n)
    /\ watched' = [watched EXCEPT ![n] = @ \cup {Head(mailbox[n]).entry.writer}]
    /\ UNCHANGED <<observerVars, router, terminated, wire, counters, due, routed>>

\* Add clears the table's cache even when it adds nothing; the router clears its
\* own, and watches the writer, only when the subscription is new.
HandleSubscription(n) ==
    /\ Heads(n, "sub")
    /\ Consume(n)
    /\ ClearLookupCache(n)
    /\ LET e == Head(mailbox[n]).entry
           w == e.writer
       IN IF Taken(db[n], e)
          THEN UNCHANGED <<db, routeCache, watched, terminated>>
          ELSE /\ db' = [db EXCEPT ![n] = Added(@, e)]
               /\ ClearCache(n)
               /\ watched' = [watched EXCEPT ![n] = @ \cup {w}]
               /\ terminated' =
                    IF observer[w] = "stopped" /\ WatchAnswersDead
                    THEN [terminated EXCEPT ![n] = @ \cup {w}]
                    ELSE terminated
    /\ UNCHANGED <<observerVars, router, wire, counters, due, routed>>

\* The classes and the routes a message of the topic finds, through the caches.
ClassesAt(n, t) ==
    IF lookupCache[n][t] = Uncached THEN Classes(db[n], t) ELSE lookupCache[n][t]
RoutesAt(n, t) ==
    IF routeCache[n][t] = Uncached THEN Routes(ClassesAt(n, t)) ELSE routeCache[n][t]

\* The message reaches the live local writers and the connections to the others.
Dispatch(n, m, to) ==
    /\ inbox' = [w \in Writers |-> IF w \in to \cap At(n) /\ Live(w)
                                   THEN Append(inbox[w], m) ELSE inbox[w]]
    /\ wire' = [wire EXCEPT ![n] = [k \in Nodes |->
                    IF k # n /\ to \cap At(k) # {}
                    THEN Append(wire[n][k],
                                [kind |-> "told", to |-> to \cap At(k), msg |-> m])
                    ELSE wire[n][k]]]
    /\ routed' = routed \cup {[msg |-> m, to |-> to]}

HandleMessage(n) ==
    /\ Heads(n, "msg")
    /\ Consume(n)
    /\ LET m == Head(mailbox[n]).msg
           t == m.topic
       IN /\ lookupCache' = IF routeCache[n][t] = Uncached
                            THEN [lookupCache EXCEPT ![n][t] = ClassesAt(n, t)]
                            ELSE lookupCache
          /\ routeCache' = [routeCache EXCEPT ![n][t] = RoutesAt(n, t)]
          /\ \E to \in Selections(RoutesAt(n, t)) : Dispatch(n, m, to)
    /\ UNCHANGED <<observer, sub, received, router, db, watched, terminated, counters,
                   due>>

\* The orders in which the table may be enumerated.
Orders(S) == {q \in [1..Cardinality(S) -> S] : \A i, j \in DOMAIN q : q[i] = q[j] => i = j}

\* Fault: the group of a subscription is not announced.
AnnounceUngrouped(q) ==
    [i \in 1..Len(q) |-> [kind |-> "sub", entry |-> [q[i] EXCEPT !.group = NoGroup]]]

Announce(q) == [i \in 1..Len(q) |-> [kind |-> "sub", entry |-> q[i]]]

\* Every subscription the node knows is told to the router of every alive member,
\* and so to itself when the event names it.
HandleTopology(n) ==
    /\ Heads(n, "topology")
    /\ LET alive == Head(mailbox[n]).alive
       IN /\ n \in alive => Room(n, Cardinality(db[n]) - 1)
          /\ \E q \in Orders(db[n]) :
                /\ mailbox' = [mailbox EXCEPT ![n] =
                                  Tail(@) \o (IF n \in alive THEN Announce(q) ELSE <<>>)]
                /\ wire' = [wire EXCEPT ![n] = [k \in Nodes |->
                                IF k \in alive \ {n} THEN wire[n][k] \o Announce(q)
                                                     ELSE wire[n][k]]]
    /\ UNCHANGED <<observerVars, router, tableVars, terminated, counters, due, routed>>

HandleTerminated(n, w) ==
    /\ Up(n)
    /\ w \in terminated[n]
    /\ terminated' = [terminated EXCEPT ![n] = @ \ {w}]
    /\ watched' = [watched EXCEPT ![n] = @ \ {w}]
    /\ ClearCache(n)
    /\ ClearLookupCache(n)
    /\ db' = [db EXCEPT ![n] = Removed(@, w)]
    /\ UNCHANGED <<observerVars, router, mailbox, wire, counters, due, routed>>

-----------------------------------------------------------------------------
(* The cluster: membership events, connections between nodes.              *)

\* The cluster provider publishes a ClusterTopologyEvent on the node.
TopologyChanged(n, alive) ==
    /\ topologyEvents < MaxTopologyEvents
    /\ topologyEvents' = topologyEvents + 1
    /\ Tell(n, [kind |-> "topology", alive |-> alive])
    /\ UNCHANGED <<observerVars, router, tableVars, terminated, wire, published,
                   disconnects, due, routed>>

DeliverSub(n, k) ==
    /\ wire[n][k] # <<>>
    /\ Head(wire[n][k]).kind = "sub"
    /\ Tell(k, Head(wire[n][k]))
    /\ wire' = [wire EXCEPT ![n][k] = Tail(@)]
    /\ UNCHANGED <<observerVars, router, tableVars, terminated, counters, due, routed>>

DeliverTold(n, k) ==
    /\ wire[n][k] # <<>>
    /\ LET p == Head(wire[n][k])
       IN /\ p.kind = "told"
          /\ inbox' = [w \in Writers |-> IF w \in p.to /\ Live(w)
                                         THEN Append(inbox[w], p.msg) ELSE inbox[w]]
    /\ wire' = [wire EXCEPT ![n][k] = Tail(@)]
    /\ UNCHANGED <<observer, sub, received, router, mailbox, tableVars, terminated,
                   counters, due, routed>>

\* The connection from n to k breaks.
Disconnect(n, k) ==
    /\ n # k
    /\ disconnects < MaxDisconnects
    /\ disconnects' = disconnects + 1
    /\ wire' = [wire EXCEPT ![n][k] = <<>>]
    /\ terminated' = [terminated EXCEPT ![n] = @ \cup (watched[n] \cap At(k))]
    /\ UNCHANGED <<observerVars, router, mailbox, tableVars, published,
                   topologyEvents, due, routed>>

-----------------------------------------------------------------------------
RouterStep(n) ==
    \/ HandleSubscription(n)
    \/ HandleMessage(n)
    \/ HandleTopology(n)
    \/ \E w \in Writers : HandleTerminated(n, w)

ObserverStep(w) == OnNext(w) \/ ObserverStops(w)

Client ==
    \/ \E n \in Nodes, t \in Topics : Publish(n, t)
    \/ \E w \in Writers, s \in Subscriptions : Observe(w, s)
    \/ \E w \in Writers : Unsubscribe(w)
    \/ \E n \in Nodes : StopRouter(n)

Delivery(n, k) == DeliverSub(n, k) \/ DeliverTold(n, k)

Next ==
    \/ Client
    \/ \E n \in Nodes : RouterStep(n)
    \/ \E w \in Writers : ObserverStep(w)
    \/ \E n \in Nodes, alive \in SUBSET Nodes : TopologyChanged(n, alive)
    \/ \E n, k \in Nodes : Delivery(n, k)
    \/ \E n, k \in Nodes : Disconnect(n, k)

Spec == Init /\ [][Next]_vars

\* Actors whose mailbox holds a message are scheduled, and an unbroken connection
\* delivers; clients, membership and faults are under no obligation.
Fairness ==
    /\ \A n \in Nodes : WF_vars(RouterStep(n))
    /\ \A w \in Writers : WF_vars(ObserverStep(w))
    /\ \A n, k \in Nodes : WF_vars(Delivery(n, k))

FairSpec == Spec /\ Fairness

-----------------------------------------------------------------------------
(* Properties.                                                             *)

\* Every variable keeps its type.
TypeOK ==
    /\ observer \in [Writers -> {"unspawned", "running", "stopping", "stopped"}]
    /\ sub \in [Writers -> Entry \cup {NoSub}]
    /\ inbox \in [Writers -> Seq(Message)]
    /\ received \in [Writers -> Seq(Message)]
    /\ router \in [Nodes -> {"up", "stopped"}]
    /\ mailbox \in [Nodes -> Seq(Envelope)]
    /\ db \in [Nodes -> SUBSET Entry]
    /\ lookupCache \in [Nodes -> [Topics -> (SUBSET Class) \cup {Uncached}]]
    /\ routeCache \in [Nodes -> [Topics -> (SUBSET Route) \cup {Uncached}]]
    /\ watched \in [Nodes -> SUBSET Writers]
    /\ terminated \in [Nodes -> SUBSET Writers]
    /\ wire \in [Nodes -> [Nodes -> Seq(Packet)]]
    /\ published \in 0..MaxPublished
    /\ topologyEvents \in 0..MaxTopologyEvents
    /\ disconnects \in 0..MaxDisconnects
    /\ due \subseteq Writers \X Message
    /\ routed \subseteq [msg : Message, to : SUBSET Writers]

\* Neither cache ever answers anything but what the table would answer now: each
\* change of the table clears both (PublishSubscribeRouterActor, ReceiveAsync).
CachesCoherent ==
    \A n \in Nodes, t \in Topics :
        /\ lookupCache[n][t] \in {Uncached, Classes(db[n], t)}
        /\ routeCache[n][t] \in {Uncached, Routes(Classes(db[n], t))}

\* No subscription outlives its observer unnoticed: the router watches every writer
\* of its table, and has the notice of each that stopped still to handle, also when
\* the subscription arrives, or is told again, after the writer stopped.
StopsAreNoticed ==
    WatchAnswersDead =>
        \A n \in Nodes : Up(n) =>
            \A e \in db[n] :
                /\ e.writer \in watched[n]
                /\ observer[e.writer] = "stopped" => e.writer \in terminated[n]

InMailbox(n, m) == \E i \in DOMAIN mailbox[n] : /\ mailbox[n][i].kind = "msg"
                                                /\ mailbox[n][i].msg = m
In(m, queue) == \E i \in DOMAIN queue : queue[i] = m

\* A plain subscriber that subscribed before a matching message was published on its
\* node gets it: until it unsubscribes the message is in the router's mailbox, in
\* its own, or received, whatever the caches held and whoever came or left between.
SubscribedBeforeGets ==
    \A d \in due :
        LET w == d[1]
            m == d[2]
        IN observer[w] = "running" /\ Up(Home[w]) =>
              InMailbox(Home[w], m) \/ In(m, inbox[w]) \/ In(m, received[w])

\* An observer sees the messages published on one node in the order they were
\* published, and none of them twice, also over a connection that breaks.
PublishOrder ==
    \A w \in Writers :
        LET seen == received[w] \o inbox[w]
        IN \A i, j \in DOMAIN seen :
              i < j /\ seen[i].node = seen[j].node => seen[i].id < seen[j].id

\* A router forgets a subscription only when its observer stopped, or, for an
\* observer of another node, when the connection to that node broke.
OnlyGoneForgotten ==
    [][\A n \in Nodes : \A e \in db[n] \ db'[n] :
          \/ observer[e.writer] = "stopped"
          \/ Home[e.writer] # n /\ disconnects > 0]_vars

\* The promise of a router, without its caches: see PubSubPromise.
Promise == INSTANCE PubSubPromise WITH table <- db
PromiseKept == Promise!Spec

\* Every stopped observer is forgotten by every running router, for good: a late
\* announcement, or the router's own, may bring it back but not keep it.
StoppedForgotten ==
    <>[](\A n \in Nodes : Up(n) =>
            \A e \in db[n] : observer[e.writer] # "stopped")

\* A message owed to a subscriber is received by it, unless it unsubscribes or its
\* router is stopped before.
OwedReceived ==
    \A w \in Writers, m \in Message :
        <<w, m>> \in due ~> \/ In(m, received[w])
                            \/ observer[w] # "running"
                            \/ ~Up(Home[w])

\* A topology event spreads the table: what n knows when it handles the event every
\* alive member comes to know, unless the observer or a router stops, or a
\* connection breaks, before.
TopologySpreads ==
    \A n, k \in Nodes, w \in Writers :
        (/\ Heads(n, "topology")
         /\ k \in Head(mailbox[n]).alive
         /\ sub[w] \in db[n])
        ~> \/ sub[w] \in db[k]
           \/ observer[w] = "stopped"
           \/ ~Up(n)
           \/ ~Up(k)
           \/ disconnects > 0
=============================================================================
