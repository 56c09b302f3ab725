----------------------------- MODULE WampBackplane -----------------------------
(***************************************************************************)
(* The backplane of a WAMP realm (RealmExtensions.EnableDistributedBack-   *)
(* plane): what clients publish on one node is forwarded to the realms of  *)
(* the others.  A raw subscriber forwards every event of its topic; while  *)
(* a message of another node is replayed into the realm, a flag shared by  *)
(* all topics and threads tells it not to.                                 *)
(*                                                                         *)
(* A realm raises the events of a topic on the thread that publishes, and  *)
(* drops the subscribers of a topic that it removes.  The replays of a     *)
(* node run in the lanes its Observe hands messages out on: one with the   *)
(* Proto.Actor implementation, one per server with gRPC.                   *)
(***************************************************************************)
EXTENDS Naturals

CONSTANTS
    Nodes, Topics,
    Messages,    \* what clients publish, each once
    At, TopicOf, \* the node and the topic of each
    Lanes,       \* the threads that OnNext may run on
    NodeOf,      \* the node of each
    Nothing,     \* the message of a lane that replays none
    Restless,    \* bound: the nodes that remove topics and dispose the backplane
    MaxLives     \* bound: how often a topic is created on a node

ASSUME BackplaneAssumption ==
    /\ At \in [Messages -> Nodes]
    /\ TopicOf \in [Messages -> Topics]
    /\ NodeOf \in [Lanes -> Nodes]
    /\ Nothing \notin Messages
    /\ Restless \subseteq Nodes
    /\ MaxLives \in Nat

VARIABLES
    topic,       \* where each topic of each realm is
    life,        \* the number of times it was created
    forwarder,   \* the topic has the subscriber that forwards
    kept,        \* disposables: the creation whose subscription it holds, or 0
    backplane,   \* how far the backplane of each node is disposed
    flag,        \* disableInternalPublishAtomicBoolean
    event,       \* where the event of each published message is
    net,         \* the forwarded messages that are on their way
    replay,      \* the message each lane replays
    replaying,   \* where that replay is
    met,         \* history: the lanes during whose replay another one of the node ended
    late,        \* history: the topics whose creation met the disposal
    replayed     \* history: pairs <<n, m>>: n has replayed m

topicVars == <<topic, life, forwarder, kept, late>>
replayVars == <<replay, replaying, met, replayed>>
vars == <<topicVars, backplane, flag, event, net, replayVars>>

Forwarded == [msg : Messages, publisher : Nodes, to : Nodes]

Init ==
    /\ topic = [n \in Nodes |-> [t \in Topics |-> "none"]]
    /\ life = [n \in Nodes |-> [t \in Topics |-> 0]]
    /\ forwarder = [n \in Nodes |-> [t \in Topics |-> FALSE]]
    /\ kept = [n \in Nodes |-> [t \in Topics |-> 0]]
    /\ backplane = [n \in Nodes |-> "on"]
    /\ flag = [n \in Nodes |-> FALSE]
    /\ event = [m \in Messages |-> "none"]
    /\ net = {}
    /\ replay = [l \in Lanes |-> Nothing]
    /\ replaying = [l \in Lanes |-> "idle"]
    /\ met = {}
    /\ late = {}
    /\ replayed = {}

-----------------------------------------------------------------------------
(* Topics of the realm.                                                    *)

\* A client makes the realm create the topic.  TopicCreated subscribes the forwarder; of
\* a disposed backplane it is not called any more.
TopicCreated(n, t) ==
    /\ topic[n][t] = "none"
    /\ life[n][t] < MaxLives
    /\ life' = [life EXCEPT ![n][t] = @ + 1]
    /\ IF backplane[n] = "on"
       THEN /\ topic' = [topic EXCEPT ![n][t] = "created"]
            /\ forwarder' = [forwarder EXCEPT ![n][t] = TRUE]
       ELSE /\ topic' = [topic EXCEPT ![n][t] = "up"]
            /\ UNCHANGED forwarder
    /\ UNCHANGED <<kept, late, backplane, flag, event, net, replayVars>>

\* Fault: the subscription is not kept.
ForgetSubscription(n, t) ==
    /\ topic[n][t] = "created"
    /\ topic' = [topic EXCEPT ![n][t] = "up"]
    /\ UNCHANGED <<life, forwarder, kept, late, backplane, flag, event, net, replayVars>>

\* The end of TopicCreated: TryAdd keeps the first subscription of a topic.
KeepSubscription(n, t) ==
    /\ topic[n][t] = "created"
    /\ topic' = [topic EXCEPT ![n][t] = "up"]
    /\ kept' = IF kept[n][t] = 0 THEN [kept EXCEPT ![n][t] = life[n][t]] ELSE kept
    /\ late' = IF backplane[n] = "on" THEN late ELSE late \cup {<<n, t>>}
    /\ UNCHANGED <<life, forwarder, backplane, flag, event, net, replayVars>>

\* TopicRemoved disposes the subscription kept; that of the topic, if it is another, goes
\* with the topic.
TopicRemoved(n, t) ==
    /\ n \in Restless
    /\ topic[n][t] = "up"
    /\ topic' = [topic EXCEPT ![n][t] = "none"]
    /\ forwarder' = [forwarder EXCEPT ![n][t] = FALSE]
    /\ UNCHANGED <<life, kept, late, backplane, flag, event, net, replayVars>>

\* The backplane is disposed: no more messages of others, no more topics.
Detach(n) ==
    /\ n \in Restless
    /\ backplane[n] = "on"
    /\ backplane' = [backplane EXCEPT ![n] = "detached"]
    /\ UNCHANGED <<topicVars, flag, event, net, replayVars>>

\* The subscriptions kept are disposed, of topics that are still the same.
Sweep(n) ==
    /\ backplane[n] = "detached"
    /\ backplane' = [backplane EXCEPT ![n] = "off"]
    /\ forwarder' = [forwarder EXCEPT ![n] =
                        [t \in Topics |-> @[t] /\ kept[n][t] # life[n][t]]]
    /\ UNCHANGED <<topic, life, kept, late, flag, event, net, replayVars>>

-----------------------------------------------------------------------------
(* Events of the realm.                                                    *)

\* Fault: every node has the same id, as that of the process alone may be.
SameId(n) == CHOOSE p \in Nodes : TRUE

\* The process and the machine.
SelfId(n) == n

\* Fault: the message does not say who forwards it.
ForwardUnsigned(n, m) == {[msg |-> m, publisher |-> Nothing, to |-> p] : p \in Nodes}

Forward(n, m) == {[msg |-> m, publisher |-> SelfId(n), to |-> p] : p \in Nodes}

\* Fault: the forwarder does not look at the flag.
AlwaysForwards(n, t) == forwarder[n][t]

\* What the forwarder finds when the topic raises an event.
Forwards(n, t) == forwarder[n][t] /\ ~flag[n]

\* A client publishes; the forwarder goes on, or returns.
Event(m) ==
    LET n == At[m]
        t == TopicOf[m]
    IN /\ event[m] = "none"
       /\ topic[n][t] # "none"
       /\ event' = [event EXCEPT ![m] = IF Forwards(n, t) THEN "raised" ELSE "kept"]
       /\ UNCHANGED <<topicVars, backplane, flag, net, replayVars>>

Publish(m) ==
    /\ event[m] = "raised"
    /\ event' = [event EXCEPT ![m] = "forwarded"]
    /\ net' = net \cup Forward(At[m], m)
    /\ UNCHANGED <<topicVars, backplane, flag, replayVars>>

-----------------------------------------------------------------------------
(* Messages of other nodes.                                                *)

Replays(n) == {l \in Lanes : NodeOf[l] = n /\ replaying[l] # "idle"}

\* Where: a message of the node itself is left out.
Own(x) ==
    /\ x \in net
    /\ x.publisher = SelfId(x.to)
    /\ net' = net \ {x}
    /\ UNCHANGED <<topicVars, backplane, flag, event, replayVars>>

\* OnNext: FalseToTrue, which does nothing when the flag is set already.
FalseToTrue(x, l) ==
    /\ x \in net
    /\ x.publisher # SelfId(x.to)
    /\ backplane[x.to] = "on"
    /\ NodeOf[l] = x.to
    /\ replaying[l] = "idle"
    /\ net' = net \ {x}
    /\ flag' = [flag EXCEPT ![x.to] = TRUE]
    /\ replay' = [replay EXCEPT ![l] = x.msg]
    /\ replaying' = [replaying EXCEPT ![l] = "publish"]
    /\ met' = met \ {l}
    /\ UNCHANGED <<topicVars, backplane, event, replayed>>

\* The message is published in the realm; the forwarder hears it like any other.
Replay(l) ==
    LET n == NodeOf[l]
        m == replay[l]
        t == TopicOf[m]
    IN /\ replaying[l] = "publish"
       /\ replaying' = [replaying EXCEPT ![l] = "end"]
       /\ replayed' = replayed \cup {<<n, m>>}
       /\ net' = IF topic[n][t] # "none" /\ Forwards(n, t) THEN net \cup Forward(n, m) ELSE net
       /\ UNCHANGED <<topicVars, backplane, flag, event, replay, met>>

\* Fault: the flag stays set.
StaysTrue(l) ==
    /\ replaying[l] = "end"
    /\ replaying' = [replaying EXCEPT ![l] = "idle"]
    /\ replay' = [replay EXCEPT ![l] = Nothing]
    /\ UNCHANGED <<topicVars, backplane, flag, event, net, met, replayed>>

\* The finally block.
TrueToFalse(l) ==
    /\ replaying[l] = "end"
    /\ replaying' = [replaying EXCEPT ![l] = "idle"]
    /\ replay' = [replay EXCEPT ![l] = Nothing]
    /\ flag' = [flag EXCEPT ![NodeOf[l]] = FALSE]
    /\ met' = (met \cup Replays(NodeOf[l])) \ {l}
    /\ UNCHANGED <<topicVars, backplane, event, net, replayed>>

-----------------------------------------------------------------------------
Deliver(x) == Own(x) \/ \E l \in Lanes : FalseToTrue(x, l)
LaneStep(l) == Replay(l) \/ TrueToFalse(l)

Next ==
    \/ \E n \in Nodes, t \in Topics :
          TopicCreated(n, t) \/ KeepSubscription(n, t) \/ TopicRemoved(n, t)
    \/ \E n \in Nodes : Detach(n) \/ Sweep(n)
    \/ \E m \in Messages : Event(m) \/ Publish(m)
    \/ \E x \in net : Deliver(x)
    \/ \E l \in Lanes : LaneStep(l)

Spec == Init /\ [][Next]_vars

\* Publish/subscribe hands out what is published, and its threads run.
FairSpec ==
    /\ Spec
    /\ \A m \in Messages : WF_vars(Publish(m))
    /\ \A m \in Messages, n \in Nodes :
          n # At[m] => WF_vars(Deliver([msg |-> m, publisher |-> SelfId(At[m]), to |-> n]))
    /\ \A l \in Lanes : WF_vars(LaneStep(l))

-----------------------------------------------------------------------------
(* Properties.                                                             *)

\* Every variable keeps its type.
TypeOK ==
    /\ topic \in [Nodes -> [Topics -> {"none", "created", "up"}]]
    /\ life \in [Nodes -> [Topics -> 0..MaxLives]]
    /\ forwarder \in [Nodes -> [Topics -> BOOLEAN]]
    /\ kept \in [Nodes -> [Topics -> 0..MaxLives]]
    /\ backplane \in [Nodes -> {"on", "detached", "off"}]
    /\ flag \in [Nodes -> BOOLEAN]
    /\ event \in [Messages -> {"none", "kept", "raised", "forwarded"}]
    /\ net \subseteq Forwarded
    /\ replay \in [Lanes -> Messages \cup {Nothing}]
    /\ replaying \in [Lanes -> {"idle", "publish", "end"}]
    /\ met \subseteq Lanes
    /\ late \subseteq Nodes \X Topics
    /\ replayed \subseteq Nodes \X Messages

\* A node forwards what it replays, and so starts an echo between the nodes, only if
\* another replay of that node ended meanwhile and reset the flag that both use.  Where
\* messages are handed out one by one, there is no echo.
EchoOnlyWhenReplaysMeet ==
    [][\A x \in net' \ net :
          x.publisher # SelfId(At[x.msg]) =>
              \E l \in met : NodeOf[l] = x.publisher /\ replay[l] = x.msg]_vars

\* What a client publishes on a topic that has the forwarder is kept from the other nodes
\* only while a message of another node is replayed, whatever topic that one is of.
KeptOnlyInReplay ==
    [][\A m \in Messages :
          event[m] = "none" /\ event'[m] = "kept" /\ forwarder[At[m]][TopicOf[m]] =>
              Replays(At[m]) # {}]_vars

\* Once the backplane is disposed no topic has its forwarder, except one that was created
\* again after it was removed, whose subscription was not kept (TryAdd), and one that was
\* being created meanwhile.
DisposedIsSilent ==
    \A n \in Nodes, t \in Topics :
        backplane[n] = "off" /\ forwarder[n][t] => life[n][t] > 1 \/ <<n, t>> \in late
                                                  \/ topic[n][t] = "created"

\* What is forwarded is replayed by every other node whose backplane is not disposed.
ForwardedIsReplayed ==
    \A m \in Messages : \A n \in Nodes \ {At[m]} :
        event[m] = "forwarded" ~> <<n, m>> \in replayed \/ backplane[n] # "on"
=============================================================================
