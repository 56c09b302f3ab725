-------------------------- MODULE WampBackplaneProofs --------------------------
(***************************************************************************)
(* Proofs about WampBackplane, for all nodes, topics, messages and lanes.  *)
(***************************************************************************)
EXTENDS WampBackplane, TLAPS

-----------------------------------------------------------------------------
(* The inductive invariant.                                                *)

\* A lane that replays has a message.
LanesHaveMessages == \A l \in Lanes : replaying[l] # "idle" => replay[l] \in Messages

\* The flag is set only while a message is replayed, and a replay finds it set unless
\* another one ended meanwhile (the one flag of RealmExtensions).
FlagIsShared ==
    /\ \A n \in Nodes : flag[n] => Replays(n) # {}
    /\ \A l \in Lanes : replaying[l] # "idle" /\ l \notin met => flag[NodeOf[l]]

\* The subscription kept is that of the first creation whose TopicCreated came to its
\* end, and only a topic that exists is forwarded.
SubscriptionsKept ==
    \A n \in Nodes, t \in Topics :
        /\ kept[n][t] =< life[n][t]
        /\ topic[n][t] = "created" => kept[n][t] < life[n][t]
        /\ forwarder[n][t] => topic[n][t] # "none"
        /\ forwarder[n][t] /\ topic[n][t] = "up" /\ life[n][t] = 1 => kept[n][t] = 1
        /\ topic[n][t] # "none" => life[n][t] # 0

BackplaneInv ==
    /\ TypeOK
    /\ LanesHaveMessages
    /\ FlagIsShared
    /\ SubscriptionsKept
    /\ DisposedIsSilent

-----------------------------------------------------------------------------
(* What the steps of topics keep.                                          *)

\* Nothing of topics changes the flag, the replays or the messages.
LEMMA TopicStepKeepsReplays ==
    ASSUME BackplaneInv, UNCHANGED <<flag, event, net, replayVars>>
    PROVE  LanesHaveMessages' /\ FlagIsShared'
BY DEF BackplaneInv, LanesHaveMessages, FlagIsShared, Replays, replayVars

\* A matrix of which one cell changes stays one.
LEMMA ExceptType ==
    ASSUME NEW A, NEW B, NEW C, NEW f \in [A -> [B -> C]], NEW a \in A, NEW b \in B,
           NEW c \in C
    PROVE  [f EXCEPT ![a][b] = c] \in [A -> [B -> C]]
<1>1. [f[a] EXCEPT ![b] = c] \in [B -> C]
  OBVIOUS
<1>2. QED
  BY <1>1

\* TopicCreated keeps the invariant: a second life has a higher number.
LEMMA TopicCreatedKeeps ==
    ASSUME BackplaneInv, NEW n \in Nodes, NEW t \in Topics, TopicCreated(n, t)
    PROVE  BackplaneInv'
<1>1. LanesHaveMessages' /\ FlagIsShared'
  BY TopicStepKeepsReplays DEF TopicCreated
<1>2. TypeOK'
  <2>1. /\ life[n][t] + 1 \in 0..MaxLives
        /\ life' = [life EXCEPT ![n][t] = life[n][t] + 1]
    BY BackplaneAssumption DEF TopicCreated, BackplaneInv, TypeOK
  <2>2. /\ life \in [Nodes -> [Topics -> 0..MaxLives]]
        /\ topic \in [Nodes -> [Topics -> {"none", "created", "up"}]]
        /\ forwarder \in [Nodes -> [Topics -> BOOLEAN]]
    BY DEF BackplaneInv, TypeOK
  <2>3. life' \in [Nodes -> [Topics -> 0..MaxLives]]
    BY <2>1, <2>2, ExceptType
  <2>4. /\ topic' \in [Nodes -> [Topics -> {"none", "created", "up"}]]
        /\ forwarder' \in [Nodes -> [Topics -> BOOLEAN]]
    <3>1. /\ [topic EXCEPT ![n][t] = "created"] \in [Nodes -> [Topics -> {"none", "created", "up"}]]
          /\ [topic EXCEPT ![n][t] = "up"] \in [Nodes -> [Topics -> {"none", "created", "up"}]]
          /\ [forwarder EXCEPT ![n][t] = TRUE] \in [Nodes -> [Topics -> BOOLEAN]]
      BY <2>2, ExceptType
    <3>2. QED
      BY <2>2, <3>1 DEF TopicCreated
  <2>5. QED
    BY <2>3, <2>4 DEF TopicCreated, BackplaneInv, TypeOK, replayVars
<1>3. SubscriptionsKept'
  BY BackplaneAssumption DEF TopicCreated, BackplaneInv, TypeOK, SubscriptionsKept
<1>4. DisposedIsSilent'
  BY BackplaneAssumption
     DEF TopicCreated, BackplaneInv, TypeOK, SubscriptionsKept, DisposedIsSilent
<1>5. QED
  BY <1>1, <1>2, <1>3, <1>4 DEF BackplaneInv

\* KeepSubscription keeps the invariant: the first one is kept, and one that comes after
\* the disposal is late.
LEMMA KeepSubscriptionKeeps ==
    ASSUME BackplaneInv, NEW n \in Nodes, NEW t \in Topics, KeepSubscription(n, t)
    PROVE  BackplaneInv'
<1>1. LanesHaveMessages' /\ FlagIsShared'
  BY TopicStepKeepsReplays DEF KeepSubscription
<1>2. TypeOK'
  BY DEF KeepSubscription, BackplaneInv, TypeOK, replayVars
<1>3. SubscriptionsKept'
  BY BackplaneAssumption DEF KeepSubscription, BackplaneInv, TypeOK, SubscriptionsKept
<1>4. DisposedIsSilent'
  BY DEF KeepSubscription, BackplaneInv, TypeOK, DisposedIsSilent
<1>5. QED
  BY <1>1, <1>2, <1>3, <1>4 DEF BackplaneInv

\* TopicRemoved keeps the invariant.
LEMMA TopicRemovedKeeps ==
    ASSUME BackplaneInv, NEW n \in Nodes, NEW t \in Topics, TopicRemoved(n, t)
    PROVE  BackplaneInv'
<1>1. LanesHaveMessages' /\ FlagIsShared'
  BY TopicStepKeepsReplays DEF TopicRemoved
<1>2. TypeOK'
  BY DEF TopicRemoved, BackplaneInv, TypeOK, replayVars
<1>3. SubscriptionsKept' /\ DisposedIsSilent'
  BY DEF TopicRemoved, BackplaneInv, TypeOK, SubscriptionsKept, DisposedIsSilent
<1>4. QED
  BY <1>1, <1>2, <1>3 DEF BackplaneInv

\* The two steps of the disposal keep the invariant: the subscriptions kept are those of
\* all topics in their first life.
LEMMA DisposalKeeps ==
    ASSUME BackplaneInv, NEW n \in Nodes, Detach(n) \/ Sweep(n)
    PROVE  BackplaneInv'
<1>1. LanesHaveMessages' /\ FlagIsShared'
  BY TopicStepKeepsReplays DEF Detach, Sweep
<1>2. CASE Detach(n)
  BY <1>1, <1>2 DEF Detach, BackplaneInv, TypeOK, SubscriptionsKept, DisposedIsSilent,
     topicVars, replayVars
<1>3. CASE Sweep(n)
  <2>1. TypeOK'
    BY <1>3 DEF Sweep, BackplaneInv, TypeOK, replayVars
  <2>2. \A k \in Nodes, t \in Topics : forwarder'[k][t] =>
            forwarder[k][t] /\ (k = n => kept[k][t] # life[k][t])
    BY <1>3 DEF Sweep, BackplaneInv, TypeOK
  <2>3. SubscriptionsKept'
    BY <1>3, <2>2 DEF Sweep, BackplaneInv, SubscriptionsKept
  <2>4. DisposedIsSilent'
    <3> SUFFICES ASSUME NEW k \in Nodes, NEW t \in Topics, backplane'[k] = "off",
                        forwarder'[k][t]
                 PROVE  life[k][t] > 1 \/ <<k, t>> \in late \/ topic[k][t] = "created"
      BY <1>3 DEF Sweep, DisposedIsSilent
    <3>1. CASE k = n
      <4>1. topic[k][t] \in {"created", "up"} /\ life[k][t] \in Nat /\ life[k][t] # 0
        BY <2>2, BackplaneAssumption DEF BackplaneInv, TypeOK, SubscriptionsKept
      <4>2. QED
        BY <2>2, <3>1, <4>1 DEF BackplaneInv, SubscriptionsKept
    <3>2. CASE k # n
      BY <1>3, <2>2, <3>2 DEF Sweep, BackplaneInv, TypeOK, DisposedIsSilent
    <3>3. QED
      BY <3>1, <3>2
  <2>5. QED
    BY <1>1, <2>1, <2>3, <2>4 DEF BackplaneInv
<1>4. QED
  BY <1>2, <1>3

-----------------------------------------------------------------------------
(* What the steps of messages keep.                                        *)

\* Nothing of messages changes topics.
LEMMA MessageStepKeepsTopics ==
    ASSUME BackplaneInv, UNCHANGED <<topicVars, backplane>>
    PROVE  SubscriptionsKept' /\ DisposedIsSilent'
BY DEF BackplaneInv, SubscriptionsKept, DisposedIsSilent, topicVars

\* What a node forwards is on its way to nodes.
LEMMA ForwardType ==
    ASSUME NEW n \in Nodes, NEW m \in Messages
    PROVE  Forward(n, m) \subseteq Forwarded
BY DEF Forward, Forwarded, SelfId

\* Event and Publish keep the invariant.
LEMMA ForwarderKeeps ==
    ASSUME BackplaneInv, NEW m \in Messages, Event(m) \/ Publish(m)
    PROVE  BackplaneInv'
<1>1. SubscriptionsKept' /\ DisposedIsSilent'
  BY MessageStepKeepsTopics DEF Event, Publish
<1>2. LanesHaveMessages' /\ FlagIsShared'
  BY DEF Event, Publish, BackplaneInv, LanesHaveMessages, FlagIsShared, Replays, replayVars
<1>3. TypeOK'
  <2>1. Forward(At[m], m) \subseteq Forwarded
    BY ForwardType, BackplaneAssumption
  <2>2. QED
    BY <2>1 DEF Event, Publish, BackplaneInv, TypeOK, topicVars, replayVars
<1>4. QED
  BY <1>1, <1>2, <1>3 DEF BackplaneInv

\* Own and FalseToTrue keep the invariant: a replay begins with the flag set.
LEMMA DeliverKeeps ==
    ASSUME BackplaneInv, NEW x \in net, Deliver(x)
    PROVE  BackplaneInv'
<1>1. SubscriptionsKept' /\ DisposedIsSilent'
  BY MessageStepKeepsTopics DEF Deliver, Own, FalseToTrue
<1>2. CASE Own(x)
  BY <1>1, <1>2 DEF Own, BackplaneInv, TypeOK, LanesHaveMessages, FlagIsShared, Replays,
     topicVars, replayVars
<1>3. ASSUME NEW l \in Lanes, FalseToTrue(x, l)  PROVE BackplaneInv'
  <2>1. x.msg \in Messages /\ x.to \in Nodes /\ NodeOf[l] = x.to
    BY <1>3 DEF FalseToTrue, BackplaneInv, TypeOK, Forwarded
  <2>2. TypeOK'
    BY <1>3, <2>1 DEF FalseToTrue, BackplaneInv, TypeOK, topicVars
  <2>3. LanesHaveMessages'
    BY <1>3, <2>1 DEF FalseToTrue, BackplaneInv, TypeOK, LanesHaveMessages
  <2>4. /\ \A n \in Nodes : n # x.to => flag'[n] = flag[n]
        /\ flag'[x.to] = TRUE
        /\ \A k \in Lanes : k # l => replaying'[k] = replaying[k]
        /\ replaying'[l] = "publish"
        /\ met' = met \ {l}
    BY <1>3, <2>1 DEF FalseToTrue, BackplaneInv, TypeOK
  <2>5. \A n \in Nodes : flag'[n] => Replays(n)' # {}
    <3> SUFFICES ASSUME NEW n \in Nodes, flag'[n]  PROVE Replays(n)' # {}
      OBVIOUS
    <3>1. CASE n = x.to
      BY <2>1, <2>4, <3>1 DEF Replays
    <3>2. CASE n # x.to
      <4>1. PICK k \in Replays(n) : TRUE
        BY <2>4, <3>2 DEF BackplaneInv, FlagIsShared
      <4>2. k \in Replays(n)'
        BY <2>1, <2>4, <3>2, <4>1 DEF Replays
      <4>3. QED
        BY <4>2
    <3>3. QED
      BY <3>1, <3>2
  <2>6. \A k \in Lanes : replaying'[k] # "idle" /\ k \notin met' => flag'[NodeOf[k]]
    BY <2>1, <2>4, BackplaneAssumption DEF BackplaneInv, FlagIsShared
  <2>7. QED
    BY <1>1, <2>2, <2>3, <2>5, <2>6 DEF BackplaneInv, FlagIsShared
<1>4. QED
  BY <1>2, <1>3 DEF Deliver

\* Replay and TrueToFalse keep the invariant: the end of a replay resets the flag, and
\* the other replays of the node have met it.
LEMMA LaneStepKeeps ==
    ASSUME BackplaneInv, NEW l \in Lanes, LaneStep(l)
    PROVE  BackplaneInv'
<1> DEFINE n == NodeOf[l]
<1>0. n \in Nodes
  BY BackplaneAssumption
<1>1. SubscriptionsKept' /\ DisposedIsSilent'
  BY MessageStepKeepsTopics DEF LaneStep, Replay, TrueToFalse
<1>2. CASE Replay(l)
  <2>1. replay[l] \in Messages
    BY <1>2 DEF Replay, BackplaneInv, LanesHaveMessages
  <2>2. Forward(n, replay[l]) \subseteq Forwarded
    BY <1>0, <2>1, ForwardType
  <2>3. TypeOK'
    BY <1>0, <1>2, <2>1, <2>2 DEF Replay, BackplaneInv, TypeOK, topicVars
  <2>4. LanesHaveMessages' /\ FlagIsShared'
    BY <1>2, <2>1 DEF Replay, BackplaneInv, TypeOK, LanesHaveMessages, FlagIsShared, Replays
  <2>5. QED
    BY <1>1, <2>3, <2>4 DEF BackplaneInv
<1>3. CASE TrueToFalse(l)
  <2>1. TypeOK'
    BY <1>0, <1>3 DEF TrueToFalse, Replays, BackplaneInv, TypeOK, topicVars
  <2>2. LanesHaveMessages'
    BY <1>3 DEF TrueToFalse, BackplaneInv, TypeOK, LanesHaveMessages
  <2>3. /\ \A k \in Nodes : k # n => flag'[k] = flag[k]
        /\ flag'[n] = FALSE
        /\ \A k \in Lanes : k # l => replaying'[k] = replaying[k]
        /\ replaying'[l] = "idle"
        /\ met' = (met \cup Replays(n)) \ {l}
    BY <1>0, <1>3 DEF TrueToFalse, BackplaneInv, TypeOK
  <2>4. \A k \in Nodes : flag'[k] => Replays(k)' # {}
    <3> SUFFICES ASSUME NEW k \in Nodes, flag'[k]  PROVE Replays(k)' # {}
      OBVIOUS
    <3>1. k # n /\ flag[k]
      BY <2>3
    <3>2. PICK i \in Replays(k) : TRUE
      BY <3>1 DEF BackplaneInv, FlagIsShared
    <3>3. i \in Replays(k)'
      BY <2>3, <3>1, <3>2 DEF Replays
    <3>4. QED
      BY <3>3
  <2>5. \A k \in Lanes : replaying'[k] # "idle" /\ k \notin met' => flag'[NodeOf[k]]
    BY <2>3, BackplaneAssumption DEF BackplaneInv, FlagIsShared, Replays
  <2>6. QED
    BY <1>1, <2>1, <2>2, <2>4, <2>5 DEF BackplaneInv, FlagIsShared
<1>4. QED
  BY <1>2, <1>3 DEF LaneStep

-----------------------------------------------------------------------------
(* The theorems.                                                           *)

LEMMA InitBackplane == Init => BackplaneInv
BY BackplaneAssumption
   DEF Init, BackplaneInv, TypeOK, LanesHaveMessages, FlagIsShared, SubscriptionsKept,
       DisposedIsSilent

LEMMA NextBackplane == BackplaneInv /\ [Next]_vars => BackplaneInv'
<1> SUFFICES ASSUME BackplaneInv, [Next]_vars  PROVE BackplaneInv'
  OBVIOUS
<1>1. CASE UNCHANGED vars
  BY <1>1 DEF vars, topicVars, replayVars, BackplaneInv, TypeOK, LanesHaveMessages,
     FlagIsShared, Replays, SubscriptionsKept, DisposedIsSilent
<1>2. CASE Next
  BY <1>2, TopicCreatedKeeps, KeepSubscriptionKeeps, TopicRemovedKeeps, DisposalKeeps,
     ForwarderKeeps, DeliverKeeps, LaneStepKeeps DEF Next
<1>3. QED
  BY <1>1, <1>2

\* The invariant behind the others: how the flag and the replays, and the subscriptions
\* kept and the topics, depend on each other (RealmExtensions).
THEOREM BackplaneInvariant == Spec => []BackplaneInv
BY InitBackplane, NextBackplane, PTL DEF Spec

\* Every variable keeps its type.
THEOREM BackplaneTypes == Spec => []TypeOK
<1>1. BackplaneInv => TypeOK
  BY DEF BackplaneInv
<1>2. QED
  BY <1>1, BackplaneInvariant, PTL

\* A disposed backplane has no forwarder left, except of a topic created again, whose
\* subscription TryAdd did not keep, and of one created during the disposal.
THEOREM DisposedBackplaneIsSilent == Spec => []DisposedIsSilent
<1>1. BackplaneInv => DisposedIsSilent
  BY DEF BackplaneInv
<1>2. QED
  BY <1>1, BackplaneInvariant, PTL

\* Only Publish and Replay add messages to the network.
LEMMA NewlyForwarded ==
    ASSUME [Next]_vars, NEW x \in net' \ net
    PROVE  \/ \E m \in Messages : Publish(m) /\ x \in Forward(At[m], m)
           \/ \E l \in Lanes : Replay(l) /\ ~flag[NodeOf[l]] /\ x \in Forward(NodeOf[l], replay[l])
<1>1. \A n \in Nodes, t \in Topics :
          TopicCreated(n, t) \/ KeepSubscription(n, t) \/ TopicRemoved(n, t) => net' = net
  BY DEF TopicCreated, KeepSubscription, TopicRemoved
<1>2. \A n \in Nodes : Detach(n) \/ Sweep(n) => net' = net
  BY DEF Detach, Sweep
<1>3. \A m \in Messages : Event(m) => net' = net
  BY DEF Event
<1>4. \A y \in net : Deliver(y) => net' \subseteq net
  BY DEF Deliver, Own, FalseToTrue
<1>5. \A l \in Lanes : TrueToFalse(l) => net' = net
  BY DEF TrueToFalse
<1>6. UNCHANGED vars => net' = net
  BY DEF vars
<1>7. \A m \in Messages : Publish(m) => x \in Forward(At[m], m)
  BY DEF Publish
<1>8. \A l \in Lanes : Replay(l) => ~flag[NodeOf[l]] /\ x \in Forward(NodeOf[l], replay[l])
  BY DEF Replay, Forwards
<1>9. QED
  BY <1>1, <1>2, <1>3, <1>4, <1>5, <1>6, <1>7, <1>8 DEF Next, LaneStep

\* A node forwards what it replays only when another of its replays ended during it:
\* where OnNext is called by one thread there is no echo between the nodes.
THEOREM NoEchoUnlessReplaysMeet == Spec => EchoOnlyWhenReplaysMeet
<1>1. ASSUME BackplaneInv, [Next]_vars, NEW x \in net' \ net, x.publisher # SelfId(At[x.msg])
      PROVE  \E l \in met : NodeOf[l] = x.publisher /\ replay[l] = x.msg
  <2>1. ASSUME NEW m \in Messages, x \in Forward(At[m], m)  PROVE FALSE
    BY <1>1, <2>1 DEF Forward
  <2>2. PICK l \in Lanes : /\ Replay(l)
                           /\ ~flag[NodeOf[l]]
                           /\ x \in Forward(NodeOf[l], replay[l])
    BY <1>1, <2>1, NewlyForwarded
  <2>3. NodeOf[l] = x.publisher /\ replay[l] = x.msg
    BY <2>2 DEF Forward, SelfId
  <2>4. l \in met
    BY <1>1, <2>2 DEF Replay, BackplaneInv, FlagIsShared
  <2>5. QED
    BY <2>3, <2>4
<1>2. BackplaneInv /\ [Next]_vars =>
        [\A x \in net' \ net :
          x.publisher # SelfId(At[x.msg]) =>
              \E l \in met : NodeOf[l] = x.publisher /\ replay[l] = x.msg]_vars
  BY <1>1
<1>3. QED
  BY <1>2, BackplaneInvariant, PTL DEF Spec, EchoOnlyWhenReplaysMeet

\* What a client publishes is kept from the other nodes only during a replay.
THEOREM KeptBackOnlyInReplay == Spec => KeptOnlyInReplay
<1>1. ASSUME BackplaneInv, [Next]_vars, NEW m \in Messages,
             event[m] = "none", event'[m] = "kept", forwarder[At[m]][TopicOf[m]]
      PROVE  Replays(At[m]) # {}
  <2>1. \A n \in Nodes, t \in Topics :
            TopicCreated(n, t) \/ KeepSubscription(n, t) \/ TopicRemoved(n, t) => event' = event
    BY DEF TopicCreated, KeepSubscription, TopicRemoved
  <2>2. \A n \in Nodes : Detach(n) \/ Sweep(n) => event' = event
    BY DEF Detach, Sweep
  <2>3. \A k \in Messages : Publish(k) => event'[m] # "kept" \/ event'[m] = event[m]
    BY DEF Publish, BackplaneInv, TypeOK
  <2>4. \A x \in net : Deliver(x) => event' = event
    BY DEF Deliver, Own, FalseToTrue
  <2>5. \A l \in Lanes : LaneStep(l) => event' = event
    BY DEF LaneStep, Replay, TrueToFalse
  <2>6. UNCHANGED vars => event' = event
    BY DEF vars
  <2>7. PICK k \in Messages : Event(k)
    BY <1>1, <2>1, <2>2, <2>3, <2>4, <2>5, <2>6 DEF Next
  <2>8. k = m
    BY <1>1, <2>7 DEF Event, BackplaneInv, TypeOK
  <2>9. flag[At[m]]
    BY <1>1, <2>7, <2>8, BackplaneAssumption DEF Event, Forwards, BackplaneInv, TypeOK
  <2>10. QED
    BY <1>1, <2>9, BackplaneAssumption DEF BackplaneInv, FlagIsShared
<1>2. BackplaneInv /\ [Next]_vars =>
        [\A m \in Messages :
          event[m] = "none" /\ event'[m] = "kept" /\ forwarder[At[m]][TopicOf[m]] =>
              Replays(At[m]) # {}]_vars
  BY <1>1
<1>3. QED
  BY <1>2, BackplaneInvariant, PTL DEF Spec, KeptOnlyInReplay

-----------------------------------------------------------------------------
(* One thread a node, as with the Proto.Actor implementation.              *)

OneLane == \A k, l \in Lanes : NodeOf[k] = NodeOf[l] => k = l

\* No replay meets another, and what is forwarded comes from the node of its client.
NoEcho == met = {} /\ \A x \in net : x.publisher = SelfId(At[x.msg])

\* With one lane a node no replay ends during another.
LEMMA NoReplaysMeet ==
    ASSUME OneLane, BackplaneInv, NoEcho, [Next]_vars
    PROVE  met' = {}
<1>1. \A n \in Nodes, t \in Topics :
          TopicCreated(n, t) \/ KeepSubscription(n, t) \/ TopicRemoved(n, t) => met' = met
  BY DEF TopicCreated, KeepSubscription, TopicRemoved, replayVars
<1>2. \A n \in Nodes : Detach(n) \/ Sweep(n) => met' = met
  BY DEF Detach, Sweep, replayVars
<1>3. \A m \in Messages : Event(m) \/ Publish(m) => met' = met
  BY DEF Event, Publish, replayVars
<1>4. \A x \in net : Deliver(x) => met' \subseteq met
  BY DEF Deliver, Own, FalseToTrue, replayVars
<1>5. \A l \in Lanes : Replay(l) => met' = met
  BY DEF Replay
<1>6. ASSUME NEW l \in Lanes, TrueToFalse(l)  PROVE met' = {}
  <2>1. Replays(NodeOf[l]) \subseteq {l}
    BY DEF Replays, OneLane
  <2>2. QED
    BY <1>6, <2>1 DEF TrueToFalse, NoEcho
<1>7. UNCHANGED vars => met' = met
  BY DEF vars, replayVars
<1>8. QED
  BY <1>1, <1>2, <1>3, <1>4, <1>5, <1>6, <1>7 DEF Next, LaneStep, NoEcho

\* Where OnNext is called by one thread a node, what is on its way between the nodes was
\* published by a client of the node that sent it: no message is ever sent back
\* (RealmExtensions).
THEOREM OneThreadNoEcho ==
    ASSUME OneLane
    PROVE  Spec => []NoEcho
<1>1. Init => NoEcho
  BY DEF Init, NoEcho
<1>2. BackplaneInv /\ NoEcho /\ [Next]_vars => NoEcho'
  <2> SUFFICES ASSUME BackplaneInv, NoEcho, [Next]_vars  PROVE NoEcho'
    OBVIOUS
  <2>1. met' = {}
    BY NoReplaysMeet
  <2>2. ASSUME NEW x \in net' \ net  PROVE x.publisher = SelfId(At[x.msg])
    <3>1. CASE \E m \in Messages : Publish(m) /\ x \in Forward(At[m], m)
      BY <3>1 DEF Forward
    <3>2. CASE \E l \in Lanes : /\ Replay(l)
                               /\ ~flag[NodeOf[l]]
                               /\ x \in Forward(NodeOf[l], replay[l])
      BY <3>2 DEF Replay, BackplaneInv, FlagIsShared, NoEcho
    <3>3. QED
      BY <2>2, <3>1, <3>2, NewlyForwarded
  <2>3. QED
    BY <2>1, <2>2 DEF NoEcho
<1>3. QED
  BY <1>1, <1>2, BackplaneInvariant, PTL DEF Spec
=============================================================================
