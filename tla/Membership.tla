------------------------------ MODULE Membership ------------------------------
(***************************************************************************)
(* Who is in the cluster: every node runs a ClusterProviderIsAliveActor    *)
(* with a watch list, fed by the Node messages nodes announce themselves   *)
(* with (SeededLocalClusterProvider.MonitorMemberStatusChanges), by those  *)
(* the actors pass on to newcomers, and by Terminated when a connection to *)
(* a watched actor is given up.  What the list says is published as the    *)
(* topology event that PubSubRouter takes.                                 *)
(*                                                                         *)
(* Processes crash and start again under a new member id; their actor      *)
(* keeps its PID, which is made of the address and a fixed name.           *)
(***************************************************************************)
EXTENDS Naturals, Sequences, FiniteSets

CONSTANTS
    Nodes,             \* addresses, and so the PIDs of the actors
    Seeds,             \* the seed addresses each node is configured with
    Unknown,           \* no entry of a watch list
    Mortal,            \* bound: the nodes whose process may die
    MaxFaults,         \* bound: processes that die and connections that break
    MaxAnnouncements   \* bound: seeds events of one process

ASSUME MembershipAssumption ==
    /\ Seeds \in [Nodes -> SUBSET Nodes]
    /\ Mortal \subseteq Nodes
    /\ {MaxFaults, MaxAnnouncements} \subseteq Nat
    /\ Unknown \notin [member : Nat, alive : BOOLEAN]

VARIABLES
    up,             \* does the process of the address run?
    member,         \* its member id: how often it was started
    announcements,  \* seeds events it handled
    watchList,      \* ClusterProviderIsAliveActor._watchList
    watched,        \* the PIDs it watches
    terminated,     \* the Terminated notices it has still to handle
    topology,       \* the last topology event it published
    wire,           \* wire[n][k]: what n told k and k has not handled yet
    broken,         \* the peers to whom its connection broke, unnoticed as yet
    faults          \* counter, for the bound

vars == <<up, member, announcements, watchList, watched, terminated, topology, wire,
          broken, faults>>

Node == [node : Nodes, member : Nat]
Entry == [member : Nat, alive : BOOLEAN]
Status == [node : Nodes, member : Nat, alive : BOOLEAN]

Knows(n, k) == watchList[n][k] # Unknown
Alive(n, k) == Knows(n, k) /\ watchList[n][k].alive

NothingKnown == [k \in Nodes |-> Unknown]

Init ==
    /\ up = [n \in Nodes |-> FALSE]
    /\ member = [n \in Nodes |-> 0]
    /\ announcements = [n \in Nodes |-> 0]
    /\ watchList = [n \in Nodes |-> NothingKnown]
    /\ watched = [n \in Nodes |-> {}]
    /\ terminated = [n \in Nodes |-> {}]
    /\ topology = [n \in Nodes |-> {}]
    /\ wire = [n \in Nodes |-> [k \in Nodes |-> <<>>]]
    /\ broken = [n \in Nodes |-> {}]
    /\ faults = 0

-----------------------------------------------------------------------------
(* Processes and connections.                                              *)

\* The process starts: MonitorMemberStatusChanges spawns the actor.
Start(n) ==
    /\ ~up[n]
    /\ up' = [up EXCEPT ![n] = TRUE]
    /\ member' = [member EXCEPT ![n] = @ + 1]
    /\ UNCHANGED <<announcements, watchList, watched, terminated, topology, wire,
                   broken, faults>>

\* The process dies with all it knew and had still to handle.  What it told others
\* arrives or not; connections to it break.
Crash(n) ==
    /\ up[n]
    /\ faults < MaxFaults
    /\ faults' = faults + 1
    /\ up' = [up EXCEPT ![n] = FALSE]
    /\ announcements' = [announcements EXCEPT ![n] = 0]
    /\ watchList' = [watchList EXCEPT ![n] = NothingKnown]
    /\ watched' = [watched EXCEPT ![n] = {}]
    /\ terminated' = [terminated EXCEPT ![n] = {}]
    /\ topology' = [topology EXCEPT ![n] = {}]
    /\ \E lost \in SUBSET Nodes :
          wire' = [m \in Nodes |-> [k \in Nodes |->
                     IF k = n \/ (m = n /\ k \in lost) THEN <<>> ELSE wire[m][k]]]
    /\ broken' = [m \in Nodes |-> IF m = n THEN {}
                                  ELSE IF up[m] THEN broken[m] \cup {n} ELSE broken[m]]
    /\ UNCHANGED member

\* What is told over a connection that broke is lost.
Tell(queues, n, k, q) ==
    IF k \in broken[n] THEN queues ELSE [queues EXCEPT ![n][k] = @ \o q]

\* A connection between live processes breaks.
Disconnect(n, k) ==
    /\ n # k
    /\ up[n] /\ up[k]
    /\ k \notin broken[n]
    /\ faults < MaxFaults
    /\ faults' = faults + 1
    /\ broken' = [broken EXCEPT ![n] = @ \cup {k}]
    /\ wire' = [wire EXCEPT ![n][k] = <<>>]
    /\ UNCHANGED <<up, member, announcements, watchList, watched, terminated, topology>>

\* A node notices that a connection broke, or gives up to open one: whom it watched
\* through it has terminated.
EndpointTerminated(n, k) ==
    /\ up[n]
    /\ \/ k \in broken[n]
       \/ ~up[k] /\ (wire[n][k] # <<>> \/ k \in watched[n])
    /\ broken' = [broken EXCEPT ![n] = @ \ {k}]
    /\ wire' = [wire EXCEPT ![n][k] = <<>>]
    /\ watched' = [watched EXCEPT ![n] = @ \ {k}]
    /\ terminated' = [terminated EXCEPT ![n] = @ \cup (watched[n] \cap {k})]
    /\ UNCHANGED <<up, member, announcements, watchList, topology, faults>>

-----------------------------------------------------------------------------
(* SeededLocalClusterProvider.                                             *)

\* A seeds event: the broadcast router, an actor of its own, tells the node's own Node
\* to every seed and to itself.
Announce(n) ==
    /\ up[n]
    /\ announcements[n] < MaxAnnouncements
    /\ announcements' = [announcements EXCEPT ![n] = @ + 1]
    /\ wire' = [wire EXCEPT ![n] = [k \in Nodes |->
                  IF k \in (Seeds[n] \cup {n}) \ broken[n]
                  THEN Append(@[k], [node |-> n, member |-> member[n]])
                  ELSE @[k]]]
    /\ UNCHANGED <<up, member, watchList, watched, terminated, topology, broken,
                   faults>>

\* The topology event of a watch list.  DistinctUntilChanged holds back an event equal
\* to the last, so that the last event published says it all.
EventOf(list) ==
    {[node |-> k, member |-> list[k].member, alive |-> list[k].alive] :
        k \in {j \in Nodes : list[j] # Unknown}}

PublishTopologyChange(n, list) == topology' = [topology EXCEPT ![n] = EventOf(list)]

-----------------------------------------------------------------------------
(* ClusterProviderIsAliveActor.ReceiveAsync.                               *)

\* Fault: a newcomer is told of nobody.
OthersNone(n, k) == {}

\* Whom a newcomer is told of.
Others(n, k) == {j \in Nodes \ {k} : Alive(n, j)}

Orders(S) == {q \in [1..Cardinality(S) -> S] : \A i, j \in DOMAIN q : q[i] = q[j] => i = j}

\* Fault: the entry found before is watched, not the PID.
WatchEntry(n, k) == watched' = [watched EXCEPT ![n] = @ \cup {watchList[n][k]}]

\* Fault: a member that was known before is not watched again.
WatchNewOnly(n, k) ==
    watched' = IF Knows(n, k) THEN watched ELSE [watched EXCEPT ![n] = @ \cup {k}]

\* Fault: the actor watches itself.
WatchSelf(n, k) == watched' = [watched EXCEPT ![n] = @ \cup {n}]

Watch(n, k) == watched' = [watched EXCEPT ![n] = @ \cup {k}]

\* A member known to be alive is ignored, whatever its member id.
Ignored(n, k) == Alive(n, k)

\* n handles the Node message that from told it.
HandleNode(n, from) ==
    /\ up[n]
    /\ wire[from][n] # <<>>
    /\ LET node == Head(wire[from][n])
           k == node.node
           rest == [wire EXCEPT ![from][n] = Tail(@)]
           list == [watchList[n] EXCEPT ![k] = [member |-> node.member, alive |-> TRUE]]
       IN IF Ignored(n, k)
          THEN /\ wire' = rest
               /\ UNCHANGED <<watchList, watched, topology>>
          ELSE /\ watchList' = [watchList EXCEPT ![n] = list]
               /\ PublishTopologyChange(n, list)
               /\ \E q \in Orders(Others(n, k)) :
                     wire' = Tell(rest, n, k, [i \in DOMAIN q |->
                                 [node |-> q[i], member |-> watchList[n][q[i]].member]])
               /\ Watch(n, k)
    /\ UNCHANGED <<up, member, announcements, terminated, broken, faults>>

\* n handles that its connection to k was given up.
HandleTerminated(n, k) ==
    /\ up[n]
    /\ k \in terminated[n]
    /\ terminated' = [terminated EXCEPT ![n] = @ \ {k}]
    /\ IF Knows(n, k)
       THEN LET list == [watchList[n] EXCEPT ![k].alive = FALSE]
            IN /\ watchList' = [watchList EXCEPT ![n] = list]
               /\ PublishTopologyChange(n, list)
       ELSE UNCHANGED <<watchList, topology>>
    /\ UNCHANGED <<up, member, announcements, watched, wire, broken, faults>>

Dead(n) == {k \in Nodes : Knows(n, k) /\ ~Alive(n, k)}

\* Fault: the topology is published while the expired members are still listed.
CleanupPublishedEarly(n) ==
    /\ up[n]
    /\ \E expired \in SUBSET Dead(n) :
          /\ expired # {}
          /\ watchList' = [watchList EXCEPT ![n] = [k \in Nodes |->
                             IF k \in expired THEN Unknown ELSE @[k]]]
    /\ PublishTopologyChange(n, watchList[n])
    /\ UNCHANGED <<up, member, announcements, watched, terminated, wire, broken,
                   faults>>

\* The timer's Cleanup removes members dead for longer than CutOff.  It publishes
\* after each dead member it looks at, so after each it removes.
Cleanup(n) ==
    /\ up[n]
    /\ \E expired \in SUBSET Dead(n) :
          /\ expired # {}
          /\ LET list == [k \in Nodes |-> IF k \in expired THEN Unknown ELSE watchList[n][k]]
             IN /\ watchList' = [watchList EXCEPT ![n] = list]
                /\ PublishTopologyChange(n, list)
    /\ UNCHANGED <<up, member, announcements, watched, terminated, wire, broken,
                   faults>>

-----------------------------------------------------------------------------
Receive(n) ==
    \/ \E k \in Nodes : HandleNode(n, k)
    \/ \E k \in Nodes : HandleTerminated(n, k)

Next ==
    \/ \E n \in Mortal : Crash(n)
    \/ \E n \in Nodes : Start(n) \/ Announce(n) \/ Receive(n) \/ Cleanup(n)
    \/ \E n, k \in Nodes : EndpointTerminated(n, k) \/ Disconnect(n, k)

Spec == Init /\ [][Next]_vars

\* Processes need not start and connections need not break; a process that started
\* has its first seeds event, handles what reaches it and notices broken connections.
\* Cleanup runs on a timer.
Fairness ==
    \A n \in Nodes :
        /\ WF_vars(announcements[n] = 0 /\ Announce(n))
        /\ WF_vars(Cleanup(n))
        /\ \A k \in Nodes :
              /\ WF_vars(HandleNode(n, k))
              /\ WF_vars(HandleTerminated(n, k))
              /\ WF_vars(EndpointTerminated(n, k))

FairSpec == Spec /\ Fairness

-----------------------------------------------------------------------------
(* Properties.                                                             *)

\* Every variable keeps its type.
TypeOK ==
    /\ up \in [Nodes -> BOOLEAN]
    /\ member \in [Nodes -> Nat]
    /\ announcements \in [Nodes -> 0..MaxAnnouncements]
    /\ watchList \in [Nodes -> [Nodes -> Entry \cup {Unknown}]]
    /\ watched \in [Nodes -> SUBSET Nodes]
    /\ terminated \in [Nodes -> SUBSET Nodes]
    /\ topology \in [Nodes -> SUBSET Status]
    /\ wire \in [Nodes -> [Nodes -> Seq(Node)]]
    /\ broken \in [Nodes -> SUBSET Nodes]
    /\ faults \in 0..MaxFaults

\* Whoever a node lists as alive it watches, or has the notice of its death still to
\* handle: also one that was dead and came back, and one that others spoke of after it
\* had died.  And it watches nobody it lists as dead or not at all.
AliveIsWatched ==
    \A n, k \in Nodes : up[n] => (Alive(n, k) <=> k \in watched[n] \cup terminated[n])

\* The routers of a node always work from what its watch list says now: every change,
\* of a join, a death or the removal of the long dead, is followed by its event.
TopologyIsCurrent == \A n \in Nodes : topology[n] = EventOf(watchList[n])

NoFault == faults = 0

\* A member that crashed for good is in the end dead for everybody, for good, though
\* those who had not noticed still tell newcomers that it lives.
DeathSettles ==
    \A k \in Nodes : <>[]~up[k] => <>[](\A n \in Nodes : ~Alive(n, k))

OnItsWay(n, j, k) == \E i \in DOMAIN wire[n][k] : wire[n][k][i].node = j

\* Two members that a third knows are introduced: one of them knows the other, or is
\* being told of it, unless a process or a connection failed.
Introduced ==
    NoFault => \A n, j, k \in Nodes :
        j # k /\ Alive(n, j) /\ Alive(n, k) =>
            \/ Alive(j, k) \/ OnItsWay(n, k, j)
            \/ Alive(k, j) \/ OnItsWay(n, j, k)

\* What the comment at the announcement says ("Tell everybody about the change"): a
\* member known to be alive gets to know every other that is, unless a fault.
EverybodyTold ==
    \A n, j, k \in Nodes :
        Alive(n, j) /\ Alive(n, k) ~> Alive(j, k) \/ ~NoFault
=============================================================================
