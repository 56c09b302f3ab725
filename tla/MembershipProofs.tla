---------------------------- MODULE MembershipProofs ----------------------------
(***************************************************************************)
(* Proofs about Membership, for any set of nodes, finite or not, any seeds *)
(* and any number of crashes, broken connections and seeds events.         *)
(***************************************************************************)
EXTENDS Membership, FiniteSetTheorems, SequenceTheorems, TLAPS

-----------------------------------------------------------------------------
(* The inductive invariant.                                                *)

Known(n) == {k \in Nodes : Knows(n, k)}

\* A watch list is filled by messages: it never holds more than it was told.
FiniteLists == \A n \in Nodes : IsFiniteSet(Known(n))

\* Whoever is listed as alive is watched, or its notice is to come, and not both.
Watching ==
    /\ \A n, k \in Nodes : Alive(n, k) <=> k \in watched[n] \cup terminated[n]
    /\ \A n \in Nodes : watched[n] \cap terminated[n] = {}

\* The process that starts knows nobody.
DownIsBlank == \A n \in Nodes : ~up[n] => Known(n) = {}

Elements(q) == {q[i] : i \in DOMAIN q}

\* As long as nothing failed, only members that run are told of and watched.
Faultless ==
    NoFault =>
        /\ \A n \in Nodes : broken[n] = {} /\ terminated[n] = {}
        /\ \A n \in Nodes : \A k \in watched[n] : up[k]
        /\ \A n, k \in Nodes : \A m \in Elements(wire[n][k]) : up[m.node]

MembershipInv ==
    /\ TypeOK
    /\ FiniteLists
    /\ Watching
    /\ DownIsBlank
    /\ TopologyIsCurrent
    /\ Faultless
    /\ Introduced

-----------------------------------------------------------------------------
(* Sequences and matrices.                                                 *)

\* Appending adds one element.
LEMMA ElementsAppend ==
    ASSUME NEW S, NEW q \in Seq(S), NEW x \in S
    PROVE  /\ Append(q, x) \in Seq(S)
           /\ Elements(Append(q, x)) = Elements(q) \cup {x}
<1>1. /\ DOMAIN Append(q, x) = 1..(Len(q) + 1)
      /\ \A i \in 1..Len(q) : Append(q, x)[i] = q[i]
      /\ Append(q, x)[Len(q) + 1] = x
      /\ Len(q) \in Nat /\ DOMAIN q = 1..Len(q)
  OBVIOUS
<1>2. 1..(Len(q) + 1) = 1..Len(q) \cup {Len(q) + 1}
  BY <1>1
<1>3. Elements(Append(q, x)) = Elements(q) \cup {x}
  BY <1>1, <1>2 DEF Elements
<1>4. QED
  BY <1>3

\* What is taken from a queue is its head.
LEMMA ElementsTaken ==
    ASSUME NEW S, NEW q \in Seq(S), q # <<>>
    PROVE  /\ Head(q) \in S /\ Tail(q) \in Seq(S)
           /\ Elements(q) = {Head(q)} \cup Elements(Tail(q))
<1>1. /\ Len(q) \in Nat \ {0} /\ DOMAIN q = 1..Len(q)
      /\ Head(q) = q[1]
      /\ DOMAIN Tail(q) = 1..(Len(q) - 1)
      /\ \A i \in 1..(Len(q) - 1) : Tail(q)[i] = q[i + 1] /\ i + 1 \in 1..Len(q)
  BY EmptySeq
<1>2. ASSUME NEW i \in DOMAIN q  PROVE q[i] = Head(q) \/ q[i] \in Elements(Tail(q))
  <2>1. CASE i = 1
    BY <1>1, <2>1
  <2>2. CASE i # 1
    <3>1. i - 1 \in 1..(Len(q) - 1) /\ (i - 1) + 1 = i
      BY <1>1, <2>2
    <3>2. QED
      BY <1>1, <3>1 DEF Elements
  <2>3. QED
    BY <2>1, <2>2
<1>3. Elements(q) = {Head(q)} \cup Elements(Tail(q))
  <2>1. Elements(q) \subseteq {Head(q)} \cup Elements(Tail(q))
    BY <1>2 DEF Elements
  <2>2. Elements(Tail(q)) \subseteq Elements(q)
    BY <1>1 DEF Elements
  <2>3. Head(q) \in Elements(q)
    BY <1>1 DEF Elements
  <2>4. QED
    BY <2>1, <2>2, <2>3
<1>4. Head(q) \in S /\ Tail(q) \in Seq(S)
  OBVIOUS
<1>5. QED
  BY <1>3, <1>4

\* What is told goes behind what was told before.
LEMMA ElementsConcat ==
    ASSUME NEW S, NEW q \in Seq(S), NEW r \in Seq(S)
    PROVE  /\ q \o r \in Seq(S)
           /\ Elements(q \o r) = Elements(q) \cup Elements(r)
<1>1. /\ Len(q) \in Nat /\ Len(r) \in Nat
      /\ DOMAIN q = 1..Len(q) /\ DOMAIN r = 1..Len(r)
      /\ DOMAIN (q \o r) = 1..(Len(q) + Len(r))
      /\ \A i \in 1..(Len(q) + Len(r)) :
            (q \o r)[i] = IF i =< Len(q) THEN q[i] ELSE r[i - Len(q)]
  OBVIOUS
<1>2. \A i \in 1..(Len(q) + Len(r)) : i =< Len(q) \/ i - Len(q) \in 1..Len(r)
  BY <1>1
<1>3. Elements(q \o r) \subseteq Elements(q) \cup Elements(r)
  BY <1>1, <1>2 DEF Elements
<1>4. \A i \in 1..Len(q) : i \in 1..(Len(q) + Len(r)) /\ (q \o r)[i] = q[i]
  BY <1>1
<1>5. \A i \in 1..Len(r) : /\ i + Len(q) \in 1..(Len(q) + Len(r))
                           /\ (q \o r)[i + Len(q)] = r[i]
  <2>1. ASSUME NEW i \in 1..Len(r)
        PROVE  /\ i + Len(q) \in 1..(Len(q) + Len(r))
               /\ ~(i + Len(q) =< Len(q)) /\ (i + Len(q)) - Len(q) = i
    BY <1>1
  <2>2. QED
    BY <1>1, <2>1
<1>6. Elements(q) \subseteq Elements(q \o r)
  BY <1>1, <1>4 DEF Elements
<1>7. Elements(r) \subseteq Elements(q \o r)
  BY <1>1, <1>5 DEF Elements
<1>8. QED
  BY <1>3, <1>6, <1>7

\* A matrix of which one cell changes stays one.
LEMMA ExceptType ==
    ASSUME NEW A, NEW B, NEW C, NEW f \in [A -> [B -> C]], NEW a \in A, NEW b \in B,
           NEW c \in C
    PROVE  /\ [f EXCEPT ![a][b] = c] \in [A -> [B -> C]]
           /\ \A i \in A, j \in B :
                 [f EXCEPT ![a][b] = c][i][j] = IF i = a /\ j = b THEN c ELSE f[i][j]
<1>1. [f[a] EXCEPT ![b] = c] \in [B -> C]
  OBVIOUS
<1>2. [f EXCEPT ![a][b] = c] \in [A -> [B -> C]]
  BY <1>1
<1>3. QED
  BY <1>1, <1>2

Wires == [Nodes -> [Nodes -> Seq(Node)]]

\* Tell changes one connection, or none if it is broken.
LEMMA TellOne ==
    ASSUME NEW queues \in Wires, NEW n \in Nodes, NEW k \in Nodes,
           NEW q \in Seq(Node)
    PROVE  /\ Tell(queues, n, k, q) \in Wires
           /\ k \notin broken[n] => Tell(queues, n, k, q)[n][k] = queues[n][k] \o q
           /\ \A i, j \in Nodes :
                 ~(i = n /\ j = k /\ k \notin broken[n]) =>
                    Tell(queues, n, k, q)[i][j] = queues[i][j]
<1>1. queues[n][k] \o q \in Seq(Node)
  BY ElementsConcat DEF Wires
<1>2. CASE k \in broken[n]
  BY <1>2 DEF Tell
<1>3. CASE k \notin broken[n]
  <2> DEFINE told == [queues EXCEPT ![n][k] = queues[n][k] \o q]
  <2>1. Tell(queues, n, k, q) = told
    BY <1>3 DEF Tell
  <2>2. /\ told \in Wires
        /\ \A i, j \in Nodes :
              told[i][j] = IF i = n /\ j = k THEN queues[n][k] \o q ELSE queues[i][j]
    BY <1>1, ExceptType DEF Wires
  <2> HIDE DEF told
  <2>3. QED
    BY <1>3, <2>1, <2>2
<1>4. QED
  BY <1>2, <1>3

\* Each order of a finite set names all of it.
LEMMA OrdersCover ==
    ASSUME NEW S, IsFiniteSet(S), NEW q \in Orders(S)
    PROVE  q \in Seq(S) /\ Elements(q) = S
<1>1. Cardinality(S) \in Nat
  BY FS_CardinalityType
<1>2. q \in [1..Cardinality(S) -> S] /\ DOMAIN q = 1..Cardinality(S)
  BY DEF Orders
<1>3. \A i, j \in DOMAIN q : q[i] = q[j] => i = j
  BY DEF Orders
<1>4. q \in Injection(1..Cardinality(S), S)
  BY <1>2, <1>3 DEF Injection, IsInjective
<1>5. Cardinality(1..Cardinality(S)) = Cardinality(S)
  BY <1>1, FS_Interval
<1>6. q \in Surjection(1..Cardinality(S), S)
  BY <1>4, <1>5, FS_Injection
<1>7. Elements(q) = S
  BY <1>2, <1>6 DEF Surjection, Elements
<1>8. q \in Seq(S)
  BY <1>1, <1>2
<1>9. QED
  BY <1>7, <1>8

-----------------------------------------------------------------------------
(* What follows for a step from what it does to the lists and the wire.    *)

\* A step that changes no list changes nothing that is said of lists alone.
LEMMA ListsStay ==
    ASSUME UNCHANGED watchList
    PROVE  /\ \A n, k \in Nodes : Alive(n, k)' = Alive(n, k)
           /\ \A n \in Nodes : Known(n)' = Known(n)
           /\ FiniteLists => FiniteLists'
BY DEF Alive, Knows, Known, FiniteLists

\* OnItsWay looks for a member among what was told.
LEMMA OnItsWayIn ==
    /\ \A n, j, k \in Nodes :
          OnItsWay(n, j, k) <=> \E m \in Elements(wire[n][k]) : m.node = j
    /\ \A n, j, k \in Nodes :
          OnItsWay(n, j, k)' <=> \E m \in Elements(wire'[n][k]) : m.node = j
BY DEF OnItsWay, Elements

\* Without a fault, whom a node lists as alive runs.
LEMMA AliveRuns ==
    ASSUME MembershipInv, NoFault, NEW n \in Nodes, NEW k \in Nodes, Alive(n, k)
    PROVE  up[k]
BY DEF MembershipInv, Watching, Faultless

-----------------------------------------------------------------------------
(* Processes and connections.                                              *)

\* A process that starts knows nobody, is watched by nobody, and nothing is lost.
LEMMA StartKeeps ==
    ASSUME MembershipInv, NEW n \in Nodes, Start(n)
    PROVE  MembershipInv'
<1>1. /\ UNCHANGED <<announcements, watchList, watched, terminated, topology, wire, broken,
                      faults>>
      /\ \A k \in Nodes : up[k] => up'[k]
  BY DEF Start, MembershipInv, TypeOK
<1>2. TypeOK'
  <2>1. member' \in [Nodes -> Nat] /\ up' \in [Nodes -> BOOLEAN]
    BY DEF Start, MembershipInv, TypeOK
  <2>2. QED
    BY <1>1, <2>1 DEF MembershipInv, TypeOK
<1>3. FiniteLists' /\ Watching' /\ TopologyIsCurrent'
  BY <1>1, ListsStay DEF MembershipInv, Watching, TopologyIsCurrent
<1>4. DownIsBlank'
  BY <1>1, ListsStay DEF MembershipInv, DownIsBlank
<1>5. Faultless'
  <2> SUFFICES ASSUME NoFault'  PROVE Faultless'
    BY DEF Faultless
  <2>1. \A i, k \in Nodes : \A m \in Elements(wire[i][k]) : up[m.node] /\ m.node \in Nodes
    <3>1. \A i, k \in Nodes : Elements(wire[i][k]) \subseteq Node
      BY ElementOfSeq DEF MembershipInv, TypeOK, Elements
    <3>2. QED
      BY <1>1, <3>1 DEF MembershipInv, Faultless, NoFault, Node
  <2>2. \A i \in Nodes : \A k \in watched[i] : up'[k]
    BY <1>1 DEF MembershipInv, TypeOK, Faultless, NoFault
  <2>3. QED
    BY <1>1, <2>1, <2>2 DEF MembershipInv, Faultless, NoFault
<1>6. Introduced'
  BY <1>1, ListsStay, OnItsWayIn DEF MembershipInv, Introduced, NoFault
<1>7. QED
  BY <1>2, <1>3, <1>4, <1>5, <1>6 DEF MembershipInv

\* A process that dies leaves nothing behind, and its death is a fault.
LEMMA CrashKeeps ==
    ASSUME MembershipInv, NEW n \in Nodes, Crash(n)
    PROVE  MembershipInv'
<1>1. faults' # 0 /\ faults' \in 0..MaxFaults
  BY MembershipAssumption DEF Crash, MembershipInv, TypeOK
<1>2. /\ watchList' = [watchList EXCEPT ![n] = NothingKnown]
      /\ NothingKnown \in [Nodes -> Entry \cup {Unknown}]
  BY DEF Crash, NothingKnown
<1>3. /\ \A i \in Nodes : i # n => watchList'[i] = watchList[i] /\ Known(i)' = Known(i)
      /\ \A i, k \in Nodes : i # n => Alive(i, k)' = Alive(i, k)
      /\ watchList'[n] = NothingKnown /\ Known(n)' = {} /\ EventOf(watchList'[n]) = {}
      /\ \A k \in Nodes : ~Alive(n, k)'
  BY <1>2 DEF MembershipInv, TypeOK, Alive, Knows, Known, NothingKnown, EventOf
<1>4. TypeOK'
  <2>1. PICK lost \in SUBSET Nodes :
          wire' = [m \in Nodes |-> [k \in Nodes |->
                     IF k = n \/ (m = n /\ k \in lost) THEN <<>> ELSE wire[m][k]]]
    BY DEF Crash
  <2>2. wire' \in [Nodes -> [Nodes -> Seq(Node)]]
    <3>1. \A m, k \in Nodes :
            (IF k = n \/ (m = n /\ k \in lost) THEN <<>> ELSE wire[m][k]) \in Seq(Node)
      BY EmptySeq DEF MembershipInv, TypeOK
    <3>2. QED
      BY <2>1, <3>1
  <2>3. broken' \in [Nodes -> SUBSET Nodes]
    BY DEF Crash, MembershipInv, TypeOK
  <2>4. /\ watchList' \in [Nodes -> [Nodes -> Entry \cup {Unknown}]]
        /\ topology' \in [Nodes -> SUBSET Status]
    BY <1>2 DEF Crash, MembershipInv, TypeOK
  <2>5. /\ up' \in [Nodes -> BOOLEAN] /\ announcements' \in [Nodes -> 0..MaxAnnouncements]
        /\ watched' \in [Nodes -> SUBSET Nodes] /\ terminated' \in [Nodes -> SUBSET Nodes]
        /\ member' \in [Nodes -> Nat]
    BY MembershipAssumption DEF Crash, MembershipInv, TypeOK
  <2>6. QED
    BY <1>1, <2>2, <2>3, <2>4, <2>5 DEF TypeOK
<1>5. FiniteLists'
  BY <1>3, FS_EmptySet DEF MembershipInv, FiniteLists
<1>6. Watching'
  BY <1>3 DEF Crash, MembershipInv, TypeOK, Watching
<1>7. DownIsBlank'
  BY <1>3 DEF Crash, MembershipInv, TypeOK, DownIsBlank
<1>8. TopologyIsCurrent'
  BY <1>3 DEF Crash, MembershipInv, TypeOK, TopologyIsCurrent
<1>9. Faultless' /\ Introduced'
  BY <1>1 DEF Faultless, Introduced, NoFault
<1>10. QED
  BY <1>4, <1>5, <1>6, <1>7, <1>8, <1>9 DEF MembershipInv

\* A connection that breaks is a fault.
LEMMA DisconnectKeeps ==
    ASSUME MembershipInv, NEW n \in Nodes, NEW k \in Nodes, Disconnect(n, k)
    PROVE  MembershipInv'
<1>1. faults' # 0 /\ faults' \in 0..MaxFaults
  BY MembershipAssumption DEF Disconnect, MembershipInv, TypeOK
<1>2. TypeOK'
  <2>1. wire' \in [Nodes -> [Nodes -> Seq(Node)]]
    BY EmptySeq, ExceptType DEF Disconnect, MembershipInv, TypeOK
  <2>2. broken' \in [Nodes -> SUBSET Nodes]
    BY DEF Disconnect, MembershipInv, TypeOK
  <2>3. QED
    BY <1>1, <2>1, <2>2 DEF Disconnect, MembershipInv, TypeOK
<1>3. FiniteLists' /\ Watching' /\ DownIsBlank' /\ TopologyIsCurrent'
  BY ListsStay DEF Disconnect, MembershipInv, Watching, DownIsBlank, TopologyIsCurrent
<1>4. Faultless' /\ Introduced'
  BY <1>1 DEF Faultless, Introduced, NoFault
<1>5. QED
  BY <1>2, <1>3, <1>4 DEF MembershipInv

\* Who is no longer watched has its notice to come.  Without a fault only what was told
\* to a seed that does not run is given up.
LEMMA EndpointTerminatedKeeps ==
    ASSUME MembershipInv, NEW n \in Nodes, NEW k \in Nodes, EndpointTerminated(n, k)
    PROVE  MembershipInv'
<1>1. UNCHANGED <<up, member, announcements, watchList, topology, faults>>
  BY DEF EndpointTerminated
<1>2. /\ wire' \in [Nodes -> [Nodes -> Seq(Node)]]
      /\ \A i, j \in Nodes : wire'[i][j] = IF i = n /\ j = k THEN <<>> ELSE wire[i][j]
  <2>1. <<>> \in Seq(Node) /\ wire \in [Nodes -> [Nodes -> Seq(Node)]]
    BY EmptySeq DEF MembershipInv, TypeOK
  <2>2. wire' = [wire EXCEPT ![n][k] = <<>>]
    BY DEF EndpointTerminated
  <2>3. QED
    BY <2>1, <2>2, ExceptType
<1>3. TypeOK'
  <2>1. /\ broken' \in [Nodes -> SUBSET Nodes] /\ watched' \in [Nodes -> SUBSET Nodes]
        /\ terminated' \in [Nodes -> SUBSET Nodes]
    BY DEF EndpointTerminated, MembershipInv, TypeOK
  <2>2. QED
    BY <1>1, <1>2, <2>1 DEF MembershipInv, TypeOK
<1>4. Watching'
  <2>1. \A i \in Nodes : watched'[i] \cup terminated'[i] = watched[i] \cup terminated[i]
    BY DEF EndpointTerminated, MembershipInv, TypeOK
  <2>2. \A i \in Nodes : watched'[i] \cap terminated'[i] = {}
    BY DEF EndpointTerminated, MembershipInv, TypeOK, Watching
  <2>3. QED
    BY <1>1, <2>1, <2>2, ListsStay DEF MembershipInv, Watching
<1>5. FiniteLists' /\ DownIsBlank' /\ TopologyIsCurrent'
  BY <1>1, ListsStay DEF MembershipInv, DownIsBlank, TopologyIsCurrent
<1>6. ASSUME NoFault
      PROVE  ~up[k] /\ k \notin watched[n]
  BY <1>6 DEF EndpointTerminated, MembershipInv, Faultless
<1>7. Faultless'
  <2> SUFFICES ASSUME NoFault'  PROVE Faultless'
    BY DEF Faultless
  <2>1. NoFault
    BY <1>1 DEF NoFault
  <2>2. \A i \in Nodes : broken'[i] = {} /\ terminated'[i] = {} /\ watched'[i] \subseteq watched[i]
    BY <1>6, <2>1 DEF EndpointTerminated, MembershipInv, TypeOK, Faultless
  <2>3. \A i, j \in Nodes : Elements(wire'[i][j]) \subseteq Elements(wire[i][j])
    <3>1. Elements(<<>>) = {}
      BY DEF Elements
    <3>2. QED
      BY <1>2, <3>1
  <2>4. QED
    BY <1>1, <2>1, <2>2, <2>3 DEF MembershipInv, Faultless
<1>8. Introduced'
  <2>1. NoFault' => NoFault
    BY <1>1 DEF NoFault
  <2>2. NoFault => \A i, j \in Nodes : Alive(i, j) => up[j]
    BY AliveRuns
  <2>3. NoFault => \A i, j \in Nodes : up[j] => wire'[i][j] = wire[i][j]
    BY <1>2, <1>6
  <2>4. QED
    BY <1>1, <2>1, <2>2, <2>3, ListsStay, OnItsWayIn DEF MembershipInv, Introduced
<1>9. QED
  BY <1>3, <1>4, <1>5, <1>7, <1>8 DEF MembershipInv

-----------------------------------------------------------------------------
(* SeededLocalClusterProvider.                                             *)

\* A node that announces itself runs.
LEMMA AnnounceKeeps ==
    ASSUME MembershipInv, NEW n \in Nodes, Announce(n)
    PROVE  MembershipInv'
<1> DEFINE me == [node |-> n, member |-> member[n]]
           to == (Seeds[n] \cup {n}) \ broken[n]
<1>1. UNCHANGED <<up, member, watchList, watched, terminated, topology, broken, faults>>
  BY DEF Announce
<1>2. up[n] /\ me \in Node /\ me.node = n
  BY DEF Announce, MembershipInv, TypeOK, Node
<1>3. /\ wire' \in [Nodes -> [Nodes -> Seq(Node)]]
      /\ \A i, k \in Nodes :
            Elements(wire'[i][k]) = IF i = n /\ k \in to THEN Elements(wire[i][k]) \cup {me}
                                    ELSE Elements(wire[i][k])
  <2>1. wire \in [Nodes -> [Nodes -> Seq(Node)]]
    BY DEF MembershipInv, TypeOK
  <2>2. wire' = [wire EXCEPT ![n] = [k \in Nodes |-> IF k \in to THEN Append(wire[n][k], me)
                                                     ELSE wire[n][k]]]
    BY DEF Announce
  <2> HIDE DEF me, to
  <2>3. \A k \in Nodes : /\ Append(wire[n][k], me) \in Seq(Node)
                         /\ Elements(Append(wire[n][k], me)) = Elements(wire[n][k]) \cup {me}
    BY <1>2, <2>1, ElementsAppend
  <2>4. [k \in Nodes |-> IF k \in to THEN Append(wire[n][k], me) ELSE wire[n][k]]
            \in [Nodes -> Seq(Node)]
    BY <2>1, <2>3
  <2>5. wire' \in [Nodes -> [Nodes -> Seq(Node)]]
    BY <2>1, <2>2, <2>4
  <2>6. \A i, k \in Nodes : wire'[i][k] = IF i = n /\ k \in to THEN Append(wire[n][k], me)
                                          ELSE wire[i][k]
    BY <2>1, <2>2
  <2>7. QED
    BY <2>3, <2>5, <2>6
<1> HIDE DEF me, to
<1>4. TypeOK'
  <2>1. announcements' \in [Nodes -> 0..MaxAnnouncements]
    <3>1. announcements[n] + 1 \in 0..MaxAnnouncements
      BY MembershipAssumption DEF Announce, MembershipInv, TypeOK
    <3>2. QED
      BY <3>1 DEF Announce, MembershipInv, TypeOK
  <2>2. QED
    BY <1>1, <1>3, <2>1 DEF MembershipInv, TypeOK
<1>5. FiniteLists' /\ Watching' /\ DownIsBlank' /\ TopologyIsCurrent'
  BY <1>1, ListsStay DEF MembershipInv, Watching, DownIsBlank, TopologyIsCurrent
<1>6. Faultless'
  <2> SUFFICES ASSUME NoFault'  PROVE Faultless'
    BY DEF Faultless
  <2>1. NoFault
    BY <1>1 DEF NoFault
  <2>2. ASSUME NEW i \in Nodes, NEW k \in Nodes, NEW m \in Elements(wire'[i][k])
        PROVE  up'[m.node]
    <3>1. m = me \/ m \in Elements(wire[i][k])
      BY <1>3
    <3>2. QED
      BY <1>1, <1>2, <2>1, <3>1 DEF MembershipInv, Faultless
  <2>3. QED
    BY <1>1, <2>1, <2>2 DEF MembershipInv, Faultless
<1>7. Introduced'
  <2>1. NoFault' => NoFault
    BY <1>1 DEF NoFault
  <2>2. \A i, k \in Nodes : Elements(wire[i][k]) \subseteq Elements(wire'[i][k])
    BY <1>3
  <2>3. ASSUME NEW i \in Nodes, NEW j \in Nodes, NEW k \in Nodes, OnItsWay(i, j, k)
        PROVE  OnItsWay(i, j, k)'
    <3>1. PICK m \in Elements(wire[i][k]) : m.node = j
      BY <2>3, OnItsWayIn
    <3>2. m \in Elements(wire'[i][k])
      BY <2>2, <3>1
    <3>3. QED
      BY <3>1, <3>2, OnItsWayIn
  <2>4. \A i, k \in Nodes : Alive(i, k)' = Alive(i, k)
    BY <1>1, ListsStay
  <2>5. Introduced
    BY DEF MembershipInv
  <2>6. QED
    BY <2>1, <2>3, <2>4, <2>5 DEF Introduced
<1>8. QED
  BY <1>4, <1>5, <1>6, <1>7 DEF MembershipInv

-----------------------------------------------------------------------------
(* ClusterProviderIsAliveActor.ReceiveAsync.                               *)

\* The last event a node published is that of its new list.
LEMMA PublishedIsCurrent ==
    ASSUME TypeOK, TopologyIsCurrent, NEW n \in Nodes,
           NEW list \in [Nodes -> Entry \cup {Unknown}],
           watchList' = [watchList EXCEPT ![n] = list], PublishTopologyChange(n, list)
    PROVE  /\ TopologyIsCurrent'
           /\ topology' \in [Nodes -> SUBSET Status]
           /\ watchList' \in [Nodes -> [Nodes -> Entry \cup {Unknown}]]
<1>1. EventOf(list) \in SUBSET Status
  <2>1. \A k \in Nodes : list[k] # Unknown => list[k] \in Entry
    OBVIOUS
  <2>2. QED
    BY <2>1 DEF EventOf, Status, Entry
<1>2. /\ topology' = [topology EXCEPT ![n] = EventOf(list)]
      /\ topology \in [Nodes -> SUBSET Status]
      /\ watchList \in [Nodes -> [Nodes -> Entry \cup {Unknown}]]
  BY DEF PublishTopologyChange, TypeOK
<1>3. \A i \in Nodes : topology'[i] = EventOf(watchList'[i])
  BY <1>2 DEF TopologyIsCurrent
<1>4. QED
  BY <1>1, <1>2, <1>3 DEF TopologyIsCurrent

\* Whom one entry makes alive, dead or unknown.
LEMMA OneEntry ==
    ASSUME TypeOK, NEW n \in Nodes, NEW k \in Nodes, NEW e \in Entry,
           watchList' = [watchList EXCEPT ![n] = [watchList[n] EXCEPT ![k] = e]]
    PROVE  /\ \A i, j \in Nodes : i # n \/ j # k =>
                 /\ watchList'[i][j] = watchList[i][j]
                 /\ Knows(i, j)' = Knows(i, j) /\ (Alive(i, j)' <=> Alive(i, j))
           /\ watchList'[n][k] = e /\ Knows(n, k)' /\ (Alive(n, k)' <=> e.alive)
           /\ \A i \in Nodes : Known(i)' = IF i = n THEN Known(i) \cup {k} ELSE Known(i)
<1>1. e # Unknown
  BY MembershipAssumption DEF Entry
<1>2. \A i, j \in Nodes : watchList'[i][j] = IF i = n /\ j = k THEN e ELSE watchList[i][j]
  BY DEF TypeOK
<1>3. QED
  BY <1>1, <1>2 DEF Knows, Alive, Known

\* A member that was not alive is watched from now on; those that are alive are on their
\* way to it, so that it is introduced to them all.
LEMMA HandleNodeKeeps ==
    ASSUME MembershipInv, NEW n \in Nodes, NEW from \in Nodes, HandleNode(n, from)
    PROVE  MembershipInv'
<1>1. UNCHANGED <<up, member, announcements, terminated, broken, faults>>
  BY DEF HandleNode
<1>2. up[n] /\ wire[from][n] \in Seq(Node) /\ wire[from][n] # <<>>
  BY DEF HandleNode, MembershipInv, TypeOK
<1>3. PICK node \in Node :
        /\ node = Head(wire[from][n])
        /\ Tail(wire[from][n]) \in Seq(Node)
        /\ Elements(wire[from][n]) = {node} \cup Elements(Tail(wire[from][n]))
  BY <1>2, ElementsTaken
<1>4. PICK k \in Nodes, e \in Entry :
        k = node.node /\ e = [member |-> node.member, alive |-> TRUE]
  BY DEF Node, Entry
<1>5. NoFault => up[k]
  BY <1>3, <1>4 DEF MembershipInv, Faultless
<1>6. PICK rest \in Wires :
        /\ rest = [wire EXCEPT ![from][n] = Tail(wire[from][n])]
        /\ \A i, j \in Nodes : rest[i][j] = IF i = from /\ j = n THEN Tail(wire[from][n])
                                            ELSE wire[i][j]
  <2>1. wire \in [Nodes -> [Nodes -> Seq(Node)]]
    BY DEF MembershipInv, TypeOK
  <2> DEFINE r == [wire EXCEPT ![from][n] = Tail(wire[from][n])]
  <2>2. /\ r \in [Nodes -> [Nodes -> Seq(Node)]]
        /\ \A i, j \in Nodes : r[i][j] = IF i = from /\ j = n THEN Tail(wire[from][n])
                                         ELSE wire[i][j]
    BY <1>3, <2>1, ExceptType
  <2>3. r = [wire EXCEPT ![from][n] = Tail(wire[from][n])]
    OBVIOUS
  <2> HIDE DEF r
  <2>4. QED
    BY <2>2, <2>3 DEF Wires
<1>7. CASE Ignored(n, k)
  <2>1. wire' = rest /\ UNCHANGED <<watchList, watched, topology>>
    BY <1>3, <1>4, <1>6, <1>7 DEF HandleNode
  <2>2. TypeOK'
    BY <1>1, <1>6, <2>1 DEF MembershipInv, TypeOK, Wires
  <2>3. FiniteLists' /\ Watching' /\ DownIsBlank' /\ TopologyIsCurrent'
    BY <1>1, <2>1, ListsStay DEF MembershipInv, Watching, DownIsBlank, TopologyIsCurrent
  <2>4. \A i, j \in Nodes : /\ Elements(wire'[i][j]) \subseteq Elements(wire[i][j])
                            /\ \A m \in Elements(wire[i][j]) :
                                  m \in Elements(wire'[i][j]) \/ (j = n /\ m = node)
    BY <1>3, <1>6, <2>1
  <2>5. Faultless'
    BY <1>1, <2>1, <2>4 DEF MembershipInv, Faultless, NoFault
  <2>6. Introduced'
    <3>1. ASSUME NEW i \in Nodes, NEW j \in Nodes, NEW l \in Nodes, OnItsWay(i, j, l)
          PROVE  OnItsWay(i, j, l)' \/ (l = n /\ j = k)
      <4>1. PICK m \in Elements(wire[i][l]) : m.node = j
        BY <3>1, OnItsWayIn
      <4>2. m \in Elements(wire'[i][l]) \/ (l = n /\ m = node)
        BY <2>4, <4>1
      <4>3. QED
        BY <1>4, <4>1, <4>2, OnItsWayIn
    <3>2. \A i, j \in Nodes : Alive(i, j)' = Alive(i, j)
      BY <2>1, ListsStay
    <3>3. Alive(n, k) /\ Introduced /\ (NoFault' => NoFault)
      BY <1>1, <1>7 DEF Ignored, MembershipInv, NoFault
    <3>4. QED
      BY <1>4, <3>1, <3>2, <3>3 DEF Introduced
  <2>7. QED
    BY <2>2, <2>3, <2>5, <2>6 DEF MembershipInv
<1>8. CASE ~Ignored(n, k)
  <2>1. PICK q \in Orders(Others(n, k)) :
          wire' = Tell(rest, n, k, [i \in DOMAIN q |->
                      [node |-> q[i], member |-> watchList[n][q[i]].member]])
    <3>1. k = Head(wire[from][n]).node /\ rest = [wire EXCEPT ![from][n] = Tail(wire[from][n])]
      BY <1>3, <1>4, <1>6
    <3>2. ~Ignored(n, Head(wire[from][n]).node)
      BY <1>8, <3>1
    <3>3. PICK q \in Orders(Others(n, Head(wire[from][n]).node)) :
            wire' = Tell([wire EXCEPT ![from][n] = Tail(wire[from][n])], n,
                         Head(wire[from][n]).node,
                         [i \in DOMAIN q |-> [node |-> q[i], member |-> watchList[n][q[i]].member]])
      BY <3>2, Zenon DEF HandleNode
    <3>4. QED
      BY <3>1, <3>3, Zenon
  <2>2. /\ watchList' = [watchList EXCEPT ![n] = [watchList[n] EXCEPT ![k] = e]]
        /\ PublishTopologyChange(n, [watchList[n] EXCEPT ![k] = e])
        /\ watched' = [watched EXCEPT ![n] = @ \cup {k}]
    BY <1>3, <1>4, <1>8 DEF HandleNode, Watch
  <2>3. PICK list \in [Nodes -> Entry \cup {Unknown}] : list = [watchList[n] EXCEPT ![k] = e]
    BY DEF MembershipInv, TypeOK
  <2>4. /\ \A i, j \in Nodes : i # n \/ j # k => (Alive(i, j)' <=> Alive(i, j))
        /\ Alive(n, k)' /\ ~Alive(n, k)
        /\ \A i \in Nodes : Known(i)' = IF i = n THEN Known(i) \cup {k} ELSE Known(i)
    <3>1. TypeOK /\ e.alive
      BY <1>4 DEF MembershipInv
    <3>2. /\ \A i, j \in Nodes : i # n \/ j # k => (Alive(i, j)' <=> Alive(i, j))
          /\ Alive(n, k)' <=> e.alive
          /\ \A i \in Nodes : Known(i)' = IF i = n THEN Known(i) \cup {k} ELSE Known(i)
      BY <2>2, <3>1, OneEntry
    <3>3. QED
      BY <1>8, <3>1, <3>2 DEF Ignored
  <2>5. /\ q \in Seq(Others(n, k)) /\ Elements(q) = Others(n, k)
    <3>1. Others(n, k) \in SUBSET Known(n)
      BY DEF Others, Known, Alive
    <3>2. IsFiniteSet(Others(n, k))
      BY <3>1, FS_Subset DEF MembershipInv, FiniteLists
    <3>3. QED
      BY <3>2, OrdersCover
  <2>6. PICK told \in Seq(Node) :
          /\ told = [i \in DOMAIN q |-> [node |-> q[i], member |-> watchList[n][q[i]].member]]
          /\ \A j \in Others(n, k) : \E m \in Elements(told) : m.node = j
          /\ \A m \in Elements(told) : m.node \in Others(n, k)
    <3> DEFINE t == [i \in DOMAIN q |-> [node |-> q[i], member |-> watchList[n][q[i]].member]]
    <3>1. \A j \in Others(n, k) : [node |-> j, member |-> watchList[n][j].member] \in Node
      <4>1. \A j \in Others(n, k) : j \in Nodes /\ watchList[n][j] \in Entry
        BY DEF Others, Alive, Knows, MembershipInv, TypeOK
      <4>2. QED
        BY <4>1 DEF Node, Entry
    <3>2. DOMAIN q = 1..Len(q) /\ Len(q) \in Nat /\ \A i \in DOMAIN q : q[i] \in Others(n, k)
      BY <2>5
    <3>3. t \in [1..Len(q) -> Node]
      BY <3>1, <3>2
    <3>4. t \in Seq(Node) /\ DOMAIN t = DOMAIN q
      BY <3>2, <3>3
    <3>5. \A i \in DOMAIN q : t[i].node = q[i]
      OBVIOUS
    <3> HIDE DEF t
    <3>6. /\ \A j \in Others(n, k) : \E m \in Elements(t) : m.node = j
          /\ \A m \in Elements(t) : m.node \in Others(n, k)
      BY <2>5, <3>2, <3>4, <3>5 DEF Elements
    <3>7. QED
      BY <3>4, <3>6 DEF t
  <2>7. wire' = Tell(rest, n, k, told)
    BY <2>1, <2>6
  <2>8. /\ wire' \in [Nodes -> [Nodes -> Seq(Node)]]
        /\ \A i, j \in Nodes : Elements(wire'[i][j]) =
               IF i = n /\ j = k /\ k \notin broken[n]
               THEN Elements(rest[i][j]) \cup Elements(told) ELSE Elements(rest[i][j])
    <3>1. /\ wire' \in [Nodes -> [Nodes -> Seq(Node)]]
          /\ \A i, j \in Nodes : wire'[i][j] = IF i = n /\ j = k /\ k \notin broken[n]
                                               THEN rest[i][j] \o told ELSE rest[i][j]
      <4> DEFINE new == Tell(rest, n, k, told)
      <4>1. new \in Wires
        BY TellOne
      <4>2. k \notin broken[n] => new[n][k] = rest[n][k] \o told
        BY TellOne
      <4>3. \A i, j \in Nodes :
               ~(i = n /\ j = k /\ k \notin broken[n]) => new[i][j] = rest[i][j]
        BY TellOne
      <4>4. wire' = new
        BY <2>7
      <4> HIDE DEF new
      <4>5. QED
        BY <4>1, <4>2, <4>3, <4>4 DEF Wires
    <3>2. Elements(rest[n][k] \o told) = Elements(rest[n][k]) \cup Elements(told)
      <4>1. rest[n][k] \in Seq(Node)
        BY DEF Wires
      <4>2. QED
        BY <4>1, ElementsConcat
    <3>3. QED
      BY <3>1, <3>2
  <2>9. /\ TopologyIsCurrent'
        /\ topology' \in [Nodes -> SUBSET Status]
        /\ watchList' \in [Nodes -> [Nodes -> Entry \cup {Unknown}]]
    BY <2>2, <2>3, PublishedIsCurrent DEF MembershipInv
  <2>10. TypeOK'
    <3>1. watched' \in [Nodes -> SUBSET Nodes]
      BY <1>4, <2>2 DEF MembershipInv, TypeOK
    <3>2. QED
      BY <1>1, <2>8, <2>9, <3>1 DEF MembershipInv, TypeOK
  <2>11. FiniteLists'
    <3> SUFFICES ASSUME NEW i \in Nodes  PROVE IsFiniteSet(Known(i)')
      BY DEF FiniteLists
    <3>1. IsFiniteSet(Known(i)) /\ IsFiniteSet(Known(i) \cup {k})
      BY FS_AddElement DEF MembershipInv, FiniteLists
    <3>2. Known(i)' \in {Known(i), Known(i) \cup {k}}
      BY <2>4
    <3>3. QED
      BY <3>1, <3>2
  <2>12. \A i \in Nodes : watched'[i] = IF i = n THEN watched[i] \cup {k} ELSE watched[i]
    BY <2>2 DEF MembershipInv, TypeOK
  <2>13. Watching'
    <3>1. /\ \A i, j \in Nodes : Alive(i, j) <=> j \in watched[i] \cup terminated[i]
          /\ \A i \in Nodes : watched[i] \cap terminated[i] = {}
      BY DEF MembershipInv, Watching
    <3>2. k \notin terminated[n]
      BY <1>4, <2>4, <3>1
    <3>3. \A i, j \in Nodes : Alive(i, j)' <=> j \in watched'[i] \cup terminated'[i]
      <4> SUFFICES ASSUME NEW i \in Nodes, NEW j \in Nodes
                   PROVE  Alive(i, j)' <=> j \in watched'[i] \cup terminated'[i]
        OBVIOUS
      <4>1. terminated' = terminated
        BY <1>1
      <4>2. CASE i = n /\ j = k
        BY <2>4, <2>12, <4>2
      <4>3. CASE ~(i = n /\ j = k)
        <5>1. (Alive(i, j)' <=> Alive(i, j)) /\ (Alive(i, j) <=> j \in watched[i] \cup terminated[i])
          BY <2>4, <3>1, <4>3
        <5>2. j \in watched'[i] <=> j \in watched[i]
          BY <2>12, <4>3
        <5>3. QED
          BY <4>1, <5>1, <5>2
      <4>4. QED
        BY <4>2, <4>3
    <3>4. ASSUME NEW i \in Nodes  PROVE watched'[i] \cap terminated'[i] = {}
      <4>1. terminated'[i] = terminated[i] /\ watched[i] \cap terminated[i] = {}
        BY <1>1, <3>1
      <4>2. watched'[i] = watched[i] \/ (i = n /\ watched'[i] = watched[i] \cup {k})
        BY <2>12
      <4>3. QED
        BY <3>2, <4>1, <4>2
    <3>5. QED
      BY <3>3, <3>4 DEF Watching
  <2>14. DownIsBlank'
    BY <1>1, <1>2, <2>4 DEF MembershipInv, DownIsBlank
  <2>15. Faultless'
    <3> SUFFICES ASSUME NoFault'  PROVE Faultless'
      BY DEF Faultless
    <3>1. NoFault /\ up[k]
      BY <1>1, <1>5 DEF NoFault
    <3>2. \A i, j \in Nodes : \A m \in Elements(wire[i][j]) : up[m.node]
      BY <3>1 DEF MembershipInv, Faultless
    <3>3. \A m \in Elements(told) : up[m.node]
      BY <2>6, <3>1, AliveRuns DEF Others
    <3>4. \A i, j \in Nodes : Elements(rest[i][j]) \subseteq Elements(wire[i][j])
      BY <1>3, <1>6
    <3>5. ASSUME NEW i \in Nodes, NEW j \in Nodes, NEW m \in Elements(wire'[i][j])
          PROVE  up[m.node]
      <4>1. m \in Elements(told) \/ m \in Elements(rest[i][j])
        BY <2>8
      <4>2. QED
        BY <3>2, <3>3, <3>4, <4>1
    <3>6. ASSUME NEW i \in Nodes, NEW j \in watched'[i]  PROVE up[j]
      <4>1. j \in watched[i] \/ j = k
        BY <2>12
      <4>2. QED
        BY <3>1, <4>1 DEF MembershipInv, Faultless
    <3>7. QED
      BY <1>1, <3>1, <3>5, <3>6 DEF MembershipInv, Faultless
  <2>16. Introduced'
    <3> SUFFICES ASSUME NoFault', NEW i \in Nodes, NEW j \in Nodes, NEW l \in Nodes,
                        j # l, Alive(i, j)', Alive(i, l)'
                 PROVE  \/ Alive(j, l)' \/ OnItsWay(i, l, j)'
                        \/ Alive(l, j)' \/ OnItsWay(i, j, l)'
      BY DEF Introduced
    <3>1. NoFault /\ k \notin broken[n]
      BY <1>1, <1>4 DEF NoFault, MembershipInv, Faultless
    <3>2. ASSUME NEW a \in Nodes, a # k, Alive(n, a)'
          PROVE  OnItsWay(n, a, k)'
      <4>1. a \in Others(n, k)
        BY <2>4, <3>2 DEF Others
      <4>2. PICK m \in Elements(told) : m.node = a
        BY <2>6, <4>1
      <4>3. m \in Elements(wire'[n][k])
        BY <1>4, <2>8, <3>1, <4>2
      <4>4. QED
        BY <1>4, <4>2, <4>3, OnItsWayIn
    <3>3. ASSUME NEW a \in Nodes, NEW b \in Nodes, OnItsWay(i, a, b)
          PROVE  OnItsWay(i, a, b)' \/ (b = n /\ a = k)
      <4>1. PICK m \in Elements(wire[i][b]) : m.node = a
        BY <3>3, OnItsWayIn
      <4>2. m \in Elements(rest[i][b]) \/ (b = n /\ m = node)
        BY <1>3, <1>6, <4>1
      <4>3. m \in Elements(wire'[i][b]) \/ (b = n /\ m = node)
        BY <2>8, <4>2
      <4>4. QED
        BY <1>4, <4>1, <4>3, OnItsWayIn
    <3>4. \A a, b \in Nodes : Alive(a, b) => Alive(a, b)'
      BY <2>4
    <3>5. CASE i = n /\ (j = k \/ l = k)
      BY <3>2, <3>5
    <3>6. CASE ~(i = n /\ (j = k \/ l = k))
      <4>1. Alive(i, j) /\ Alive(i, l)
        BY <2>4, <3>6
      <4>2. \/ Alive(j, l) \/ OnItsWay(i, l, j)
            \/ Alive(l, j) \/ OnItsWay(i, j, l)
        BY <3>1, <4>1 DEF MembershipInv, Introduced
      <4>3. QED
        BY <2>4, <3>3, <3>4, <4>2
    <3>7. QED
      BY <3>5, <3>6
  <2>17. QED
    BY <2>9, <2>10, <2>11, <2>13, <2>14, <2>15, <2>16 DEF MembershipInv
<1>9. QED
  BY <1>7, <1>8

\* A notice makes a member that was listed as alive dead.
LEMMA HandleTerminatedKeeps ==
    ASSUME MembershipInv, NEW n \in Nodes, NEW k \in Nodes, HandleTerminated(n, k)
    PROVE  MembershipInv'
<1>1. UNCHANGED <<up, member, announcements, watched, wire, broken, faults>>
  BY DEF HandleTerminated
<1>2. /\ \A i \in Nodes : terminated'[i] = IF i = n THEN terminated[i] \ {k} ELSE terminated[i]
      /\ terminated' \in [Nodes -> SUBSET Nodes]
  BY DEF HandleTerminated, MembershipInv, TypeOK
<1>3. k \in terminated[n] /\ k \notin watched[n] /\ Alive(n, k) /\ ~NoFault
  BY DEF HandleTerminated, MembershipInv, Watching, Faultless
<1>4. PICK e \in Entry : ~e.alive /\ e = [watchList[n][k] EXCEPT !.alive = FALSE]
  <2>1. watchList[n][k] \in Entry
    BY <1>3 DEF Alive, Knows, MembershipInv, TypeOK
  <2>2. QED
    BY <2>1 DEF Entry
<1>5. PICK list \in [Nodes -> Entry \cup {Unknown}] :
        /\ list = [watchList[n] EXCEPT ![k] = e]
        /\ watchList' = [watchList EXCEPT ![n] = list]
        /\ PublishTopologyChange(n, list)
  <2>1. [watchList[n] EXCEPT ![k] = e] \in [Nodes -> Entry \cup {Unknown}]
    BY DEF MembershipInv, TypeOK
  <2>2. [watchList[n] EXCEPT ![k] = e] = [watchList[n] EXCEPT ![k].alive = FALSE]
    BY <1>4
  <2>3. Knows(n, k)
    BY <1>3 DEF Alive
  <2>4. QED
    BY <2>1, <2>2, <2>3 DEF HandleTerminated
<1>6. /\ TopologyIsCurrent'
      /\ topology' \in [Nodes -> SUBSET Status]
      /\ watchList' \in [Nodes -> [Nodes -> Entry \cup {Unknown}]]
  BY <1>5, PublishedIsCurrent DEF MembershipInv
<1>7. /\ \A i, j \in Nodes : i # n \/ j # k => (Alive(i, j)' <=> Alive(i, j))
      /\ Alive(n, k)' <=> e.alive
      /\ \A i \in Nodes : Known(i)' = IF i = n THEN Known(i) \cup {k} ELSE Known(i)
  BY <1>5, OneEntry DEF MembershipInv
<1>8. \A i \in Nodes : Known(i)' = Known(i)
  BY <1>3, <1>7 DEF Known, Alive
<1>9. TypeOK'
  BY <1>1, <1>2, <1>6 DEF MembershipInv, TypeOK
<1>10. FiniteLists' /\ DownIsBlank'
  BY <1>1, <1>8 DEF MembershipInv, FiniteLists, DownIsBlank
<1>11. Watching'
  <2>1. /\ \A i, j \in Nodes : Alive(i, j) <=> j \in watched[i] \cup terminated[i]
        /\ \A i \in Nodes : watched[i] \cap terminated[i] = {}
        /\ watched' = watched
    BY <1>1 DEF MembershipInv, Watching
  <2>2. ASSUME NEW i \in Nodes, NEW j \in Nodes
        PROVE  Alive(i, j)' <=> j \in watched'[i] \cup terminated'[i]
    <3>1. CASE i = n /\ j = k
      BY <1>2, <1>3, <1>4, <1>7, <2>1, <3>1
    <3>2. CASE ~(i = n /\ j = k)
      <4>1. Alive(i, j)' <=> Alive(i, j)
        BY <1>7, <3>2
      <4>2. j \in terminated'[i] <=> j \in terminated[i]
        BY <1>2, <3>2
      <4>3. QED
        BY <2>1, <4>1, <4>2
    <3>3. QED
      BY <3>1, <3>2
  <2>3. \A i \in Nodes : watched'[i] \cap terminated'[i] = {}
    BY <1>2, <2>1
  <2>4. QED
    BY <2>2, <2>3 DEF Watching
<1>12. Faultless' /\ Introduced'
  BY <1>1, <1>3 DEF Faultless, Introduced, NoFault
<1>13. QED
  BY <1>6, <1>9, <1>10, <1>11, <1>12 DEF MembershipInv

\* Cleanup removes none that is alive.
LEMMA CleanupKeeps ==
    ASSUME MembershipInv, NEW n \in Nodes, Cleanup(n)
    PROVE  MembershipInv'
<1>1. UNCHANGED <<up, member, announcements, watched, terminated, wire, broken, faults>>
  BY DEF Cleanup
<1>2. PICK expired \in SUBSET Dead(n), list \in [Nodes -> Entry \cup {Unknown}] :
        /\ list = [k \in Nodes |-> IF k \in expired THEN Unknown ELSE watchList[n][k]]
        /\ watchList' = [watchList EXCEPT ![n] = list]
        /\ PublishTopologyChange(n, list)
  <2>1. ASSUME NEW expired \in SUBSET Dead(n)
        PROVE  [k \in Nodes |-> IF k \in expired THEN Unknown ELSE watchList[n][k]]
                  \in [Nodes -> Entry \cup {Unknown}]
    BY DEF MembershipInv, TypeOK
  <2>2. QED
    BY <2>1 DEF Cleanup
<1>3. /\ TopologyIsCurrent'
      /\ topology' \in [Nodes -> SUBSET Status]
      /\ watchList' \in [Nodes -> [Nodes -> Entry \cup {Unknown}]]
  BY <1>2, PublishedIsCurrent DEF MembershipInv
<1>4. \A i, k \in Nodes : watchList'[i][k] =
        IF i = n /\ k \in expired THEN Unknown ELSE watchList[i][k]
  BY <1>2 DEF MembershipInv, TypeOK
<1>5. \A i, k \in Nodes : Alive(i, k)' <=> Alive(i, k)
  <2>1. \A k \in expired : ~Alive(n, k)
    BY DEF Dead
  <2>2. QED
    BY <1>4, <2>1 DEF Alive, Knows
<1>6. \A i \in Nodes : Known(i)' \subseteq Known(i)
  BY <1>4 DEF Known, Knows
<1>7. TypeOK'
  BY <1>1, <1>3 DEF MembershipInv, TypeOK
<1>8. FiniteLists'
  BY <1>6, FS_Subset DEF MembershipInv, FiniteLists
<1>9. DownIsBlank'
  BY <1>1, <1>6 DEF MembershipInv, DownIsBlank
<1>10. Watching'
  BY <1>1, <1>5 DEF MembershipInv, Watching
<1>11. Faultless'
  BY <1>1 DEF MembershipInv, Faultless, NoFault
<1>12. Introduced'
  BY <1>1, <1>5, OnItsWayIn DEF MembershipInv, Introduced, NoFault
<1>13. QED
  BY <1>3, <1>7, <1>8, <1>9, <1>10, <1>11, <1>12 DEF MembershipInv

-----------------------------------------------------------------------------
(* The theorems.                                                           *)

LEMMA InitMembership == Init => MembershipInv
<1> SUFFICES ASSUME Init  PROVE MembershipInv
  OBVIOUS
<1>1. \A n \in Nodes : watchList[n] = NothingKnown /\ wire[n] = [k \in Nodes |-> <<>>]
  BY DEF Init
<1>2. \A n, k \in Nodes : ~Knows(n, k) /\ ~Alive(n, k) /\ wire[n][k] = <<>>
  BY <1>1 DEF Knows, Alive, NothingKnown
<1>3. \A n \in Nodes : Known(n) = {} /\ EventOf(watchList[n]) = {}
  BY <1>2 DEF Known, Knows, EventOf
<1>4. TypeOK
  <2>1. wire \in [Nodes -> [Nodes -> Seq(Node)]]
    BY EmptySeq DEF Init
  <2>2. watchList \in [Nodes -> [Nodes -> Entry \cup {Unknown}]]
    BY DEF Init, NothingKnown
  <2>3. QED
    BY <2>1, <2>2, MembershipAssumption DEF Init, TypeOK
<1>5. FiniteLists /\ DownIsBlank /\ TopologyIsCurrent
  BY <1>3, FS_EmptySet DEF Init, FiniteLists, DownIsBlank, TopologyIsCurrent
<1>6. Watching /\ Introduced
  BY <1>2 DEF Init, Watching, Introduced
<1>7. Faultless
  BY <1>2 DEF Init, Faultless, Elements
<1>8. QED
  BY <1>4, <1>5, <1>6, <1>7 DEF MembershipInv

LEMMA NextMembership == MembershipInv /\ [Next]_vars => MembershipInv'
<1> SUFFICES ASSUME MembershipInv, [Next]_vars  PROVE MembershipInv'
  OBVIOUS
<1>1. CASE UNCHANGED vars
  <2>1. UNCHANGED <<up, member, announcements, watchList, watched, terminated, topology, wire,
                    broken, faults>>
    BY <1>1 DEF vars
  <2>2. TypeOK' /\ FiniteLists' /\ Watching' /\ DownIsBlank' /\ TopologyIsCurrent'
    BY <2>1, ListsStay DEF MembershipInv, TypeOK, Watching, DownIsBlank, TopologyIsCurrent
  <2>3. Faultless' /\ Introduced'
    BY <2>1, ListsStay, OnItsWayIn DEF MembershipInv, Faultless, Introduced, NoFault
  <2>4. QED
    BY <2>2, <2>3 DEF MembershipInv
<1>2. CASE \E n \in Mortal : Crash(n)
  BY <1>2, CrashKeeps, MembershipAssumption
<1>3. CASE \E n \in Nodes : Start(n) \/ Announce(n) \/ Receive(n) \/ Cleanup(n)
  BY <1>3, StartKeeps, AnnounceKeeps, HandleNodeKeeps, HandleTerminatedKeeps, CleanupKeeps
     DEF Receive
<1>4. CASE \E n, k \in Nodes : EndpointTerminated(n, k) \/ Disconnect(n, k)
  BY <1>4, EndpointTerminatedKeeps, DisconnectKeeps
<1>5. QED
  BY <1>1, <1>2, <1>3, <1>4 DEF Next

\* The invariant behind the others: how a node's list, whom it watches and what is on the
\* wire depend on each other.
THEOREM MembershipInvariant == Spec => []MembershipInv
BY InitMembership, NextMembership, PTL DEF Spec

\* Every variable of the membership keeps its type.
THEOREM MembershipTypes == Spec => []TypeOK
<1>1. MembershipInv => TypeOK
  BY DEF MembershipInv
<1>2. QED
  BY <1>1, MembershipInvariant, PTL

\* Whoever is listed as alive is watched or its notice is to come, so that no death goes
\* unnoticed.
THEOREM TheLivingAreWatched == Spec => []AliveIsWatched
<1>1. MembershipInv => AliveIsWatched
  BY DEF MembershipInv, Watching, AliveIsWatched
<1>2. QED
  BY <1>1, MembershipInvariant, PTL

\* The last topology event says what the watch list says.
THEOREM TopologyIsPublished == Spec => []TopologyIsCurrent
<1>1. MembershipInv => TopologyIsCurrent
  BY DEF MembershipInv
<1>2. QED
  BY <1>1, MembershipInvariant, PTL

\* Without a fault, two members that a third knows get to know each other, one way.
THEOREM MembersAreIntroduced == Spec => []Introduced
<1>1. MembershipInv => Introduced
  BY DEF MembershipInv
<1>2. QED
  BY <1>1, MembershipInvariant, PTL
================================================================================
