----------------------- MODULE DistributedCacheProofs -----------------------
(***************************************************************************)
(* Proofs about DistributedCache, for all nodes, keys, values and Gets.    *)
(***************************************************************************)
EXTENDS DistributedCache, TLAPS

-----------------------------------------------------------------------------
(* The inductive invariant.                                                *)

\* What is published on a topic is what its observers expect: requests on the topic of
\* requests, entries on the three others.
QueuesAreTyped ==
    \A p, n \in Nodes, t \in Topics :
        link[p][n][t] \in IF t = "get" THEN Seq(Request) ELSE Seq(Entry)

\* A source in the dictionary is of a Get of that node and key which has added it, and
\* is not completed; one not added yet has no result either.
SourcesAreOpen ==
    /\ \A n \in Nodes, k \in Keys :
          LET s == sources[n][k]
          IN s # NoSource => /\ At[s] = n /\ KeyOf[s] = k
                             /\ pc[s] \notin {"idle", "look", "add"}
                             /\ result[s] = Pending
    /\ \A g \in Gets : pc[g] \in {"idle", "look", "add"} => result[g] = Pending

\* A Get that asks or waits has a source, of a Get of its own node and key.
SourcesAreShared ==
    \A g \in Gets :
        /\ pc[g] \in {"ask", "wait"} => source[g] # NoSource
        /\ source[g] # NoSource => SameKey(g, source[g])

\* What replicas hold of the key of a Get that began is noted.
HeldIsNoted ==
    /\ \A g \in alone : pc[g] # "idle"
    /\ \A g \in Gets, n \in Nodes : pc[g] # "idle" => memory[n][KeyOf[g]] \in heldSince[g]

\* An answer on its way to a Get that began alone is one of its own time.
AnswersAreFresh ==
    \A g \in alone, p \in Nodes : \A e \in Queue(link[p][At[g]]["self"]) :
        e.key = KeyOf[g] => e.value \in heldSince[g]

\* So is the result of the source that it waits for.
ResultsAreFresh ==
    \A g \in alone :
        pc[g] \in {"ask", "wait"} => result[source[g]] \in heldSince[g] \cup {Pending}

CacheInv ==
    /\ TypeOK
    /\ QueuesAreTyped
    /\ SourcesAreOpen
    /\ SourcesAreShared
    /\ HeldIsNoted
    /\ AnswersAreFresh
    /\ ResultsAreFresh
    /\ AloneIsFresh

-----------------------------------------------------------------------------
(* The queues.                                                             *)

\* What a queue holds once its head is taken, or a message is added.
LEMMA QueueTail ==
    ASSUME NEW T, NEW q \in Seq(T), q # <<>>
    PROVE  /\ Tail(q) \in Seq(T) /\ Head(q) \in T
           /\ Head(q) \in Queue(q) /\ Queue(Tail(q)) \subseteq Queue(q)
<1>1. Tail(q) \in Seq(T) /\ Head(q) \in T
  OBVIOUS
<1>2. 1 \in DOMAIN q /\ Head(q) = q[1]
  OBVIOUS
<1>3. \A i \in DOMAIN Tail(q) : i + 1 \in DOMAIN q /\ Tail(q)[i] = q[i + 1]
  OBVIOUS
<1>4. QED
  BY <1>1, <1>2, <1>3 DEF Queue

LEMMA QueueAppend ==
    ASSUME NEW T, NEW q \in Seq(T), NEW m \in T
    PROVE  /\ Append(q, m) \in Seq(T) /\ q \o <<m>> \in Seq(T)
           /\ \A e \in Queue(Append(q, m)) : e \in Queue(q) \/ e = m
           /\ \A e \in Queue(q \o <<m>>) : e \in Queue(q) \/ e = m
<1>1. \A i \in DOMAIN Append(q, m) :
          \/ i \in DOMAIN q /\ Append(q, m)[i] = q[i]
          \/ Append(q, m)[i] = m
  OBVIOUS
<1>2. \A i \in DOMAIN (q \o <<m>>) :
          \/ i \in DOMAIN q /\ (q \o <<m>>)[i] = q[i]
          \/ (q \o <<m>>)[i] = m
  OBVIOUS
<1>3. Append(q, m) \in Seq(T) /\ q \o <<m>> \in Seq(T)
  OBVIOUS
<1>4. QED
  BY <1>1, <1>2, <1>3 DEF Queue

LEMMA QueueType ==
    ASSUME NEW T, NEW q \in Seq(T), NEW e \in Queue(q)
    PROVE  e \in T
BY DEF Queue

\* The links of all nodes.
Links == [Nodes -> [Nodes -> [Topics -> Seq(Entry \cup Request)]]]

LEMMA LinksTyped ==
    ASSUME CacheInv
    PROVE  link \in Links
BY DEF CacheInv, TypeOK, Links

\* The cells of the links after a message was published on one topic.
LEMMA PublishedCells ==
    ASSUME link \in Links, NEW a \in Nodes, NEW c \in Topics, NEW m \in Entry \cup Request
    PROVE  /\ Published(a, c, m) \in Links
           /\ \A p, n \in Nodes, t \in Topics :
                 Published(a, c, m)[p][n][t] =
                     IF p = a /\ t = c THEN Append(link[p][n][t], m) ELSE link[p][n][t]
<1> DEFINE row == [n \in Nodes |-> [link[a][n] EXCEPT ![c] = Append(@, m)]]
<1>1. Published(a, c, m) = [link EXCEPT ![a] = row]
  BY DEF Published
<1>2. \A n \in Nodes : link[a][n] \in [Topics -> Seq(Entry \cup Request)]
  BY DEF Links
<1>3. \A n \in Nodes : Append(link[a][n][c], m) \in Seq(Entry \cup Request)
  <2> TAKE n \in Nodes
  <2>1. link[a][n][c] \in Seq(Entry \cup Request)
    BY <1>2
  <2>2. QED
    BY <2>1, QueueAppend
<1>4. row \in [Nodes -> [Topics -> Seq(Entry \cup Request)]]
  BY <1>2, <1>3
<1>5. \A n \in Nodes, t \in Topics :
          row[n][t] = IF t = c THEN Append(link[a][n][t], m) ELSE link[a][n][t]
  BY <1>2
<1> HIDE DEF row
<1>6. [link EXCEPT ![a] = row] \in Links
  BY <1>4 DEF Links
<1>7. \A p \in Nodes : [link EXCEPT ![a] = row][p] = IF p = a THEN row ELSE link[p]
  BY DEF Links
<1>8. QED
  BY <1>1, <1>5, <1>6, <1>7

\* The links of which one queue is set, and their cells.
WithQueue(f, a, b, c, q) == [f EXCEPT ![a][b][c] = q]

LEMMA CellSet ==
    ASSUME NEW f \in Links, NEW a \in Nodes, NEW b \in Nodes, NEW c \in Topics,
           NEW q \in Seq(Entry \cup Request)
    PROVE  /\ WithQueue(f, a, b, c, q) \in Links
           /\ \A p, n \in Nodes, t \in Topics :
                 WithQueue(f, a, b, c, q)[p][n][t] =
                     IF p = a /\ n = b /\ t = c THEN q ELSE f[p][n][t]
<1> DEFINE cell == [f[a][b] EXCEPT ![c] = q]
           row == [f[a] EXCEPT ![b] = cell]
<1>1. f[a] \in [Nodes -> [Topics -> Seq(Entry \cup Request)]]
  BY DEF Links
<1>2. f[a][b] \in [Topics -> Seq(Entry \cup Request)]
  BY <1>1
<1>3. /\ cell \in [Topics -> Seq(Entry \cup Request)]
      /\ \A t \in Topics : cell[t] = IF t = c THEN q ELSE f[a][b][t]
  BY <1>2
<1> HIDE DEF cell
<1>4. /\ row \in [Nodes -> [Topics -> Seq(Entry \cup Request)]]
      /\ \A n \in Nodes : row[n] = IF n = b THEN cell ELSE f[a][n]
  BY <1>1, <1>3
<1> HIDE DEF row
<1>5. /\ [f EXCEPT ![a] = row] \in Links
      /\ \A p \in Nodes : [f EXCEPT ![a] = row][p] = IF p = a THEN row ELSE f[p]
  BY <1>4 DEF Links
<1>6. WithQueue(f, a, b, c, q) = [f EXCEPT ![a] = row]
  BY DEF WithQueue, row, cell
<1>7. QED
  BY <1>3, <1>4, <1>5, <1>6

\* The cells of the links after an observer took a message.
LEMMA ConsumedCells ==
    ASSUME link \in Links, NEW a \in Nodes, NEW b \in Nodes, NEW c \in Topics,
           Arrives(a, b, c)
    PROVE  /\ Consumed(a, b, c) \in Links
           /\ \A p, n \in Nodes, t \in Topics :
                 Consumed(a, b, c)[p][n][t] =
                     IF p = a /\ n = b /\ t = c THEN Tail(link[p][n][t]) ELSE link[p][n][t]
<1>1. link[a][b][c] \in Seq(Entry \cup Request) /\ link[a][b][c] # <<>>
  BY DEF Links, Arrives
<1>2. Tail(link[a][b][c]) \in Seq(Entry \cup Request)
  BY <1>1
<1>3. Consumed(a, b, c) = WithQueue(link, a, b, c, Tail(link[a][b][c]))
  BY DEF Consumed, WithQueue
<1> DEFINE q == Tail(link[a][b][c])
<1>4. q \in Seq(Entry \cup Request)
  BY <1>2
<1> HIDE DEF q
<1>5. /\ WithQueue(link, a, b, c, q) \in Links
      /\ \A p, n \in Nodes, t \in Topics :
            WithQueue(link, a, b, c, q)[p][n][t] =
                IF p = a /\ n = b /\ t = c THEN q ELSE link[p][n][t]
  BY <1>4, CellSet
<1>6. QED
  BY <1>3, <1>5 DEF q

\* The queues stay typed, and the answers in them fresh, when a message that is no
\* answer is published...
LEMMA PublishingKeepsQueues ==
    ASSUME CacheInv, NEW a \in Nodes, NEW c \in Topics \ {"self"},
           NEW m \in IF c = "get" THEN Request ELSE Entry,
           link' = Published(a, c, m), alone' = alone, heldSince' = heldSince
    PROVE  link' \in Links /\ QueuesAreTyped' /\ AnswersAreFresh'
<1>1. /\ link' \in Links
      /\ \A p, n \in Nodes, t \in Topics :
            link'[p][n][t] = IF p = a /\ t = c THEN Append(link[p][n][t], m) ELSE link[p][n][t]
  BY LinksTyped, PublishedCells, m \in Entry \cup Request
<1>2. QueuesAreTyped'
  <2> SUFFICES ASSUME NEW p \in Nodes, NEW n \in Nodes, NEW t \in Topics
               PROVE  link'[p][n][t] \in IF t = "get" THEN Seq(Request) ELSE Seq(Entry)
    BY DEF QueuesAreTyped
  <2>1. link[p][n][t] \in IF t = "get" THEN Seq(Request) ELSE Seq(Entry)
    BY DEF CacheInv, QueuesAreTyped
  <2>2. CASE p = a /\ t = c
    <3>1. link'[p][n][t] = Append(link[p][n][t], m)
      BY <1>1, <2>2
    <3>2. CASE t = "get"
      BY <2>1, <2>2, <3>1, <3>2, QueueAppend
    <3>3. CASE t # "get"
      BY <2>1, <2>2, <3>1, <3>3, QueueAppend
    <3>4. QED
      BY <3>2, <3>3
  <2>3. QED
    BY <1>1, <2>1, <2>2
<1>3. \A p, n \in Nodes : link'[p][n]["self"] = link[p][n]["self"]
  BY <1>1 DEF Topics
<1>4. At \in [Gets -> Nodes] /\ alone \subseteq Gets
  BY CacheAssumption DEF CacheInv, TypeOK
<1>5. AnswersAreFresh'
  BY <1>3, <1>4 DEF CacheInv, AnswersAreFresh
<1>6. QED
  BY <1>1, <1>2, <1>5

\* ... and when an observer takes a message.
LEMMA ConsumingKeepsQueues ==
    ASSUME CacheInv, NEW a \in Nodes, NEW b \in Nodes, NEW c \in Topics, Arrives(a, b, c),
           link' = Consumed(a, b, c), alone' = alone,
           \A g \in alone : heldSince[g] \subseteq heldSince'[g]
    PROVE  link' \in Links /\ QueuesAreTyped' /\ AnswersAreFresh'
<1>1. /\ link' \in Links
      /\ \A p, n \in Nodes, t \in Topics :
            link'[p][n][t] = IF p = a /\ n = b /\ t = c THEN Tail(link[p][n][t])
                                                      ELSE link[p][n][t]
  BY LinksTyped, ConsumedCells
<1>2. link[a][b][c] # <<>>
  BY DEF Arrives
<1>3. \A p, n \in Nodes, t \in Topics :
          /\ link'[p][n][t] \in IF t = "get" THEN Seq(Request) ELSE Seq(Entry)
          /\ Queue(link'[p][n][t]) \subseteq Queue(link[p][n][t])
  <2> TAKE p, n \in Nodes, t \in Topics
  <2>1. link[p][n][t] \in IF t = "get" THEN Seq(Request) ELSE Seq(Entry)
    BY DEF CacheInv, QueuesAreTyped
  <2>2. CASE p = a /\ n = b /\ t = c
    BY <1>1, <1>2, <2>1, <2>2, QueueTail
  <2>3. QED
    BY <1>1, <2>1, <2>2
<1>4. QueuesAreTyped'
  BY <1>3 DEF QueuesAreTyped
<1>5. At \in [Gets -> Nodes] /\ alone \subseteq Gets /\ "self" \in Topics
  BY CacheAssumption DEF CacheInv, TypeOK, Topics
<1>6. AnswersAreFresh'
  <2> SUFFICES ASSUME NEW g \in alone, NEW p \in Nodes,
                      NEW e \in Queue(link'[p][At[g]]["self"]), e.key = KeyOf[g]
               PROVE  e.value \in heldSince'[g]
    BY DEF AnswersAreFresh
  <2>1. e \in Queue(link[p][At[g]]["self"])
    BY <1>3, <1>5
  <2>2. QED
    BY <2>1 DEF CacheInv, AnswersAreFresh
<1>7. QED
  BY <1>1, <1>4, <1>6

\* The message that an observer takes is of its topic.
LEMMA HeadTyped ==
    ASSUME CacheInv, NEW a \in Nodes, NEW b \in Nodes, NEW c \in Topics, Arrives(a, b, c)
    PROVE  /\ Head(link[a][b][c]) \in IF c = "get" THEN Request ELSE Entry
           /\ Head(link[a][b][c]) \in Queue(link[a][b][c])
<1>1. /\ link[a][b][c] \in IF c = "get" THEN Seq(Request) ELSE Seq(Entry)
      /\ link[a][b][c] # <<>>
  BY DEF CacheInv, QueuesAreTyped, Arrives
<1>2. QED
  BY <1>1, QueueTail

-----------------------------------------------------------------------------
(* What each step keeps.                                                   *)

\* The types of all but the links.
OthersTyped ==
    /\ memory \in [Nodes -> [Keys -> Held]]
    /\ sources \in [Nodes -> [Keys -> Gets \cup {NoSource}]]
    /\ result \in [Gets -> Held \cup {Pending}]
    /\ pc \in [Gets -> {"idle", "look", "add", "ask", "wait", "returned", "threw"}]
    /\ token \in [Gets -> CancellationToken]
    /\ source \in [Gets -> Gets \cup {NoSource}]
    /\ returned \in [Gets -> Held \cup {Pending}]
    /\ changes \in 0..MaxChanges
    /\ alone \subseteq Gets
    /\ heldSince \in [Gets -> SUBSET Held]

LEMMA Typed ==
    /\ TypeOK <=> OthersTyped /\ link \in Links
    /\ TypeOK' <=> OthersTyped' /\ (link' \in Links)
BY DEF TypeOK, OthersTyped, Links

\* What is not about the links: it stays when only they, and the counter, change.
LEMMA GetsStay ==
    ASSUME CacheInv, UNCHANGED <<memory, getVars, alone, heldSince>>
    PROVE  /\ SourcesAreOpen' /\ SourcesAreShared' /\ HeldIsNoted'
           /\ ResultsAreFresh' /\ AloneIsFresh'
BY DEF CacheInv, getVars, SourcesAreOpen, SourcesAreShared, SameKey, HeldIsNoted,
   ResultsAreFresh, AloneIsFresh

\* Set and Remove keep the invariant.
LEMMA ChangeKeeps ==
    ASSUME CacheInv, NEW n \in Nodes, NEW k \in Keys,
           Remove(n, k) \/ \E v \in Values : Set(n, k, v)
    PROVE  CacheInv'
<1>1. PICK c \in {"set", "remove"}, v \in Held :
          /\ link' = Published(n, c, [key |-> k, value |-> v])
          /\ changes < MaxChanges /\ changes' = changes + 1
          /\ UNCHANGED <<memory, getVars, alone, heldSince>>
  BY DEF Remove, Set, Held
<1>2. [key |-> k, value |-> v] \in Entry
  BY DEF Entry
<1>3. link' \in Links /\ QueuesAreTyped' /\ AnswersAreFresh'
  BY <1>1, <1>2, PublishingKeepsQueues DEF Topics
<1>4. OthersTyped'
  BY <1>1, Typed, CacheAssumption DEF CacheInv, OthersTyped, getVars
<1>5. QED
  BY <1>1, <1>3, <1>4, Typed, GetsStay DEF CacheInv

\* The observers of the set and the remove topic keep the invariant: what a replica
\* comes to hold is noted for all Gets of the key.
LEMMA ApplyKeeps ==
    ASSUME CacheInv, NEW p \in Nodes, NEW n \in Nodes, NEW c \in {"set", "remove"},
           Apply(p, n, c)
    PROVE  CacheInv'
<1> DEFINE e == Head(link[p][n][c])
<1>1. c \in Topics /\ Arrives(p, n, c) /\ e \in Entry
  BY HeadTyped DEF Topics, Apply
<1>2. e.key \in Keys /\ e.value \in Held
  BY <1>1 DEF Entry
<1>3. /\ memory' = [memory EXCEPT ![n][e.key] = e.value]
      /\ heldSince' = [g \in Gets |-> IF pc[g] # "idle" /\ KeyOf[g] = e.key
                                      THEN heldSince[g] \cup {e.value} ELSE heldSince[g]]
      /\ link' = Consumed(p, n, c)
      /\ UNCHANGED <<getVars, changes, alone>>
  BY DEF Apply
<1> HIDE DEF e
<1>4. OthersTyped
  BY Typed DEF CacheInv
<1>5. ASSUME NEW g \in Gets
      PROVE  /\ heldSince[g] \subseteq heldSince'[g]
             /\ heldSince'[g] \in SUBSET Held
             /\ pc[g] # "idle" /\ KeyOf[g] = e.key => e.value \in heldSince'[g]
  BY <1>2, <1>3, <1>4 DEF OthersTyped
<1>6. link' \in Links /\ QueuesAreTyped' /\ AnswersAreFresh'
  BY <1>1, <1>3, <1>4, <1>5, ConsumingKeepsQueues DEF OthersTyped
<1>7. /\ memory' \in [Nodes -> [Keys -> Held]]
      /\ \A m \in Nodes, k \in Keys :
            memory'[m][k] = IF m = n /\ k = e.key THEN e.value ELSE memory[m][k]
  BY <1>2, <1>3, <1>4 DEF OthersTyped
<1>8. OthersTyped'
  <2>1. heldSince' \in [Gets -> SUBSET Held]
    <3>1. heldSince' = [g \in Gets |-> heldSince'[g]]
      BY <1>3
    <3>2. QED
      BY <1>5, <3>1
  <2>2. QED
    BY <1>3, <1>4, <1>7, <2>1 DEF OthersTyped, getVars
<1>9. SourcesAreOpen' /\ SourcesAreShared'
  BY <1>3 DEF CacheInv, SourcesAreOpen, SourcesAreShared, SameKey, getVars
<1>10. HeldIsNoted'
  <2>1. \A g \in Gets, m \in Nodes : pc[g] # "idle" => memory'[m][KeyOf[g]] \in heldSince'[g]
    <3> SUFFICES ASSUME NEW g \in Gets, NEW m \in Nodes, pc[g] # "idle"
                 PROVE  memory'[m][KeyOf[g]] \in heldSince'[g]
      OBVIOUS
    <3>1. KeyOf[g] \in Keys /\ memory[m][KeyOf[g]] \in heldSince[g]
      BY CacheAssumption DEF CacheInv, HeldIsNoted
    <3>5. memory'[m][KeyOf[g]] = IF m = n /\ KeyOf[g] = e.key THEN e.value
                                                           ELSE memory[m][KeyOf[g]]
      BY <1>7, <3>1
    <3>6. /\ heldSince[g] \subseteq heldSince'[g]
          /\ KeyOf[g] = e.key => e.value \in heldSince'[g]
      BY <1>5
    <3>2. CASE m = n /\ KeyOf[g] = e.key
      BY <3>2, <3>5, <3>6
    <3>3. CASE ~(m = n /\ KeyOf[g] = e.key)
      BY <3>1, <3>3, <3>5, <3>6
    <3>4. QED
      BY <3>2, <3>3
  <2>2. QED
    BY <1>3, <2>1 DEF CacheInv, HeldIsNoted, getVars
<1>11. ResultsAreFresh' /\ AloneIsFresh'
  BY <1>3, <1>4, <1>5 DEF CacheInv, ResultsAreFresh, AloneIsFresh, getVars, OthersTyped
<1>12. QED
  BY <1>6, <1>8, <1>9, <1>10, <1>11, Typed DEF CacheInv

\* Begin keeps the invariant: a Get that is alone has no answer under way.
LEMMA BeginKeeps ==
    ASSUME CacheInv, NEW g \in Gets, Begin(g)
    PROVE  CacheInv'
<1> DEFINE now == {memory[n][KeyOf[g]] : n \in Nodes}
<1>1. /\ pc[g] = "idle" /\ pc' = [pc EXCEPT ![g] = "look"]
      /\ heldSince' = [heldSince EXCEPT ![g] = now]
      /\ alone' = IF UnderWay(At[g], KeyOf[g]) THEN alone ELSE alone \cup {g}
      /\ UNCHANGED <<memory, sources, result, source, returned, link, changes>>
  BY DEF Begin
<1>2. OthersTyped /\ link \in Links /\ KeyOf[g] \in Keys /\ At[g] \in Nodes
  BY Typed, CacheAssumption DEF CacheInv
<1>3. now \subseteq Held /\ \A n \in Nodes : memory[n][KeyOf[g]] \in now
  BY <1>2 DEF OthersTyped
<1> HIDE DEF now
<1>4. g \notin alone /\ alone' \subseteq alone \cup {g} /\ alone \subseteq Gets
  BY <1>1, <1>2 DEF CacheInv, HeldIsNoted, OthersTyped
<1>5. \A h \in Gets \ {g} : pc'[h] = pc[h] /\ heldSince'[h] = heldSince[h]
  BY <1>1, <1>2 DEF OthersTyped
<1>6. pc'[g] = "look" /\ heldSince'[g] = now
  BY <1>1, <1>2 DEF OthersTyped
<1>7. OthersTyped'
  <2>1. token' \in [Gets -> CancellationToken]
    BY <1>2, CacheAssumption DEF Begin, OthersTyped
  <2>2. QED
    BY <1>1, <1>2, <1>3, <1>4, <2>1 DEF OthersTyped
<1>8. QueuesAreTyped'
  BY <1>1 DEF CacheInv, QueuesAreTyped
<1>9. SourcesAreOpen'
  <2>1. \A n \in Nodes, k \in Keys : sources[n][k] \in Gets \cup {NoSource}
    BY <1>2 DEF OthersTyped
  <2>2. QED
    BY <1>1, <1>5, <1>6, <2>1 DEF CacheInv, SourcesAreOpen
<1>10. SourcesAreShared'
  BY <1>1, <1>5, <1>6 DEF CacheInv, SourcesAreShared, SameKey
<1>11. HeldIsNoted'
  BY <1>1, <1>3, <1>4, <1>5, <1>6 DEF CacheInv, HeldIsNoted
<1>12. AnswersAreFresh'
  <2> SUFFICES ASSUME NEW h \in alone', NEW p \in Nodes,
                      NEW e \in Queue(link[p][At[h]]["self"]), e.key = KeyOf[h]
               PROVE  e.value \in heldSince'[h]
    BY <1>1 DEF AnswersAreFresh
  <2>1. h # g
    BY <1>1, <1>4 DEF UnderWay
  <2>2. QED
    BY <1>4, <1>5, <2>1 DEF CacheInv, AnswersAreFresh
<1>13. ResultsAreFresh' /\ AloneIsFresh'
  BY <1>1, <1>4, <1>5, <1>6 DEF CacheInv, ResultsAreFresh, AloneIsFresh
<1>14. QED
  BY <1>1, <1>2, <1>7, <1>8, <1>9, <1>10, <1>11, <1>12, <1>13, Typed DEF CacheInv

\* What is not about the Gets: it stays when only they change.
LEMMA QueuesStay ==
    ASSUME CacheInv, UNCHANGED <<memory, link, alone, heldSince>>
    PROVE  QueuesAreTyped' /\ AnswersAreFresh'
BY DEF CacheInv, QueuesAreTyped, AnswersAreFresh

\* Look keeps the invariant: the source found is open.
LEMMA LookKeeps ==
    ASSUME CacheInv, NEW g \in Gets, Look(g)
    PROVE  CacheInv'
<1> DEFINE found == sources[At[g]][KeyOf[g]]
<1>1. /\ pc[g] = "look"
      /\ \/ found = NoSource /\ pc' = [pc EXCEPT ![g] = "add"] /\ source' = source
         \/ /\ found # NoSource /\ pc' = [pc EXCEPT ![g] = "ask"]
            /\ source' = [source EXCEPT ![g] = found]
      /\ UNCHANGED <<memory, sources, result, token, returned, link, changes, alone,
                     heldSince>>
  BY DEF Look
<1>2. OthersTyped /\ link \in Links /\ KeyOf[g] \in Keys /\ At[g] \in Nodes
  BY Typed, CacheAssumption DEF CacheInv
<1>3. /\ found \in Gets \cup {NoSource}
      /\ found # NoSource => At[found] = At[g] /\ KeyOf[found] = KeyOf[g]
                             /\ result[found] = Pending
  BY <1>2 DEF CacheInv, OthersTyped, SourcesAreOpen
<1> HIDE DEF found
<1>4. \A h \in Gets \ {g} : pc'[h] = pc[h] /\ source'[h] = source[h]
  BY <1>1, <1>2 DEF OthersTyped
<1>5. \/ found = NoSource /\ pc'[g] = "add" /\ source'[g] = source[g]
      \/ found # NoSource /\ pc'[g] = "ask" /\ source'[g] = found
  BY <1>1, <1>2 DEF OthersTyped
<1>6. OthersTyped'
  <2>1. source' \in [Gets -> Gets \cup {NoSource}]
    BY <1>1, <1>2, <1>3 DEF OthersTyped
  <2>2. pc' \in [Gets -> {"idle", "look", "add", "ask", "wait", "returned", "threw"}]
    BY <1>1, <1>2 DEF OthersTyped
  <2>3. QED
    BY <1>1, <1>2, <2>1, <2>2 DEF OthersTyped
<1>7. SourcesAreOpen'
  <2>1. \A n \in Nodes, k \in Keys : sources[n][k] \in Gets \cup {NoSource}
    BY <1>2 DEF OthersTyped
  <2>2. \A n \in Nodes, k \in Keys : sources[n][k] # g
    BY <1>1, CacheAssumption DEF CacheInv, SourcesAreOpen
  <2>3. QED
    BY <1>1, <1>4, <1>5, <2>1, <2>2 DEF CacheInv, SourcesAreOpen
<1>8. SourcesAreShared'
  BY <1>3, <1>4, <1>5 DEF CacheInv, SourcesAreShared, SameKey
<1>9. HeldIsNoted' /\ AloneIsFresh'
  BY <1>1, <1>2, <1>4, <1>5 DEF CacheInv, HeldIsNoted, AloneIsFresh, OthersTyped
<1>10. ResultsAreFresh'
  BY <1>1, <1>2, <1>3, <1>4, <1>5 DEF CacheInv, ResultsAreFresh, OthersTyped
<1>11. QED
  BY <1>1, <1>2, <1>6, <1>7, <1>8, <1>9, <1>10, QueuesStay, Typed DEF CacheInv

\* Add keeps the invariant: the source added has no result yet, and no other is lost.
LEMMA AddKeeps ==
    ASSUME CacheInv, NEW g \in Gets, Add(g)
    PROVE  CacheInv'
<1>1. /\ pc[g] = "add"
      /\ \/ /\ sources' = [sources EXCEPT ![At[g]][KeyOf[g]] = g]
            /\ source' = [source EXCEPT ![g] = g]
            /\ pc' = [pc EXCEPT ![g] = "ask"]
         \/ pc' = [pc EXCEPT ![g] = "look"] /\ sources' = sources /\ source' = source
      /\ UNCHANGED <<memory, result, token, returned, link, changes, alone, heldSince>>
  BY DEF Add
<1>2. OthersTyped /\ link \in Links /\ KeyOf[g] \in Keys /\ At[g] \in Nodes
      /\ g # NoSource
  BY Typed, CacheAssumption DEF CacheInv
<1>3. result[g] = Pending
  BY <1>1 DEF CacheInv, SourcesAreOpen
<1>4. \A n \in Nodes, k \in Keys : sources[n][k] # g /\ sources[n][k] \in Gets \cup {NoSource}
  BY <1>1, <1>2 DEF CacheInv, SourcesAreOpen, OthersTyped
<1>5. \A h \in Gets \ {g} : pc'[h] = pc[h] /\ source'[h] = source[h]
  BY <1>1, <1>2 DEF OthersTyped
<1>6. \/ pc'[g] = "look" /\ source'[g] = source[g]
      \/ pc'[g] = "ask" /\ source'[g] = g
  BY <1>1, <1>2 DEF OthersTyped
<1>7. /\ sources' \in [Nodes -> [Keys -> Gets \cup {NoSource}]]
      /\ \A n \in Nodes, k \in Keys :
            \/ sources'[n][k] = sources[n][k]
            \/ n = At[g] /\ k = KeyOf[g] /\ sources'[n][k] = g /\ pc'[g] = "ask"
  <2>1. CASE sources' = sources
    BY <1>2, <2>1 DEF OthersTyped
  <2>2. CASE sources' = [sources EXCEPT ![At[g]][KeyOf[g]] = g] /\ pc'[g] = "ask"
    BY <1>2, <2>2 DEF OthersTyped
  <2>3. QED
    BY <1>1, <1>2, <2>1, <2>2 DEF OthersTyped
<1>8. OthersTyped'
  <2>1. source' \in [Gets -> Gets \cup {NoSource}]
    BY <1>1, <1>2 DEF OthersTyped
  <2>2. pc' \in [Gets -> {"idle", "look", "add", "ask", "wait", "returned", "threw"}]
    BY <1>1, <1>2 DEF OthersTyped
  <2>3. QED
    BY <1>1, <1>2, <1>7, <2>1, <2>2 DEF OthersTyped
<1>9. SourcesAreOpen'
  <2>1. ASSUME NEW n \in Nodes, NEW k \in Keys, sources'[n][k] # NoSource
        PROVE  /\ At[sources'[n][k]] = n /\ KeyOf[sources'[n][k]] = k
               /\ pc'[sources'[n][k]] \notin {"idle", "look", "add"}
               /\ result[sources'[n][k]] = Pending
    <3>1. CASE sources'[n][k] = sources[n][k]
      BY <1>4, <1>5, <2>1, <3>1 DEF CacheInv, SourcesAreOpen
    <3>2. CASE n = At[g] /\ k = KeyOf[g] /\ sources'[n][k] = g /\ pc'[g] = "ask"
      BY <1>3, <3>2
    <3>3. QED
      BY <1>7, <3>1, <3>2
  <2>2. \A h \in Gets : pc'[h] \in {"idle", "look", "add"} => result[h] = Pending
    BY <1>3, <1>5 DEF CacheInv, SourcesAreOpen
  <2>3. QED
    BY <1>1, <2>1, <2>2 DEF SourcesAreOpen
<1>10. SourcesAreShared'
  BY <1>1, <1>2, <1>5, <1>6 DEF CacheInv, SourcesAreShared, SameKey
<1>11. HeldIsNoted' /\ AloneIsFresh'
  BY <1>1, <1>2, <1>5, <1>6 DEF CacheInv, HeldIsNoted, AloneIsFresh, OthersTyped
<1>12. ResultsAreFresh'
  BY <1>1, <1>2, <1>3, <1>5, <1>6 DEF CacheInv, ResultsAreFresh, OthersTyped
<1>13. QED
  BY <1>1, <1>2, <1>8, <1>9, <1>10, <1>11, <1>12, QueuesStay, Typed DEF CacheInv

\* Ask keeps the invariant.
LEMMA AskKeeps ==
    ASSUME CacheInv, NEW g \in Gets, Ask(g)
    PROVE  CacheInv'
<1>1. /\ pc[g] = "ask"
      /\ link' = Published(At[g], "get", [key |-> KeyOf[g], from |-> At[g]])
      /\ pc' = [pc EXCEPT ![g] = IF token[g] = "live" THEN "threw" ELSE "wait"]
      /\ UNCHANGED <<memory, sources, result, token, source, returned, changes, alone,
                     heldSince>>
  BY DEF Ask
<1>2. OthersTyped /\ KeyOf[g] \in Keys /\ At[g] \in Nodes
  BY Typed, CacheAssumption DEF CacheInv
<1>3. [key |-> KeyOf[g], from |-> At[g]] \in Request
  BY <1>2 DEF Request
<1>4. link' \in Links /\ QueuesAreTyped' /\ AnswersAreFresh'
  BY <1>1, <1>2, <1>3, PublishingKeepsQueues DEF Topics
<1>5. pc'[g] \in {"threw", "wait"} /\ \A h \in Gets \ {g} : pc'[h] = pc[h]
  BY <1>1, <1>2 DEF OthersTyped
<1>6. OthersTyped'
  BY <1>1, <1>2 DEF OthersTyped
<1>7. SourcesAreOpen'
  <2>1. \A n \in Nodes, k \in Keys : sources[n][k] \in Gets \cup {NoSource}
    BY <1>2 DEF OthersTyped
  <2>2. QED
    BY <1>1, <1>5, <2>1 DEF CacheInv, SourcesAreOpen
<1>8. SourcesAreShared'
  BY <1>1, <1>5 DEF CacheInv, SourcesAreShared, SameKey
<1>9. HeldIsNoted' /\ AloneIsFresh' /\ ResultsAreFresh'
  BY <1>1, <1>2, <1>5 DEF CacheInv, HeldIsNoted, AloneIsFresh, ResultsAreFresh, OthersTyped
<1>10. QED
  BY <1>4, <1>6, <1>7, <1>8, <1>9, Typed DEF CacheInv

\* The observer of the get topic keeps the invariant: it answers with what its replica
\* holds now.
LEMMA HandleGetKeeps ==
    ASSUME CacheInv, NEW p \in Nodes, NEW n \in Nodes, HandleGet(p, n)
    PROVE  CacheInv'
<1>1. PICK r \in Request :
          /\ link' = [Consumed(p, n, "get") EXCEPT ![n][r.from]["self"] =
                          Consumed(p, n, "get")[n][r.from]["self"] \o Answer(n, r.key)]
          /\ Arrives(p, n, "get")
          /\ UNCHANGED <<memory, getVars, changes, alone, heldSince>>
  BY HeadTyped DEF HandleGet, Topics
<1>2. OthersTyped /\ link \in Links /\ r.key \in Keys /\ r.from \in Nodes
  BY Typed DEF CacheInv, Request
<1> DEFINE rest == Consumed(p, n, "get")
           e == [key |-> r.key, value |-> memory[n][r.key]]
           to == r.from
           q == link[n][to]["self"]
<1>3. /\ rest \in Links
      /\ \A a, b \in Nodes, t \in Topics :
            rest[a][b][t] = IF a = p /\ b = n /\ t = "get" THEN Tail(link[a][b][t])
                                                        ELSE link[a][b][t]
  BY <1>1, <1>2, ConsumedCells DEF Topics
<1>4. e \in Entry /\ e.key = r.key /\ e.value = memory[n][r.key]
  BY <1>2 DEF OthersTyped, Entry
<1>5. q \in Seq(Entry) /\ rest[n][to]["self"] = q
  BY <1>2, <1>3 DEF CacheInv, QueuesAreTyped, Topics
<1>6. link' = [rest EXCEPT ![n][to]["self"] = q \o <<e>>]
  BY <1>1, <1>5 DEF Answer
<1> HIDE DEF rest, e, q, to
<1> DEFINE more == q \o <<e>>
<1>7. /\ more \in Seq(Entry) /\ more \in Seq(Entry \cup Request)
      /\ \A x \in Queue(more) : x \in Queue(q) \/ x = e
  <2>1. more \in Seq(Entry) /\ \A x \in Queue(more) : x \in Queue(q) \/ x = e
    BY <1>4, <1>5, QueueAppend
  <2>2. QED
    BY <2>1
<1>8. link' = WithQueue(rest, n, to, "self", more)
  BY <1>6 DEF WithQueue
<1> HIDE DEF more
<1> DEFINE new == WithQueue(rest, n, to, "self", more)
<1>9. /\ new \in Links
      /\ \A a, b \in Nodes, t \in Topics :
            new[a][b][t] = IF a = n /\ b = to /\ t = "self" THEN more ELSE rest[a][b][t]
  <2>1. "self" \in Topics /\ to \in Nodes /\ rest \in Links
    BY <1>2, <1>3 DEF Topics, to
  <2>2. more \in Seq(Entry \cup Request)
    BY <1>7
  <2>3. QED
    BY <2>1, <2>2, CellSet
<1>10. link' = new
  BY <1>8
<1> HIDE DEF new
<1>11. QueuesAreTyped'
  <2> SUFFICES ASSUME NEW a \in Nodes, NEW b \in Nodes, NEW t \in Topics
               PROVE  new[a][b][t] \in IF t = "get" THEN Seq(Request) ELSE Seq(Entry)
    BY <1>10 DEF QueuesAreTyped
  <2>1. link[a][b][t] \in IF t = "get" THEN Seq(Request) ELSE Seq(Entry)
    BY DEF CacheInv, QueuesAreTyped
  <2>2. CASE a = n /\ b = to /\ t = "self"
    BY <1>7, <1>9, <2>2
  <2>3. CASE a = p /\ b = n /\ t = "get"
    <3>1. new[a][b][t] = Tail(link[a][b][t]) /\ link[a][b][t] # <<>>
      BY <1>1, <1>3, <1>9, <2>3 DEF Arrives
    <3>2. QED
      BY <2>1, <2>3, <3>1, QueueTail
  <2>4. QED
    BY <1>3, <1>9, <2>1, <2>2, <2>3
<1>12. AnswersAreFresh'
  <2> SUFFICES ASSUME NEW g \in alone, NEW a \in Nodes,
                      NEW x \in Queue(new[a][At[g]]["self"]), x.key = KeyOf[g]
               PROVE  x.value \in heldSince[g]
    BY <1>1, <1>10 DEF AnswersAreFresh
  <2>1. g \in Gets /\ At[g] \in Nodes /\ "self" \in Topics /\ pc[g] # "idle"
    BY <1>2, CacheAssumption DEF OthersTyped, Topics, CacheInv, HeldIsNoted
  <2>2. CASE a = n /\ At[g] = to /\ x = e
    <3>1. memory[n][KeyOf[g]] \in heldSince[g]
      BY <2>1 DEF CacheInv, HeldIsNoted
    <3>2. QED
      BY <1>4, <2>2, <3>1
  <2>3. CASE x \in Queue(link[a][At[g]]["self"])
    BY <2>3 DEF CacheInv, AnswersAreFresh
  <2>4. QED
    <3>1. CASE a = n /\ At[g] = to
      BY <1>7, <1>9, <2>1, <2>2, <2>3, <3>1 DEF q
    <3>2. CASE ~(a = n /\ At[g] = to)
      BY <1>3, <1>9, <2>1, <2>3, <3>2
    <3>3. QED
      BY <3>1, <3>2
<1>13. OthersTyped'
  BY <1>1, <1>2 DEF OthersTyped, getVars
<1>14. QED
  BY <1>1, <1>9, <1>10, <1>11, <1>12, <1>13, Typed, GetsStay DEF CacheInv

\* The observer of the own topic keeps the invariant: the source completed is taken
\* out, and those that wait for it began, if alone, before the answer.
LEMMA HandleSelfKeeps ==
    ASSUME CacheInv, NEW p \in Nodes, NEW n \in Nodes, HandleSelf(p, n)
    PROVE  CacheInv'
<1> DEFINE e == Head(link[p][n]["self"])
           s == sources[n][e.key]
<1>1. "self" \in Topics /\ Arrives(p, n, "self")
  BY DEF Topics, HandleSelf
<1>2. e \in Entry /\ e \in Queue(link[p][n]["self"]) /\ e.key \in Keys /\ e.value \in Held
  BY <1>1, HeadTyped DEF Entry
<1>3. /\ link' = Consumed(p, n, "self")
      /\ \/ s = NoSource /\ UNCHANGED <<sources, result>>
         \/ /\ s # NoSource
            /\ sources' = [sources EXCEPT ![n][e.key] = NoSource]
            /\ result' = IF result[s] = Pending THEN [result EXCEPT ![s] = e.value]
                                                ELSE result
      /\ UNCHANGED <<memory, pc, token, source, returned, changes, alone, heldSince>>
  BY DEF HandleSelf, Taken
<1>4. OthersTyped
  BY Typed DEF CacheInv
<1>5. s \in Gets \cup {NoSource}
  BY <1>2, <1>4 DEF OthersTyped
<1>7. \A g \in alone : At[g] = n /\ KeyOf[g] = e.key => e.value \in heldSince[g]
  BY <1>2 DEF CacheInv, AnswersAreFresh
<1> HIDE DEF e
<1>6. s # NoSource => /\ At[s] = n /\ KeyOf[s] = e.key /\ result[s] = Pending
                      /\ pc[s] \notin {"idle", "look", "add"}
  BY <1>2 DEF CacheInv, SourcesAreOpen
<1> HIDE DEF s
<1>8. link' \in Links /\ QueuesAreTyped' /\ AnswersAreFresh'
  BY <1>1, <1>3, ConsumingKeepsQueues
<1>9. CASE s = NoSource
  BY <1>3, <1>4, <1>8, <1>9, Typed, GetsStay DEF CacheInv, OthersTyped, getVars
<1>10. CASE s # NoSource
  <2>1. sources' = [sources EXCEPT ![n][e.key] = NoSource] /\ result' = [result EXCEPT ![s] = e.value]
    BY <1>3, <1>6, <1>10
  <2>2. /\ sources' \in [Nodes -> [Keys -> Gets \cup {NoSource}]]
        /\ \A m \in Nodes, k \in Keys :
              sources'[m][k] = IF m = n /\ k = e.key THEN NoSource ELSE sources[m][k]
    BY <1>2, <1>4, <2>1 DEF OthersTyped
  <2>3. /\ result' \in [Gets -> Held \cup {Pending}]
        /\ \A g \in Gets : result'[g] = IF g = s THEN e.value ELSE result[g]
    BY <1>2, <1>4, <2>1 DEF OthersTyped
  <2>4. OthersTyped'
    BY <1>3, <1>4, <2>2, <2>3 DEF OthersTyped
  <2>5. SourcesAreOpen'
    <3>1. ASSUME NEW m \in Nodes, NEW k \in Keys, sources'[m][k] # NoSource
          PROVE  /\ At[sources'[m][k]] = m /\ KeyOf[sources'[m][k]] = k
                 /\ pc[sources'[m][k]] \notin {"idle", "look", "add"}
                 /\ result'[sources'[m][k]] = Pending
      <4>1. sources'[m][k] = sources[m][k] /\ ~(m = n /\ k = e.key)
        BY <2>2, <3>1
      <4>2. /\ At[sources[m][k]] = m /\ KeyOf[sources[m][k]] = k
            /\ pc[sources[m][k]] \notin {"idle", "look", "add"}
            /\ result[sources[m][k]] = Pending
        BY <3>1, <4>1 DEF CacheInv, SourcesAreOpen
      <4>3. sources[m][k] \in Gets
        BY <1>4, <3>1, <4>1 DEF OthersTyped
      <4>4. sources[m][k] # s
        BY <1>6, <1>10, <4>1, <4>2
      <4>5. QED
        BY <2>3, <4>1, <4>2, <4>3, <4>4
    <3>2. \A g \in Gets : pc[g] \in {"idle", "look", "add"} => result'[g] = Pending
      BY <1>6, <1>10, <2>3 DEF CacheInv, SourcesAreOpen
    <3>3. QED
      BY <1>3, <3>1, <3>2 DEF SourcesAreOpen
  <2>6. SourcesAreShared' /\ HeldIsNoted' /\ AloneIsFresh'
    BY <1>3 DEF CacheInv, SourcesAreShared, SameKey, HeldIsNoted, AloneIsFresh
  <2>7. ResultsAreFresh'
    <3> SUFFICES ASSUME NEW g \in alone, pc[g] \in {"ask", "wait"}
                 PROVE  result'[source[g]] \in heldSince[g] \cup {Pending}
      BY <1>3 DEF ResultsAreFresh
    <3>1. g \in Gets /\ source[g] \in Gets /\ SameKey(g, source[g])
      BY <1>4 DEF CacheInv, SourcesAreShared, OthersTyped
    <3>2. CASE source[g] = s
      BY <1>6, <1>7, <1>10, <2>3, <3>1, <3>2 DEF SameKey
    <3>3. CASE source[g] # s
      BY <2>3, <3>1, <3>3 DEF CacheInv, ResultsAreFresh
    <3>4. QED
      BY <3>2, <3>3
  <2>8. QED
    BY <1>8, <2>4, <2>5, <2>6, <2>7, Typed DEF CacheInv
<1>11. QED
  BY <1>9, <1>10

\* Resume keeps the invariant: what it returns is the result of its source.
LEMMA ResumeKeeps ==
    ASSUME CacheInv, NEW g \in Gets, Resume(g)
    PROVE  CacheInv'
<1>1. /\ pc[g] = "wait"
      /\ sources' = [sources EXCEPT ![At[g]][KeyOf[g]] = NoSource]
      /\ \/ pc' = [pc EXCEPT ![g] = "threw"] /\ returned' = returned
         \/ /\ result[source[g]] # Pending
            /\ pc' = [pc EXCEPT ![g] = "returned"]
            /\ returned' = [returned EXCEPT ![g] = result[source[g]]]
      /\ UNCHANGED <<memory, result, token, source, link, changes, alone, heldSince>>
  BY DEF Resume
<1>2. OthersTyped /\ link \in Links /\ KeyOf[g] \in Keys /\ At[g] \in Nodes
  BY Typed, CacheAssumption DEF CacheInv
<1>3. /\ sources' \in [Nodes -> [Keys -> Gets \cup {NoSource}]]
      /\ \A n \in Nodes, k \in Keys : sources'[n][k] \in {sources[n][k], NoSource}
  BY <1>1, <1>2 DEF OthersTyped
<1>4. source[g] \in Gets /\ result[source[g]] \in Held \cup {Pending}
  BY <1>1, <1>2 DEF CacheInv, SourcesAreShared, OthersTyped
<1>5. \A h \in Gets \ {g} : pc'[h] = pc[h] /\ returned'[h] = returned[h]
  BY <1>1, <1>2 DEF OthersTyped
<1>6. \/ pc'[g] = "threw" /\ returned'[g] = returned[g]
      \/ /\ result[source[g]] # Pending /\ pc'[g] = "returned"
         /\ returned'[g] = result[source[g]]
  BY <1>1, <1>2 DEF OthersTyped
<1>7. OthersTyped'
  <2>1. returned' \in [Gets -> Held \cup {Pending}]
    BY <1>1, <1>2, <1>4 DEF OthersTyped
  <2>2. pc' \in [Gets -> {"idle", "look", "add", "ask", "wait", "returned", "threw"}]
    BY <1>1, <1>2 DEF OthersTyped
  <2>3. QED
    BY <1>1, <1>2, <1>3, <2>1, <2>2 DEF OthersTyped
<1>8. SourcesAreOpen'
  <2>1. ASSUME NEW n \in Nodes, NEW k \in Keys, sources'[n][k] # NoSource
        PROVE  /\ At[sources'[n][k]] = n /\ KeyOf[sources'[n][k]] = k
               /\ pc'[sources'[n][k]] \notin {"idle", "look", "add"}
               /\ result[sources'[n][k]] = Pending
    <3>1. sources'[n][k] = sources[n][k] /\ sources[n][k] \in Gets
      BY <1>2, <1>3, <2>1 DEF OthersTyped
    <3>2. QED
      BY <1>5, <1>6, <2>1, <3>1 DEF CacheInv, SourcesAreOpen
  <2>2. \A h \in Gets : pc'[h] \in {"idle", "look", "add"} => result[h] = Pending
    BY <1>5, <1>6 DEF CacheInv, SourcesAreOpen
  <2>3. QED
    BY <1>1, <2>1, <2>2 DEF SourcesAreOpen
<1>9. SourcesAreShared'
  BY <1>1, <1>5, <1>6 DEF CacheInv, SourcesAreShared, SameKey
<1>10. HeldIsNoted' /\ ResultsAreFresh'
  BY <1>1, <1>2, <1>5, <1>6 DEF CacheInv, HeldIsNoted, ResultsAreFresh, OthersTyped
<1>11. AloneIsFresh'
  <2>1. g \in alone => result[source[g]] \in heldSince[g] \cup {Pending}
    BY <1>1 DEF CacheInv, ResultsAreFresh
  <2>2. QED
    BY <1>1, <1>2, <1>5, <1>6, <2>1 DEF CacheInv, AloneIsFresh, OthersTyped
<1>12. QED
  BY <1>1, <1>2, <1>7, <1>8, <1>9, <1>10, <1>11, QueuesStay, Typed DEF CacheInv

-----------------------------------------------------------------------------
(* The theorems.                                                           *)

\* What starts is in order: nothing is held, asked for or under way.
LEMMA InitKeeps ==
    ASSUME Init
    PROVE  CacheInv
<1>1. TypeOK
  BY CacheAssumption DEF Init, TypeOK, Held, CancellationToken
<1>2. QueuesAreTyped
  BY DEF Init, QueuesAreTyped
<1>3. SourcesAreOpen /\ SourcesAreShared /\ HeldIsNoted
  BY CacheAssumption DEF Init, SourcesAreOpen, SourcesAreShared, HeldIsNoted
<1>4. AnswersAreFresh /\ ResultsAreFresh /\ AloneIsFresh
  BY DEF Init, AnswersAreFresh, ResultsAreFresh, AloneIsFresh
<1>5. QED
  BY <1>1, <1>2, <1>3, <1>4 DEF CacheInv

LEMMA StepKeeps ==
    ASSUME CacheInv, [Next]_vars
    PROVE  CacheInv'
<1>1. ASSUME NEW n \in Changers, NEW k \in Keys, Remove(n, k) \/ \E v \in Values : Set(n, k, v)
      PROVE  CacheInv'
  BY <1>1, ChangeKeeps, CacheAssumption
<1>2. ASSUME NEW g \in Gets, Begin(g) \/ GetStep(g)
      PROVE  CacheInv'
  BY <1>2, BeginKeeps, LookKeeps, AddKeeps, AskKeeps, ResumeKeeps DEF GetStep
<1>3. ASSUME NEW p \in Nodes, NEW n \in Nodes, Observers(p, n)
      PROVE  CacheInv'
  BY <1>3, ApplyKeeps, HandleGetKeeps, HandleSelfKeeps DEF Observers
<1>4. CASE UNCHANGED vars
  <2>1. link' \in Links /\ OthersTyped'
    BY <1>4, Typed DEF CacheInv, OthersTyped, vars, getVars
  <2>2. QueuesAreTyped' /\ AnswersAreFresh'
    BY <1>4, QueuesStay DEF vars
  <2>3. QED
    BY <1>4, <2>1, <2>2, Typed, GetsStay DEF CacheInv, vars
<1>5. QED
  BY <1>1, <1>2, <1>3, <1>4 DEF Next

\* In every behaviour the queues hold what their observers expect, sources in the
\* dictionaries are open, and what a Get that began alone can still be answered with is
\* what a replica held since (PublishSubscribeDistributedCache).
THEOREM CacheInvariant == Spec => []CacheInv
<1>1. QED
  BY InitKeeps, StepKeeps, PTL DEF Spec

\* Every variable keeps its type.
THEOREM CacheTypes == Spec => []TypeOK
<1>1. CacheInv => TypeOK
  BY DEF CacheInv
<1>2. QED
  BY <1>1, CacheInvariant, PTL

\* A Get that began when no request of its node for the key was under way returns what
\* a replica held at some time since: no answer from before, nor of another node's Get,
\* is taken for its own.
THEOREM AloneGetsAreFresh == Spec => []AloneIsFresh
<1>1. CacheInv => AloneIsFresh
  BY DEF CacheInv
<1>2. QED
  BY <1>1, CacheInvariant, PTL

\* One step makes a Get abandoned only if another Get of the key removes its source.
CleanupOnly(g) ==
    ~Abandoned(g) /\ Abandoned(g)' =>
        \E h \in Gets \ {g} :
            /\ SameKey(g, h)
            /\ pc[h] = "wait" /\ pc'[h] # "wait"
            /\ source[h] # source[g] \/ token[h] = "cancelled"

\* An answer abandons nobody: the source it takes out has its result.
LEMMA AnswersDoNotAbandon ==
    ASSUME CacheInv, NEW p \in Nodes, NEW n \in Nodes, HandleSelf(p, n), NEW g \in Gets,
           Abandoned(g)'
    PROVE  Abandoned(g)
<1> DEFINE e == Head(link[p][n]["self"])
           s == sources[n][e.key]
<1>1. "self" \in Topics /\ Arrives(p, n, "self")
  BY DEF Topics, HandleSelf
<1>2. e.key \in Keys /\ e.value \in Held
  BY <1>1, HeadTyped DEF Entry
<1>3. /\ \/ s = NoSource /\ UNCHANGED <<sources, result>>
         \/ /\ s # NoSource
            /\ sources' = [sources EXCEPT ![n][e.key] = NoSource]
            /\ result' = IF result[s] = Pending THEN [result EXCEPT ![s] = e.value]
                                                ELSE result
      /\ UNCHANGED <<pc, token, source>>
  BY DEF HandleSelf, Taken
<1> HIDE DEF e
<1>4. OthersTyped /\ At[g] \in Nodes /\ KeyOf[g] \in Keys
  BY Typed, CacheAssumption DEF CacheInv
<1>5. s \in Gets \cup {NoSource} /\ (s # NoSource => result[s] = Pending)
  BY <1>2, <1>4 DEF OthersTyped, CacheInv, SourcesAreOpen
<1> HIDE DEF s
<1>6. source[g] \in Gets
  BY <1>3, <1>4 DEF Abandoned, OthersTyped
<1>7. e.value # Pending
  BY <1>2, CacheAssumption DEF Held
<1>8. CASE s = NoSource
  BY <1>3, <1>8 DEF Abandoned
<1>9. CASE s # NoSource
  <2>1. result' = [result EXCEPT ![s] = e.value] /\ s \in Gets
    BY <1>3, <1>5, <1>9
  <2>2. source[g] # s /\ result[source[g]] = Pending
    BY <1>3, <1>4, <1>6, <1>7, <2>1 DEF Abandoned, OthersTyped
  <2>3. sources[At[g]][KeyOf[g]] # source[g]
    <3>1. CASE At[g] = n /\ KeyOf[g] = e.key
      BY <2>2, <3>1 DEF s
    <3>2. CASE ~(At[g] = n /\ KeyOf[g] = e.key)
      <4>1. sources'[At[g]][KeyOf[g]] = sources[At[g]][KeyOf[g]]
        BY <1>2, <1>3, <1>4, <1>9, <3>2 DEF OthersTyped
      <4>2. QED
        BY <1>3, <4>1 DEF Abandoned
    <3>3. QED
      BY <3>1, <3>2
  <2>4. QED
    BY <1>3, <2>2, <2>3 DEF Abandoned
<1>10. QED
  BY <1>8, <1>9

\* Nor does a Get that adds its source: it puts it where there is none.
LEMMA AddingDoesNotAbandon ==
    ASSUME CacheInv, NEW h \in Gets, Look(h) \/ Add(h), NEW g \in Gets, Abandoned(g)'
    PROVE  Abandoned(g)
<1>1. /\ OthersTyped /\ At[g] \in Nodes /\ KeyOf[g] \in Keys
      /\ At[h] \in Nodes /\ KeyOf[h] \in Keys
  BY Typed, CacheAssumption DEF CacheInv
<1>2. CASE Look(h)
  BY <1>1, <1>2 DEF Look, Abandoned, OthersTyped
<1>3. CASE Add(h) /\ sources[At[h]][KeyOf[h]] = NoSource
  <2>1. /\ sources' = [sources EXCEPT ![At[h]][KeyOf[h]] = h]
        /\ source' = [source EXCEPT ![h] = h] /\ pc' = [pc EXCEPT ![h] = "ask"]
        /\ UNCHANGED <<result, token>>
    BY <1>3 DEF Add
  <2>2. \A n \in Nodes, k \in Keys :
            sources'[n][k] = IF n = At[h] /\ k = KeyOf[h] THEN h ELSE sources[n][k]
    BY <1>1, <2>1 DEF OthersTyped
  <2>3. g # h /\ source'[g] = source[g] /\ pc'[g] = pc[g]
    BY <1>1, <2>1, <2>2 DEF Abandoned, OthersTyped
  <2>4. sources[At[g]][KeyOf[g]] # source[g]
    BY <1>1, <1>3, <2>2, <2>3 DEF Abandoned
  <2>5. QED
    BY <2>1, <2>3, <2>4 DEF Abandoned
<1>4. CASE Add(h) /\ sources[At[h]][KeyOf[h]] # NoSource
  BY <1>1, <1>4 DEF Add, Abandoned, OthersTyped
<1>5. QED
  BY <1>2, <1>3, <1>4

\* A Get that ends abandons only those of its key that wait for another source, or
\* those of its source if it was cancelled.
LEMMA EndingAbandons ==
    ASSUME CacheInv, NEW h \in Gets, Resume(h), NEW g \in Gets
    PROVE  CleanupOnly(g)
<1> SUFFICES ASSUME ~Abandoned(g), Abandoned(g)'
             PROVE  /\ h # g /\ SameKey(g, h) /\ pc[h] = "wait" /\ pc'[h] # "wait"
                    /\ source[h] # source[g] \/ token[h] = "cancelled"
  BY DEF CleanupOnly
<1>1. /\ OthersTyped /\ At[g] \in Nodes /\ KeyOf[g] \in Keys
      /\ At[h] \in Nodes /\ KeyOf[h] \in Keys
  BY Typed, CacheAssumption DEF CacheInv
<1>2. /\ pc[h] = "wait" /\ UNCHANGED <<result, token, source>>
      /\ sources' = [sources EXCEPT ![At[h]][KeyOf[h]] = NoSource]
      /\ token[h] # "cancelled" => result[source[h]] # Pending
      /\ pc' \in {[pc EXCEPT ![h] = "threw"], [pc EXCEPT ![h] = "returned"]}
  BY DEF Resume
<1>3. pc'[h] \in {"threw", "returned"} /\ (g # h => pc'[g] = pc[g])
  BY <1>1, <1>2 DEF OthersTyped
<1>4. g # h /\ result[source[g]] = Pending
  BY <1>2, <1>3 DEF Abandoned
<1>5. sources[At[g]][KeyOf[g]] = source[g] /\ sources'[At[g]][KeyOf[g]] # source[g]
  BY <1>2, <1>3, <1>4 DEF Abandoned
<1>6. SameKey(g, h)
  BY <1>1, <1>2, <1>5 DEF SameKey, OthersTyped
<1>7. QED
  BY <1>2, <1>3, <1>4, <1>6

LEMMA StepAbandons ==
    ASSUME CacheInv, [Next]_vars, NEW g \in Gets
    PROVE  CleanupOnly(g)
<1>1. ASSUME NEW n \in Changers, NEW k \in Keys, Remove(n, k) \/ \E v \in Values : Set(n, k, v)
      PROVE  CleanupOnly(g)
  BY <1>1 DEF Remove, Set, getVars, CleanupOnly, Abandoned
<1>2. ASSUME NEW h \in Gets, Begin(h) \/ GetStep(h)
      PROVE  CleanupOnly(g)
  <2>1. OthersTyped
    BY Typed DEF CacheInv
  <2>2. CASE Begin(h)
    <3>1. token' \in [Gets -> CancellationToken] /\ (g # h => token'[g] = token[g])
      BY <2>1, <2>2, CacheAssumption DEF Begin, OthersTyped
    <3>2. QED
      BY <2>1, <2>2, <3>1 DEF Begin, OthersTyped, CleanupOnly, Abandoned
  <2>3. CASE Ask(h)
    BY <2>1, <2>3 DEF Ask, OthersTyped, CleanupOnly, Abandoned
  <2>4. QED
    BY <1>2, <2>2, <2>3, AddingDoesNotAbandon, EndingAbandons DEF GetStep, CleanupOnly
<1>3. ASSUME NEW p \in Nodes, NEW n \in Nodes, Observers(p, n)
      PROVE  CleanupOnly(g)
  <2>1. CASE \E t \in {"set", "remove"} : Apply(p, n, t)
    BY <2>1 DEF Apply, getVars, CleanupOnly, Abandoned
  <2>2. CASE HandleGet(p, n)
    BY <2>2 DEF HandleGet, getVars, CleanupOnly, Abandoned
  <2>3. CASE HandleSelf(p, n)
    BY <2>3, AnswersDoNotAbandon DEF CleanupOnly
  <2>4. QED
    BY <1>3, <2>1, <2>2, <2>3 DEF Observers
<1>4. CASE UNCHANGED vars
  BY <1>4 DEF vars, getVars, CleanupOnly, Abandoned
<1>5. QED
  BY <1>1, <1>2, <1>3, <1>4 DEF Next

\* Only another Get of the same key on the same node can abandon a Get, by removing a
\* source that is not its own once it was answered, or was cancelled (GetAsync, the
\* TryRemove after the wait): no answer, no race of two Gets to add a source does.
THEOREM OnlyGetsAbandonGets == Spec => OnlyCleanupAbandons
<1>1. ASSUME CacheInv, [Next]_vars
      PROVE  [\A g \in Gets :
                 ~Abandoned(g) /\ Abandoned(g)' =>
                     \E h \in Gets \ {g} :
                         /\ SameKey(g, h)
                         /\ pc[h] = "wait" /\ pc'[h] # "wait"
                         /\ source[h] # source[g] \/ token[h] = "cancelled"]_vars
  BY <1>1, StepAbandons DEF CleanupOnly
<1>2. QED
  BY <1>1, CacheInvariant, PTL DEF Spec, OnlyCleanupAbandons
=============================================================================
