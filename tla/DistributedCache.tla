--------------------------- MODULE DistributedCache ---------------------------
(***************************************************************************)
(* The distributed cache over publish/subscribe                            *)
(* (PublishSubscribeDistributedCache): every node holds a replica, Set and *)
(* Remove are published to all of them, and a Get publishes a request that *)
(* every replica answers on a topic of the asking node; the first answer   *)
(* completes the source the Get waits for.                                 *)
(*                                                                         *)
(* Of publish/subscribe the model takes what PubSubRouter shows: messages  *)
(* of one node reach an observer once and in their order.  The observers   *)
(* of the four topics are different actors, so nothing orders one topic    *)
(* with another.                                                           *)
(***************************************************************************)
EXTENDS Naturals, Sequences

CONSTANTS
    Nodes, Keys, Values,
    NoEntry,     \* a replica without the key, and the empty value it answers with
    Pending,     \* the result of a completion source that has none
    NoSource,    \* no completion source
    Gets,        \* the calls of GetAsync
    At, KeyOf,   \* the node and the key of each
    Tokens,      \* the cancellation tokens they may have, of CancellationToken
    Changers,    \* bound: the nodes that call Set and Remove
    MaxChanges   \* bound: calls of Set and Remove

\* None that can be cancelled, one that may be later, one that is already.
CancellationToken == {"none", "live", "cancelled"}

ASSUME CacheAssumption ==
    /\ At \in [Gets -> Nodes]
    /\ KeyOf \in [Gets -> Keys]
    /\ Tokens \subseteq CancellationToken
    /\ Changers \subseteq Nodes
    /\ MaxChanges \in Nat
    /\ NoEntry \notin Values
    /\ Pending \notin Values \cup {NoEntry}
    /\ NoSource \notin Gets

Topics == {"set", "remove", "get", "self"}
Held == Values \cup {NoEntry}

VARIABLES
    memory,    \* memoryCache of each node
    sources,   \* _completionSources of each node: by key, the Get that made the source
    result,    \* what each source was completed with
    pc,        \* where each Get is
    token,     \* its cancellation token
    source,    \* the source it waits for
    returned,  \* what it returned
    link,      \* link[p][n][t]: what p published that n's observer of t has not handled
    changes,   \* counter, for the bound
    alone,     \* history: the Gets that began with no request for the key under way
    heldSince  \* history: what replicas held of its key since each Get began

getVars == <<sources, result, pc, token, source, returned>>
vars == <<memory, getVars, link, changes, alone, heldSince>>

Entry == [key : Keys, value : Held]
Request == [key : Keys, from : Nodes]

Init ==
    /\ memory = [n \in Nodes |-> [k \in Keys |-> NoEntry]]
    /\ sources = [n \in Nodes |-> [k \in Keys |-> NoSource]]
    /\ result = [g \in Gets |-> Pending]
    /\ pc = [g \in Gets |-> "idle"]
    /\ token = [g \in Gets |-> "none"]
    /\ source = [g \in Gets |-> NoSource]
    /\ returned = [g \in Gets |-> Pending]
    /\ link = [p \in Nodes |-> [n \in Nodes |-> [t \in Topics |-> <<>>]]]
    /\ changes = 0
    /\ alone = {}
    /\ heldSince = [g \in Gets |-> {}]

Published(p, t, m) ==
    [link EXCEPT ![p] =
        [n \in Nodes |-> [link[p][n] EXCEPT ![t] = Append(@, m)]]]

Arrives(p, n, t) == link[p][n][t] # <<>>
Consumed(p, n, t) == [link EXCEPT ![p][n][t] = Tail(@)]

-----------------------------------------------------------------------------
(* Set and Remove.                                                         *)

Set(n, k, v) ==
    /\ changes < MaxChanges
    /\ changes' = changes + 1
    /\ link' = Published(n, "set", [key |-> k, value |-> v])
    /\ UNCHANGED <<memory, getVars, alone, heldSince>>

Remove(n, k) ==
    /\ changes < MaxChanges
    /\ changes' = changes + 1
    /\ link' = Published(n, "remove", [key |-> k, value |-> NoEntry])
    /\ UNCHANGED <<memory, getVars, alone, heldSince>>

\* The observer of the set or the remove topic changes the replica.
Apply(p, n, t) ==
    /\ t \in {"set", "remove"}
    /\ Arrives(p, n, t)
    /\ link' = Consumed(p, n, t)
    /\ LET e == Head(link[p][n][t])
       IN /\ memory' = [memory EXCEPT ![n][e.key] = e.value]
          /\ heldSince' = [g \in Gets |-> IF pc[g] # "idle" /\ KeyOf[g] = e.key
                                          THEN heldSince[g] \cup {e.value}
                                          ELSE heldSince[g]]
    /\ UNCHANGED <<getVars, changes, alone>>

-----------------------------------------------------------------------------
(* GetAsync.                                                               *)

Queue(S) == {S[i] : i \in DOMAIN S}

\* A request of n for k, or an answer to one, is on its way.
UnderWay(n, k) ==
    \E p \in Nodes :
        \/ \E m \in Nodes : [key |-> k, from |-> n] \in Queue(link[p][m]["get"])
        \/ \E e \in Queue(link[p][n]["self"]) : e.key = k

Begin(g) ==
    /\ pc[g] = "idle"
    /\ pc' = [pc EXCEPT ![g] = "look"]
    /\ \E c \in Tokens : token' = [token EXCEPT ![g] = c]
    /\ heldSince' = [heldSince EXCEPT ![g] = {memory[n][KeyOf[g]] : n \in Nodes}]
    /\ alone' = IF UnderWay(At[g], KeyOf[g]) THEN alone ELSE alone \cup {g}
    /\ UNCHANGED <<memory, sources, result, source, returned, link, changes>>

\* TryGetValue: the source of another Get is shared.
Look(g) ==
    /\ pc[g] = "look"
    /\ LET found == sources[At[g]][KeyOf[g]]
       IN IF found = NoSource
          THEN /\ pc' = [pc EXCEPT ![g] = "add"]
               /\ UNCHANGED source
          ELSE /\ pc' = [pc EXCEPT ![g] = "ask"]
               /\ source' = [source EXCEPT ![g] = found]
    /\ UNCHANGED <<memory, sources, result, token, returned, link, changes, alone, heldSince>>

\* Fault: the source is put in the place of one that another Get just added.
AddOver(g) ==
    /\ pc[g] = "add"
    /\ sources' = [sources EXCEPT ![At[g]][KeyOf[g]] = g]
    /\ source' = [source EXCEPT ![g] = g]
    /\ pc' = [pc EXCEPT ![g] = "ask"]
    /\ UNCHANGED <<memory, result, token, returned, link, changes, alone, heldSince>>

\* TryAdd: when another Get was faster, GetAsync starts again.
Add(g) ==
    /\ pc[g] = "add"
    /\ IF sources[At[g]][KeyOf[g]] = NoSource
       THEN /\ sources' = [sources EXCEPT ![At[g]][KeyOf[g]] = g]
            /\ source' = [source EXCEPT ![g] = g]
            /\ pc' = [pc EXCEPT ![g] = "ask"]
       ELSE /\ pc' = [pc EXCEPT ![g] = "look"]
            /\ UNCHANGED <<sources, source>>
    /\ UNCHANGED <<memory, result, token, returned, link, changes, alone, heldSince>>

\* The request is published.  Task.FromCanceled throws for a token that can be, but is
\* not, cancelled: such a Get fails at once and leaves its source behind.
Ask(g) ==
    /\ pc[g] = "ask"
    /\ link' = Published(At[g], "get", [key |-> KeyOf[g], from |-> At[g]])
    /\ pc' = [pc EXCEPT ![g] = IF token[g] = "live" THEN "threw" ELSE "wait"]
    /\ UNCHANGED <<memory, sources, result, token, source, returned, changes, alone,
                   heldSince>>

\* Fault: an observer without the entry does not answer.
AnswerKnown(n, k) ==
    IF memory[n][k] = NoEntry THEN <<>> ELSE <<[key |-> k, value |-> memory[n][k]]>>

\* Fault: an observer without the entry answers without a value.
AnswerNothing(n, k) ==
    <<[key |-> k, value |-> IF memory[n][k] = NoEntry THEN Pending ELSE memory[n][k]]>>

\* What the observer of the get topic answers: also that it has nothing.
Answer(n, k) == <<[key |-> k, value |-> memory[n][k]]>>

HandleGet(p, n) ==
    /\ Arrives(p, n, "get")
    /\ LET r == Head(link[p][n]["get"])
       IN link' = [Consumed(p, n, "get") EXCEPT ![n][r.from]["self"] = @ \o Answer(n, r.key)]
    /\ UNCHANGED <<memory, getVars, changes, alone, heldSince>>

\* Fault: the source answered stays in the dictionary, for its Get to remove.
TakenLate(n, k) == sources

Taken(n, k) == [sources EXCEPT ![n][k] = NoSource]

\* The observer of the own topic completes the source of the key, if there is one.
HandleSelf(p, n) ==
    /\ Arrives(p, n, "self")
    /\ link' = Consumed(p, n, "self")
    /\ LET e == Head(link[p][n]["self"])
           s == sources[n][e.key]
       IN IF s = NoSource
          THEN UNCHANGED <<sources, result>>
          ELSE /\ sources' = Taken(n, e.key)
               /\ result' = IF result[s] = Pending THEN [result EXCEPT ![s] = e.value]
                                                   ELSE result
    /\ UNCHANGED <<memory, pc, token, source, returned, changes, alone, heldSince>>

\* The wait is over: whatever source the key has now is removed.
Resume(g) ==
    /\ pc[g] = "wait"
    /\ sources' = [sources EXCEPT ![At[g]][KeyOf[g]] = NoSource]
    /\ IF token[g] = "cancelled"
       THEN /\ pc' = [pc EXCEPT ![g] = "threw"]
            /\ UNCHANGED returned
       ELSE /\ result[source[g]] # Pending
            /\ pc' = [pc EXCEPT ![g] = "returned"]
            /\ returned' = [returned EXCEPT ![g] = result[source[g]]]
    /\ UNCHANGED <<memory, result, token, source, link, changes, alone, heldSince>>

-----------------------------------------------------------------------------
GetStep(g) == Look(g) \/ Add(g) \/ Ask(g) \/ Resume(g)

Observers(p, n) ==
    \/ \E t \in {"set", "remove"} : Apply(p, n, t)
    \/ HandleGet(p, n)
    \/ HandleSelf(p, n)

Next ==
    \/ \E n \in Changers, k \in Keys : Remove(n, k) \/ \E v \in Values : Set(n, k, v)
    \/ \E g \in Gets : Begin(g) \/ GetStep(g)
    \/ \E p, n \in Nodes : Observers(p, n)

Spec == Init /\ [][Next]_vars

\* A Get that was called runs on, and observers are handed what was published.
Fairness ==
    /\ \A g \in Gets : WF_vars(GetStep(g))
    /\ \A p, n \in Nodes :
          /\ WF_vars(HandleGet(p, n))
          /\ WF_vars(HandleSelf(p, n))

FairSpec == Spec /\ Fairness

-----------------------------------------------------------------------------
(* Properties.                                                             *)

\* Every variable keeps its type.
TypeOK ==
    /\ memory \in [Nodes -> [Keys -> Held]]
    /\ sources \in [Nodes -> [Keys -> Gets \cup {NoSource}]]
    /\ result \in [Gets -> Held \cup {Pending}]
    /\ pc \in [Gets -> {"idle", "look", "add", "ask", "wait", "returned", "threw"}]
    /\ token \in [Gets -> CancellationToken]
    /\ source \in [Gets -> Gets \cup {NoSource}]
    /\ returned \in [Gets -> Held \cup {Pending}]
    /\ link \in [Nodes -> [Nodes -> [Topics -> Seq(Entry \cup Request)]]]
    /\ changes \in 0..MaxChanges
    /\ alone \subseteq Gets
    /\ heldSince \in [Gets -> SUBSET Held]

\* A Get is abandoned when its source is out of the dictionary and has no result:
\* no answer will ever find it.
Abandoned(g) ==
    /\ source[g] # NoSource
    /\ pc[g] \in {"ask", "wait"}
    /\ token[g] = "none"
    /\ result[source[g]] = Pending
    /\ sources[At[g]][KeyOf[g]] # source[g]

SameKey(g, h) == At[g] = At[h] /\ KeyOf[g] = KeyOf[h]

\* Only another Get of the same key on the same node can abandon a Get, by removing a
\* source that is not its own once it was answered, or was cancelled (GetAsync, the
\* TryRemove after the wait): no answer, no race of two Gets to add a source does.
OnlyCleanupAbandons ==
    [][\A g \in Gets :
          ~Abandoned(g) /\ Abandoned(g)' =>
              \E h \in Gets \ {g} :
                  /\ SameKey(g, h)
                  /\ pc[h] = "wait" /\ pc'[h] # "wait"
                  /\ source[h] # source[g] \/ token[h] = "cancelled"]_vars

\* Every Get without a token returns, unless another abandons it: also when nobody has
\* the entry, and however Gets share their sources and answers.
GetReturns ==
    \A g \in Gets :
        pc[g] # "idle" /\ token[g] = "none" ~> pc[g] = "returned" \/ Abandoned(g)

\* A Get that began when no request of its node for the key was under way returns what
\* a replica held at some time since: no answer from before, nor of another node's Get,
\* is taken for its own.
AloneIsFresh ==
    \A g \in alone : pc[g] = "returned" => returned[g] \in heldSince[g]
=============================================================================
