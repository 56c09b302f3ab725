-------------------------- MODULE SubscriptionLookup --------------------------
(***************************************************************************)
(* The subscription table of vivego.PublishSubscribe/Cache, and the choice *)
(* of recipients the router makes from it.  A writer is whatever the table *)
(* is instantiated with: a Proto.Actor PID or a gRPC server stream.        *)
(*                                                                         *)
(* The code keeps a dictionary of groups, each a dictionary of writers; an *)
(* entry is therefore identified by its group and its writer, and the      *)
(* table is the set of its entries.  A topic filter is known by the pairs  *)
(* of a pattern and a topic it accepts.                                    *)
(***************************************************************************)
EXTENDS Integers

CONSTANTS
    Writers,     \* destinations of messages
    Patterns,    \* the Topic field of a subscription
    Topics,      \* the Topic field of a message
    Groups,      \* the Group field of a subscription
    NoGroup,     \* string.Empty, the group of a subscription that names none
    Matches,     \* the pairs <<pattern, topic>> ITopicFilter.Matches accepts
    RingOrder    \* where the hash ring meets each writer, from the hash of ""

ASSUME LookupAssumption ==
    /\ NoGroup \in Groups
    /\ Matches \subseteq Patterns \X Topics
    /\ RingOrder \in [Writers -> Nat]

Entry == [writer : Writers, pattern : Patterns, group : Groups, hashBy : BOOLEAN]
Class == [group : Groups, hashBy : BOOLEAN, writers : SUBSET Writers]
Route == [how : {"direct", "hash", "roundRobin"}, group : Groups,
          members : SUBSET Writers]

-----------------------------------------------------------------------------
(* The table: SubscriptionWriterLookup.                                    *)

\* TryAdd refuses a second entry of the same writer in the same group.
Taken(table, e) == \E f \in table : f.writer = e.writer /\ f.group = e.group

Added(table, e) == IF Taken(table, e) THEN table ELSE table \cup {e}

\* Faults: the iterator of Remove is never run; Remove drops the whole group.
RemovedLazily(table, w) == table
RemovedGroup(table, w) ==
    {e \in table : \A f \in table : f.writer = w => f.group # e.group}

\* Remove takes the writer out of every group.
Removed(table, w) == {e \in table : e.writer # w}

Matching(table, t) == {e \in table : <<e.pattern, t>> \in Matches}

\* Lookup: the matching writers of each group, grouped by HashBy.
ClassOf(entries, e) ==
    [group |-> e.group, hashBy |-> e.hashBy,
     writers |-> {f.writer : f \in {g \in entries : /\ g.group = e.group
                                                    /\ g.hashBy = e.hashBy}}]

Classes(table, t) == {ClassOf(Matching(table, t), e) : e \in Matching(table, t)}

-----------------------------------------------------------------------------
(* The recipients: PublishSubscribeRouterActor.Lookup.                     *)

Single(c) == \E w \in c.writers : c.writers = {w}
Broadcast(c) == c.group = NoGroup /\ ~c.hashBy

\* Fault: the members of a group are told like plain subscribers.
RoutesToAll(c) ==
    {[how |-> "direct", group |-> c.group, members |-> {w}] : w \in c.writers}

\* A class of one writer, and a class without group and hash, is told writer by
\* writer; any other class gets a group router that tells one member.
RoutesOf(c) ==
    IF Single(c) \/ Broadcast(c)
    THEN {[how |-> "direct", group |-> c.group, members |-> {w}] : w \in c.writers}
    ELSE {[how |-> IF c.hashBy THEN "hash" ELSE "roundRobin",
           group |-> c.group, members |-> c.writers]}

Routes(classes) == UNION {RoutesOf(c) : c \in classes}

\* GetNode("") of the hash ring: the key is constant, so the ring meets the same
\* member first as long as the members do not change.
RingNode(S) == CHOOSE w \in S : \A v \in S : RingOrder[w] =< RingOrder[v]

\* The members a route may tell next.
Choices(r) == IF r.how = "hash" THEN {RingNode(r.members)} ELSE r.members

\* The sets of writers one message may be told to.
Selections(routes) ==
    {{pick[r] : r \in routes} :
        pick \in {f \in [routes -> Writers] : \A r \in routes : f[r] \in Choices(r)}}
=============================================================================
