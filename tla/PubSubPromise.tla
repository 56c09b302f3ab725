---------------------------- MODULE PubSubPromise ----------------------------
(***************************************************************************)
(* What a publish/subscribe router promises, with no cache, mailbox or     *)
(* connection: on each node a table of subscriptions, at most one for a    *)
(* writer, and each message told once, to the writers the table of that    *)
(* moment entitles to it.                                                  *)
(***************************************************************************)
EXTENDS SubscriptionLookup

CONSTANTS Nodes, Message

VARIABLES table, routed

\* Every writer of a class without group and hash, one writer of any other class,
\* and nobody else.
Serves(to, classes) ==
    /\ to \subseteq UNION {c.writers : c \in classes}
    /\ \A c \in classes : IF Broadcast(c)
                          THEN c.writers \subseteq to
                          ELSE \E w \in c.writers : to \cap c.writers = {w}

Init ==
    /\ table = [n \in Nodes |-> {}]
    /\ routed = {}

Subscribe(n, e) ==
    /\ \A f \in table[n] : f.writer # e.writer
    /\ table' = [table EXCEPT ![n] = @ \cup {e}]
    /\ UNCHANGED routed

Forget(n, w) ==
    /\ table' = [table EXCEPT ![n] = Removed(@, w)]
    /\ UNCHANGED routed

Tell(n, m) ==
    /\ \A r \in routed : r.msg.id # m.id
    /\ \E to \in SUBSET Writers :
          /\ Serves(to, Classes(table[n], m.topic))
          /\ routed' = routed \cup {[msg |-> m, to |-> to]}
    /\ UNCHANGED table

Next ==
    \/ \E n \in Nodes, e \in Entry : Subscribe(n, e)
    \/ \E n \in Nodes, w \in Writers : Forget(n, w)
    \/ \E n \in Nodes, m \in Message : Tell(n, m)

Spec == Init /\ [][Next]_<<table, routed>>
=============================================================================
