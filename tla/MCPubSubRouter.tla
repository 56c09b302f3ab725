---------------------------- MODULE MCPubSubRouter ----------------------------
(* Small instances of PubSubRouter for TLC.                                *)
EXTENDS PubSubRouter, TLC

OneNode == {"n1"}
TwoNodes == {"n1", "n2"}
TwoWriters == {"w1", "w2"}
ThreeWriters == {"w1", "w2", "w3"}

AllAtN1 == [w \in Writers |-> "n1"]
OneEach == ("w1" :> "n1") @@ ("w2" :> "n2")

\* "first" accepts t1 only, "all" every topic.
FirstPattern == {"first"}
OneTopic == {"t1"}
TwoTopics == {"t1", "t2"}
FilterMatches == {pt \in Patterns \X Topics : pt[1] = "all" \/ pt[2] = "t1"}

Plain == {""}
PlainOrGroup == {"", "g"}

\* Every kind of subscription, those of a group, or the one every message must reach.
AnySubscription == [pattern : Patterns, group : Groups, hashBy : BOOLEAN]
GroupSubscription == [pattern : Patterns, group : {"g"}, hashBy : BOOLEAN]
PlainSubscription == [pattern : Patterns, group : {NoGroup}, hashBy : {FALSE}]

\* w3 is met before w1, and w1 before w2, from the hash of the empty key.
Ring == [w \in Writers |-> CASE w = "w3" -> 1 [] w = "w1" -> 2 [] w = "w2" -> 3]
=============================================================================
