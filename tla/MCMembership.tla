----------------------------- MODULE MCMembership -----------------------------
(* Small instances of Membership for TLC.                                  *)
EXTENDS Membership, TLC

TwoNodes == {"a", "b"}
ThreeNodes == {"a", "b", "c"}

\* The seed is a, as in RunSeededLocalCluster: the first port, and the node's own.
SeedA == [n \in Nodes |-> {"a"}]

Nobody == {}
OnlyB == {"b"}
=============================================================================
