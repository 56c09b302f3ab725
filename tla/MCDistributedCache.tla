-------------------------- MODULE MCDistributedCache --------------------------
(* Small instances of DistributedCache for TLC.                            *)
EXTENDS DistributedCache, TLC

TwoNodes == {"a", "b"}
OnlyB == {"b"}
OneKey == {"k"}
OneValue == {"v1"}
TwoGets == {"g1", "g2"}

\* All on one node and one key, where Gets meet.
AllAtA == [g \in Gets |-> "a"]
AllOfK == [g \in Gets |-> "k"]
=============================================================================
