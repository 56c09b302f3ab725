-------------------------- MODULE MCGrpcServerRouter --------------------------
(* Small instances of GrpcServerRouter for TLC.                            *)
EXTENDS GrpcServerRouter, TLC

CONSTANTS w1, w2, p1, p2

TwoWriters == {w1, w2}
TwoPublishers == {p1, p2}
OnePattern == {"p"}
OneTopic == {"t"}
TwoGroups == {"", "g"}
MatchAll == {<<"p", "t">>}
RingInOrder == (w1 :> 1) @@ (w2 :> 2)
\* Of the ways to be in one group or in two, one each.
Plain == {e \in Entry : ~e.hashBy /\ (e.writer = w1 => e.group = "")}
Symmetry == Permutations(TwoPublishers)
=============================================================================
