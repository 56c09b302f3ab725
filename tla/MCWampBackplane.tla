---------------------------- MODULE MCWampBackplane ----------------------------
(* Small instances of WampBackplane for TLC.                               *)
EXTENDS WampBackplane, TLC

TwoNodes == {"a", "b"}
OnlyB == {"b"}
OneTopic == {"t"}
ThreeLanes == {"l1", "l2", "l3"}
ThreeMessages == {"m1", "m2", "m3"}

\* Two at one node, so that their replays meet at the other, and one there.
TwoAtA == ("m1" :> "a") @@ ("m2" :> "a") @@ ("m3" :> "b")
TwoAtB == ("l1" :> "b") @@ ("l2" :> "b") @@ ("l3" :> "a")
AllOfT == [m \in Messages |-> "t"]
=============================================================================
