------------------------------ MODULE MCChatPage ------------------------------
(* Small instances of ChatPage, and of the SignalR client in it, for TLC.  *)
EXTENDS ChatPage, TLC

ThreeCalls == {"i1", "i2", "i3"}
NoCalls == {}
=============================================================================
