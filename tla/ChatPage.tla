------------------------------- MODULE ChatPage -------------------------------
(***************************************************************************)
(* The page of the chat sample (startConnection in index.html) over the    *)
(* SignalR client: it starts a connection with each transport in turn      *)
(* until one starts.  An earlier connection is forgotten; the page reacts  *)
(* to the promise of start before the next event.                          *)
(***************************************************************************)
EXTENDS SignalRClient

VARIABLES
    page,   \* the promise of startConnection
    tried   \* history: the transports it has requested

pageVars == <<vars, page, tried>>

After == [k \in Kinds \ {"LongPolling"} |->
             IF k = "WebSockets" THEN "ServerSentEvents" ELSE "LongPolling"]

PageInit ==
    /\ Init
    /\ kind = "WebSockets"
    /\ page = "starting"
    /\ tried = {"WebSockets"}

Reacts == page = "starting" /\ started \notin {"none", "pending"}

Client ==
    /\ ~Reacts
    /\ Next
    /\ UNCHANGED <<page, tried>>

Resolve ==
    /\ Reacts
    /\ started = "resolved"
    /\ page' = "resolved"
    /\ UNCHANGED <<vars, tried>>

\* A new connection, to start with transport k.
NewConnection(k) ==
    /\ kind' = k
    /\ used' = "none"
    /\ state' = "Initial"
    /\ boot' = "none"
    /\ started' = "none"
    /\ handshake' = FALSE
    /\ stopping' = FALSE
    /\ transport' = FALSE
    /\ channel' = "none"
    /\ attached' = FALSE
    /\ promise' = [i \in Calls |-> "none"]
    /\ callbacks' = {}
    /\ posts' = {}
    /\ served' = {}
    /\ closed' = 0
    /\ twice' = FALSE

\* Fault: after the last transport the first is tried again.
NextInRing(k) == IF k = "LongPolling" THEN {"WebSockets"} ELSE {After[k]}

\* Fault: after the last there is one that is not defined.
NextUndefined(k) == IF k = "LongPolling" THEN {"undefined"} ELSE {After[k]}

\* The transport after k, if k is not the last.
NextTransport(k) == {After[j] : j \in {k} \ {"LongPolling"}}

\* The catch, for a connection that cannot be started.
FallBack ==
    /\ Reacts
    /\ started = "error"
    /\ \E k \in NextTransport(kind) : NewConnection(k) /\ tried' = tried \cup {k}
    /\ UNCHANGED page

\* The catch itself throws when it reads the message of nothing; or there is no transport
\* left to try.
Reject ==
    /\ Reacts
    /\ started = "undefined" \/ (started = "error" /\ NextTransport(kind) = {})
    /\ page' = "rejected"
    /\ UNCHANGED <<vars, tried>>

PageNext == Client \/ Resolve \/ FallBack \/ Reject

\* The script runs, and the browser answers: a request ends, a channel opens or fails.
PageSpec ==
    /\ PageInit
    /\ [][PageNext]_pageVars
    /\ WF_pageVars(Resolve \/ FallBack \/ Reject)
    /\ WF_pageVars(Client /\ (Start \/ Answers))

-----------------------------------------------------------------------------
(* Properties.                                                             *)

\* The page's promise is settled in the end, whatever fails and whoever stops what.
PageSettles == <>(page # "starting")

\* "If the connection cannot be started using any of the available transports the
\* function will return a rejected Promise" (index.html:73): not before all were tried.
AllTransportsTried == page = "rejected" => tried = Kinds
=============================================================================
