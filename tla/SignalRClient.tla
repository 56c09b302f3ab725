----------------------------- MODULE SignalRClient -----------------------------
(***************************************************************************)
(* The JavaScript client of a SignalR hub (signalr-client): HubConnection, *)
(* the HttpConnection below it and its three transports.                   *)
(*                                                                         *)
(* The browser runs one event to its end, the promises it settles          *)
(* included, before the next: an action is an event (a call of the user,   *)
(* an answer, an event of the socket, the EventSource or the poll) with    *)
(* all that awaits it.  The channel is what the transport opened; stop     *)
(* calls close on it only once the transport has kept it (attached).       *)
(***************************************************************************)
EXTENDS Naturals, FiniteSets

CONSTANTS
    Calls,       \* the invocations, each made once
    MaxClosed    \* bound: how often the channel of a failed connection fails again

ASSUME ClientAssumption == MaxClosed \in Nat \ {0}

Kinds == {"WebSockets", "ServerSentEvents", "LongPolling"}

VARIABLES
    kind,       \* the transport requested
    used,       \* history: the transport that was made, the one requested or another
    state,      \* connectionState
    boot,       \* where startInternal is
    started,    \* the promise of HubConnection.start
    handshake,  \* the handshake is posted and not answered
    stopping,   \* a stop awaits startPromise
    transport,  \* HttpConnection has a transport
    channel,    \* what the transport opened
    attached,   \* the transport has kept it: webSocket, eventSource, shouldPoll
    promise,    \* the promise of each invocation
    callbacks,  \* the invocations in the map of callbacks
    posts,      \* those whose POST is not answered
    served,     \* those the server may answer yet
    closed,     \* how often the closed callbacks were called
    twice       \* history: a handler of the user stopped the connection and threw

kindVars == <<kind, used>>
startVars == <<boot, started, handshake, stopping>>
channelVars == <<transport, channel, attached>>
callVars == <<promise, callbacks, posts, served>>
vars == <<kindVars, state, startVars, channelVars, callVars, closed, twice>>

Init ==
    /\ kind \in Kinds
    /\ used = "none"
    /\ state = "Initial"
    /\ boot = "none"
    /\ started = "none"
    /\ handshake = FALSE
    /\ stopping = FALSE
    /\ transport = FALSE
    /\ channel = "none"
    /\ attached = FALSE
    /\ promise = [i \in Calls |-> "none"]
    /\ callbacks = {}
    /\ posts = {}
    /\ served = {}
    /\ closed = 0
    /\ twice = FALSE

-----------------------------------------------------------------------------
(* The end of a connection.                                                *)

\* transport.stop: what was not kept cannot be closed.
StopTransport ==
    IF transport /\ attached
    THEN channel' = "closed" /\ attached' = FALSE
    ELSE UNCHANGED <<channel, attached>>

\* connectionClosed, n times: it settles every invocation and calls the user's callbacks.
ConnectionClosed(n) ==
    /\ closed' = closed + n
    /\ IF n = 0
       THEN UNCHANGED <<promise, callbacks>>
       ELSE /\ promise' = [i \in Calls |-> IF i \in callbacks /\ promise[i] = "pending"
                                           THEN "rejected" ELSE promise[i]]
            /\ callbacks' = {}
    /\ UNCHANGED <<posts, served>>

\* stopConnection, that raises closed n times.
StopConnection(n) ==
    /\ StopTransport
    /\ transport' = FALSE
    /\ state' = "Disconnected"
    /\ ConnectionClosed(n)

-----------------------------------------------------------------------------
(* start: negotiation, the transport, the handshake.                       *)

Start ==
    /\ started = "none"
    /\ IF state = "Initial"
       THEN /\ state' = "Connecting"
            /\ boot' = "negotiate"
            /\ started' = "pending"
       ELSE /\ started' = "error"
            /\ UNCHANGED <<state, boot>>
    /\ UNCHANGED <<kindVars, handshake, stopping, channelVars, callVars, closed, twice>>

\* startInternal throws: the transport is let go, not stopped, and start rejects with
\* what was thrown; a stop that waits finds nothing to stop.
StartFails(reason) ==
    /\ boot' = "done"
    /\ started' = reason
    /\ stopping' = FALSE
    /\ state' = "Disconnected"
    /\ transport' = FALSE
    /\ UNCHANGED <<kindVars, handshake, callVars, closed, twice>>

\* The handshake is sent, at once on a socket, by a POST otherwise; when the connection
\* was stopped meanwhile send throws, and the stop goes on.
Connected(k) ==
    /\ boot' = "done"
    /\ used' = k
    /\ IF state = "Connecting"
       THEN /\ state' = "Connected"
            /\ transport' = TRUE
            /\ channel' = "open"
            /\ attached' = TRUE
            /\ IF k = "WebSockets"
               THEN started' = "resolved" /\ UNCHANGED handshake
               ELSE handshake' = TRUE /\ UNCHANGED started
            /\ UNCHANGED stopping
       ELSE /\ started' = "error"
            /\ stopping' = FALSE
            /\ transport' = FALSE
            /\ channel' = "closed"
            /\ attached' = FALSE
            /\ UNCHANGED <<state, handshake>>
    /\ UNCHANGED <<kind, callVars, closed, twice>>

\* The connection was stopped while it negotiated: startInternal returns.
ReturnStopped ==
    /\ boot' = "done"
    /\ started' = "error"
    /\ stopping' = FALSE
    /\ UNCHANGED <<kindVars, state, handshake, channelVars, callVars, closed, twice>>

\* The transport opens its channel; that of a poll needs no answer.
Connect(k) ==
    IF k = "LongPolling"
    THEN Connected(k)
    ELSE /\ boot' = "connect"
         /\ used' = k
         /\ transport' = TRUE
         /\ channel' = "opening"
         /\ UNCHANGED <<kind, state, started, handshake, stopping, attached, callVars, closed,
                        twice>>

\* What a server may offer: transports in the order of its choice.
Offers == {q \in UNION {[1..n -> Kinds] : n \in 0..Cardinality(Kinds)} :
              \A i, j \in DOMAIN q : q[i] = q[j] => i = j}

\* createTransport takes the transport requested, if the server offers it.  The number of
\* WebSockets is 0, which counts as no request: the first that is offered is taken.
Created(offered) ==
    LET any == kind = "WebSockets"
    IN {offered[i] : i \in {j \in DOMAIN offered : IF any THEN j = 1 ELSE offered[j] = kind}}

\* The negotiation fails, or is answered with what the server offers.
Negotiated ==
    /\ boot = "negotiate"
    /\ \/ StartFails("error") /\ UNCHANGED <<channel, attached>>
       \/ state = "Disconnected" /\ ReturnStopped
       \/ /\ state # "Disconnected"
          /\ \E offered \in Offers :
                \/ \E k \in Created(offered) : Connect(k)
                \/ /\ Created(offered) = {}
                   /\ StartFails("error")
                   /\ UNCHANGED <<channel, attached>>

\* onopen
Opened ==
    /\ boot = "connect"
    /\ Connected(used)

\* onerror before onopen rejects with nothing.  A socket is closed then; an EventSource
\* connects again, unless the answer is one it gives up on.
Errored ==
    /\ boot = "connect"
    /\ StartFails("undefined")
    /\ \/ channel' = "closed"
       \/ used = "ServerSentEvents" /\ UNCHANGED channel
    /\ UNCHANGED attached

\* The POST of the handshake is answered: start resolves or rejects, whatever became of
\* the connection.
HandshakePosted ==
    /\ handshake
    /\ handshake' = FALSE
    /\ \E r \in {"resolved", "error"} : started' = r
    /\ UNCHANGED <<kindVars, state, boot, stopping, channelVars, callVars, closed, twice>>

-----------------------------------------------------------------------------
(* stop, and the loss of the channel.                                      *)

Booting == boot \in {"negotiate", "connect"}

\* Fault: the connection is stopped without awaiting startPromise.
StopNow ==
    /\ StopConnection(IF state = "Connected" THEN 1 ELSE 0)
    /\ UNCHANGED <<kindVars, startVars, twice>>

\* Fault: closed is raised though the connection was not up.
StopRaises ==
    IF Booting
    THEN /\ state' = "Disconnected"
         /\ stopping' = TRUE
         /\ UNCHANGED <<kindVars, boot, started, handshake, channelVars, callVars, closed, twice>>
    ELSE /\ closed < MaxClosed
         /\ StopConnection(1)
         /\ UNCHANGED <<kindVars, startVars, twice>>

\* stop awaits startPromise; closed is raised if the connection was up.
Stop ==
    IF Booting
    THEN /\ state' = "Disconnected"
         /\ stopping' = TRUE
         /\ UNCHANGED <<kindVars, boot, started, handshake, channelVars, callVars, closed, twice>>
    ELSE /\ StopConnection(IF state = "Connected" THEN 1 ELSE 0)
         /\ UNCHANGED <<kindVars, startVars, twice>>

\* The peer closes the socket: nothing can be sent, and onclose is to come.
SocketCloses ==
    /\ used = "WebSockets"
    /\ attached
    /\ channel = "open"
    /\ channel' = "closing"
    /\ UNCHANGED <<kindVars, state, startVars, transport, attached, callVars, closed, twice>>

\* Nobody stops this channel any more.
Orphan == channel \in {"opening", "open"} /\ ~transport /\ ~Booting

\* onclose of the socket, onerror of the EventSource or the poll.
ChannelLost ==
    /\ attached
    /\ channel \in {"open", "closing"}
    /\ transport
    /\ StopConnection(1)
    /\ UNCHANGED <<kindVars, startVars, twice>>

\* The EventSource of a failed start connects after all.
OrphanOpens ==
    /\ Orphan
    /\ channel = "opening"
    /\ channel' = "open"
    /\ attached' = TRUE
    /\ UNCHANGED <<kindVars, state, startVars, transport, callVars, closed, twice>>

\* It fails: closed is raised if it once was open, and it connects again or gives up.
OrphanLost ==
    /\ Orphan
    /\ channel' \in {"opening", "closed"}
    /\ IF attached
       THEN /\ closed < MaxClosed
            /\ ConnectionClosed(1)
            /\ state' = "Disconnected"
       ELSE UNCHANGED <<callVars, closed, state>>
    /\ UNCHANGED <<kindVars, startVars, transport, attached, twice>>

-----------------------------------------------------------------------------
(* Invocations.                                                            *)

\* invoke: the callback comes first; where send throws, it stays in the map.
Invoke(i) ==
    /\ promise[i] = "none"
    /\ IF state # "Connected"
       THEN /\ promise' = [promise EXCEPT ![i] = "rejected"]
            /\ callbacks' = callbacks \cup {i}
            /\ UNCHANGED <<posts, served>>
       ELSE IF channel = "closing"
       THEN /\ promise' = [promise EXCEPT ![i] = "rejected"]
            /\ UNCHANGED <<callbacks, posts, served>>
       ELSE /\ promise' = [promise EXCEPT ![i] = "pending"]
            /\ callbacks' = callbacks \cup {i}
            /\ posts' = IF used = "WebSockets" THEN posts ELSE posts \cup {i}
            /\ \/ served' = served \cup {i}
               \/ used # "WebSockets" /\ UNCHANGED served
    /\ UNCHANGED <<kindVars, state, startVars, channelVars, closed, twice>>

Settled(i, p) == IF promise[i] = "pending" THEN [promise EXCEPT ![i] = p] ELSE promise

\* Fault: an invocation that could not be sent is forgotten, not rejected.
PostForgotten(i) ==
    /\ i \in posts
    /\ posts' = posts \ {i}
    /\ callbacks' = callbacks \ {i}
    /\ UNCHANGED <<promise, kindVars, state, startVars, channelVars, served, closed, twice>>

\* The POST of an invocation is answered; an error rejects the invocation.
Posted(i) ==
    /\ i \in posts
    /\ posts' = posts \ {i}
    /\ \/ UNCHANGED <<promise, callbacks>>
       \/ /\ promise' = Settled(i, "rejected")
          /\ callbacks' = callbacks \ {i}
    /\ UNCHANGED <<kindVars, state, startVars, channelVars, served, closed, twice>>

\* What the channel receives is handled, also when nobody stops it any more.
Hears == channel = "open" /\ (transport \/ Orphan)

\* The server completes an invocation.
Completion(i) ==
    /\ Hears
    /\ i \in served
    /\ served' = served \ {i}
    /\ IF i \in callbacks
       THEN /\ callbacks' = callbacks \ {i}
            /\ \E p \in {"resolved", "rejected"} : promise' = Settled(i, p)
       ELSE UNCHANGED <<promise, callbacks>>
    /\ UNCHANGED <<kindVars, state, startVars, channelVars, posts, closed, twice>>

\* The server streams a result to an invocation; the callback stays.
StreamedResult(i) ==
    /\ Hears
    /\ i \in served
    /\ promise' = IF i \in callbacks THEN Settled(i, "rejected") ELSE promise
    /\ UNCHANGED <<kindVars, state, startVars, channelVars, callbacks, posts, served, closed, twice>>

\* The server calls a method of the client.  Its handler may stop the connection, and may
\* throw: an EventSource or a poll takes that for the loss of the channel.
ClientMethod(stops, throws) ==
    LET up == state = "Connected"
        lost == throws /\ used # "WebSockets"
    IN /\ Hears
       /\ stops \/ lost
       /\ Orphan => closed < MaxClosed
       /\ StopConnection((IF lost THEN 1 ELSE 0) + (IF stops /\ up THEN 1 ELSE 0))
       /\ twice' = (twice \/ (stops /\ lost))
       /\ UNCHANGED <<kindVars, startVars>>

-----------------------------------------------------------------------------
Answers == Negotiated \/ Opened \/ Errored \/ HandshakePosted

Next ==
    \/ Start \/ Stop
    \/ Answers
    \/ SocketCloses \/ ChannelLost \/ OrphanOpens \/ OrphanLost
    \/ \E i \in Calls : Invoke(i) \/ Posted(i) \/ Completion(i) \/ StreamedResult(i)
    \/ \E stops, throws \in BOOLEAN : ClientMethod(stops, throws)

Spec == Init /\ [][Next]_vars

-----------------------------------------------------------------------------
(* Properties.                                                             *)

\* Every variable keeps its type.
TypeOK ==
    /\ kind \in Kinds
    /\ used \in Kinds \cup {"none"}
    /\ state \in {"Initial", "Connecting", "Connected", "Disconnected"}
    /\ boot \in {"none", "negotiate", "connect", "done"}
    /\ started \in {"none", "pending", "resolved", "error", "undefined"}
    /\ handshake \in BOOLEAN
    /\ stopping \in BOOLEAN
    /\ transport \in BOOLEAN
    /\ channel \in {"none", "opening", "open", "closing", "closed"}
    /\ attached \in BOOLEAN
    /\ promise \in [Calls -> {"none", "pending", "resolved", "rejected"}]
    /\ callbacks \subseteq Calls
    /\ posts \subseteq Calls
    /\ served \subseteq Calls
    /\ closed \in 0..(MaxClosed + 1)
    /\ twice \in BOOLEAN

\* An invocation waits only on a connection that is up and knows its callback: however it
\* ends, connectionClosed will find it, and nothing waits on a connection that has ended.
PendingIsKept ==
    \A i \in Calls : promise[i] = "pending" => state = "Connected" /\ transport /\ i \in callbacks

\* The EventSource of a start that failed: it goes on by itself, whatever transport had
\* been requested.
LeftBehind == used = "ServerSentEvents" /\ started = "undefined"

\* A connection that has ended, and is not waiting for its start to end, leaves no channel
\* open (stop, stopConnection); only the EventSource of a start that failed goes on.
EndedIsClosed ==
    state = "Disconnected" /\ ~stopping => channel \in {"none", "closed"} \/ LeftBehind

\* The closed callbacks are called at most once, and never if the channel failed to open,
\* whatever ends it first: with the exception of such an EventSource once it opens after
\* all, of whose errors each is reported, and of a handler that stops the connection and
\* throws.
ClosedOnce ==
    /\ ~LeftBehind /\ ~twice => closed =< 1
    /\ started = "undefined" /\ ~attached => closed = 0
=============================================================================
