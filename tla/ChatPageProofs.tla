----------------------------- MODULE ChatPageProofs -----------------------------
(***************************************************************************)
(* Proofs about SignalRClient, alone and in the chat page, for any number  *)
(* of invocations.                                                         *)
(***************************************************************************)
EXTENDS ChatPage, TLAPS

-----------------------------------------------------------------------------
(* The inductive invariant.                                                *)

\* Where startInternal is goes with connectionState and the promise of start.
StartInv ==
    /\ boot = "none" => started \in {"none", "error"} /\ state \in {"Initial", "Disconnected"}
    /\ Booting => started = "pending" /\ ~handshake
    /\ Booting => \/ state = "Connecting" /\ ~stopping
                  \/ state = "Disconnected" /\ stopping
    /\ boot = "done" => state \in {"Connected", "Disconnected"}
    /\ stopping => Booting
    /\ handshake => started = "pending"
    /\ state = "Connected" => started # "undefined"

\* The channel is the one that startInternal opens, then the one the transport keeps
\* while the connection is up.
ChannelInv ==
    /\ boot \in {"none", "negotiate"} => channel = "none" /\ ~transport /\ ~attached
    /\ boot = "connect" => channel = "opening" /\ transport /\ ~attached
    /\ boot = "done" => (transport <=> state = "Connected")
    /\ state = "Connected" => boot = "done" /\ attached /\ channel \in {"open", "closing"}
    /\ boot = "done" /\ ~transport => channel \in {"none", "closed"} \/ LeftBehind
    /\ attached => transport \/ LeftBehind
    /\ channel \in {"open", "closing"} => attached

\* The closed callbacks are called when the connection has ended.
ClosedInv == closed # 0 => boot = "done" /\ state = "Disconnected"

ClientInv ==
    /\ TypeOK
    /\ StartInv
    /\ ChannelInv
    /\ ClosedInv
    /\ PendingIsKept
    /\ EndedIsClosed
    /\ ClosedOnce

-----------------------------------------------------------------------------
(* start.                                                                  *)

\* Start keeps the invariant.
LEMMA StartKeeps ==
    ASSUME ClientInv, Start
    PROVE  ClientInv'
<1> USE ClientAssumption DEF Start, ClientInv, TypeOK, StartInv, ChannelInv, ClosedInv,
      LeftBehind, Booting, kindVars, startVars, channelVars, callVars
<1>1. TypeOK'
  OBVIOUS
<1>2. StartInv' /\ ChannelInv' /\ ClosedInv'
  OBVIOUS
<1>3. PendingIsKept' /\ EndedIsClosed' /\ ClosedOnce'
  BY DEF PendingIsKept, EndedIsClosed, ClosedOnce
<1>4. QED
  BY <1>1, <1>2, <1>3 DEF ClientInv

\* Only transports that the server offers are made.
LEMMA CreatedKinds ==
    ASSUME NEW offered \in Offers
    PROVE  Created(offered) \subseteq Kinds
<1>1. PICK n \in 0..Cardinality(Kinds) : offered \in [1..n -> Kinds]
  BY DEF Offers
<1>2. QED
  BY <1>1 DEF Created

\* A negotiation that fails, or is answered after a stop, keeps it: there is nothing to
\* close yet.
LEMMA NotConnectedKeeps ==
    ASSUME ClientInv, boot = "negotiate",
           \/ StartFails("error") /\ UNCHANGED <<channel, attached>>
           \/ state = "Disconnected" /\ ReturnStopped
    PROVE  ClientInv'
<1> USE ClientAssumption DEF StartFails, ReturnStopped, ClientInv, TypeOK, StartInv,
      ChannelInv, ClosedInv, LeftBehind, Booting, kindVars, startVars, channelVars, callVars
<1>1. TypeOK'
  OBVIOUS
<1>2. StartInv' /\ ChannelInv' /\ ClosedInv'
  OBVIOUS
<1>3. PendingIsKept' /\ EndedIsClosed' /\ ClosedOnce'
  BY DEF PendingIsKept, EndedIsClosed, ClosedOnce
<1>4. QED
  BY <1>1, <1>2, <1>3 DEF ClientInv

\* The transport that was made connects, whichever it is: a poll at once.
LEMMA ConnectKeeps ==
    ASSUME ClientInv, boot = "negotiate", state # "Disconnected", NEW k \in Kinds, Connect(k)
    PROVE  ClientInv'
<1> USE ClientAssumption DEF Connect, Connected, ClientInv, TypeOK, StartInv,
      ChannelInv, ClosedInv, LeftBehind, Booting, kindVars, startVars, channelVars, callVars
<1>1. TypeOK'
  OBVIOUS
<1>2. StartInv' /\ ChannelInv' /\ ClosedInv'
  OBVIOUS
<1>3. PendingIsKept' /\ EndedIsClosed' /\ ClosedOnce'
  BY DEF PendingIsKept, EndedIsClosed, ClosedOnce
<1>4. QED
  BY <1>1, <1>2, <1>3 DEF ClientInv

\* The answer to the negotiation keeps the invariant, whatever the server offers.
LEMMA NegotiatedKeeps ==
    ASSUME ClientInv, Negotiated
    PROVE  ClientInv'
<1>1. CASE \/ StartFails("error") /\ UNCHANGED <<channel, attached>>
           \/ state = "Disconnected" /\ ReturnStopped
  BY <1>1, NotConnectedKeeps DEF Negotiated
<1>2. CASE state # "Disconnected" /\ \E offered \in Offers : \E k \in Created(offered) : Connect(k)
  <2>1. PICK k \in Kinds : Connect(k)
    BY <1>2, CreatedKinds
  <2>2. QED
    BY <1>2, <2>1, ConnectKeeps DEF Negotiated
<1>3. QED
  BY <1>1, <1>2 DEF Negotiated

\* A channel that opens keeps it: the connection is up, or was stopped and is closed.
LEMMA OpenedKeeps ==
    ASSUME ClientInv, Opened
    PROVE  ClientInv'
BY ClientAssumption
   DEF Opened, Connected,
       ClientInv, TypeOK, StartInv, ChannelInv, ClosedInv, PendingIsKept, EndedIsClosed,
       ClosedOnce, LeftBehind, Booting, kindVars, startVars, channelVars, callVars

\* A channel that fails to open keeps it: an EventSource is left behind.
LEMMA ErroredKeeps ==
    ASSUME ClientInv, Errored
    PROVE  ClientInv'
BY ClientAssumption
   DEF Errored, StartFails,
       ClientInv, TypeOK, StartInv, ChannelInv, ClosedInv, PendingIsKept, EndedIsClosed,
       ClosedOnce, LeftBehind, Booting, kindVars, startVars, channelVars, callVars

\* The answer to the handshake keeps it.
LEMMA HandshakePostedKeeps ==
    ASSUME ClientInv, HandshakePosted
    PROVE  ClientInv'
BY ClientAssumption
   DEF HandshakePosted,
       ClientInv, TypeOK, StartInv, ChannelInv, ClosedInv, PendingIsKept, EndedIsClosed,
       ClosedOnce, LeftBehind, Booting, kindVars, startVars, channelVars, callVars

-----------------------------------------------------------------------------
(* stop, and the loss of the channel.                                      *)

\* stopConnection keeps the invariant, wherever it is called from: closed is called if
\* and only if the connection was up, and twice only if that is recorded.
LEMMA StopConnectionKeeps ==
    ASSUME ClientInv, ~Booting, NEW n \in 0..2, StopConnection(n),
           n = 0 <=> state # "Connected",
           twice' \in BOOLEAN, twice => twice', n = 2 => twice',
           UNCHANGED <<kindVars, startVars>>
    PROVE  ClientInv'
<1>1. /\ kind' = kind /\ used' = used /\ boot' = boot /\ started' = started /\ handshake' = handshake
      /\ stopping' = stopping
      /\ state' = "Disconnected" /\ transport' = FALSE
      /\ posts' = posts /\ served' = served
      /\ closed' = closed + n
  BY DEF StopConnection, ConnectionClosed, kindVars, startVars
<1>2. CASE n = 0
  <2>1. /\ state # "Connected" /\ ~(transport /\ attached)
        /\ UNCHANGED <<channel, attached, promise, callbacks>>
    BY <1>2 DEF StopConnection, StopTransport, ConnectionClosed, ClientInv, TypeOK, ChannelInv,
       LeftBehind, Booting, StartInv
  <2>2. closed' = closed
    BY <1>1, <1>2 DEF ClientInv, TypeOK
  <2>3. state \in {"Initial", "Disconnected"} /\ (state = "Initial" => boot = "none")
    BY <2>1 DEF ClientInv, TypeOK, StartInv, Booting
  <2>4. TypeOK'
    BY <1>1, <2>1, <2>2 DEF ClientInv, TypeOK
  <2>5. StartInv' /\ ChannelInv' /\ ClosedInv'
    BY <1>1, <2>1, <2>2, <2>3
       DEF ClientInv, TypeOK, StartInv, ChannelInv, ClosedInv, Booting, LeftBehind
  <2>6. PendingIsKept' /\ ClosedOnce'
    BY <1>1, <2>1, <2>2 DEF ClientInv, PendingIsKept, ClosedOnce, LeftBehind
  <2>7. EndedIsClosed'
    BY <1>1, <2>1, <2>3 DEF ClientInv, TypeOK, EndedIsClosed, ChannelInv, LeftBehind
  <2>8. QED
    BY <2>4, <2>5, <2>6, <2>7 DEF ClientInv
<1>3. CASE n # 0
  <2>1. /\ state = "Connected" /\ transport /\ attached /\ boot = "done" /\ ~stopping
        /\ started # "undefined"
    BY <1>3 DEF ClientInv, TypeOK, StartInv, ChannelInv, ClosedInv, Booting
  <2>2. closed = 0 /\ closed' = n
    BY <1>1, <2>1 DEF ClientInv, ClosedInv
  <2>3. /\ channel' = "closed" /\ attached' = FALSE
        /\ promise' = [i \in Calls |-> IF i \in callbacks /\ promise[i] = "pending"
                                       THEN "rejected" ELSE promise[i]]
        /\ callbacks' = {}
    BY <1>3, <2>1 DEF StopConnection, StopTransport, ConnectionClosed
  <2>4. TypeOK'
    <3>1. closed' \in 0..(MaxClosed + 1)
      BY <2>2, ClientAssumption
    <3>2. promise' \in [Calls -> {"none", "pending", "resolved", "rejected"}]
      BY <2>3 DEF ClientInv, TypeOK
    <3>3. QED
      BY <1>1, <2>3, <3>1, <3>2 DEF ClientInv, TypeOK
  <2>5. StartInv' /\ ChannelInv' /\ ClosedInv'
    BY <1>1, <2>1, <2>3
       DEF ClientInv, TypeOK, StartInv, ChannelInv, ClosedInv, Booting, LeftBehind
  <2>6. PendingIsKept' /\ EndedIsClosed'
    BY <1>1, <2>3 DEF ClientInv, PendingIsKept, EndedIsClosed
  <2>7. ClosedOnce'
    <3>1. started' # "undefined" /\ closed' = n
      BY <1>1, <2>1, <2>2
    <3>2. n = 2 => twice'
      OBVIOUS
    <3>3. QED
      BY <3>1, <3>2 DEF ClosedOnce
  <2>8. QED
    BY <2>4, <2>5, <2>6, <2>7 DEF ClientInv
<1>4. QED
  BY <1>2, <1>3

\* stop keeps the invariant: it waits for the start, or closes what is open.
LEMMA StopKeeps ==
    ASSUME ClientInv, Stop
    PROVE  ClientInv'
<1>1. CASE Booting
  BY <1>1 DEF Stop, kindVars, startVars, channelVars, callVars,
     ClientInv, TypeOK, StartInv, ChannelInv, ClosedInv, PendingIsKept, EndedIsClosed,
     ClosedOnce, LeftBehind, Booting
<1>2. CASE ~Booting
  <2> DEFINE n == IF state = "Connected" THEN 1 ELSE 0
  <2>1. n \in 0..2 /\ n # 2 /\ (n = 0 <=> state # "Connected")
    OBVIOUS
  <2>2. StopConnection(n) /\ UNCHANGED <<kindVars, startVars, twice>>
    BY <1>2 DEF Stop
  <2>3. twice' = twice /\ twice \in BOOLEAN
    BY <2>2 DEF ClientInv, TypeOK
  <2> HIDE DEF n
  <2>4. QED
    BY <1>2, <2>1, <2>2, <2>3, StopConnectionKeeps
<1>3. QED
  BY <1>1, <1>2

\* A socket that closes keeps it.
LEMMA SocketClosesKeeps ==
    ASSUME ClientInv, SocketCloses
    PROVE  ClientInv'
<1> USE ClientAssumption DEF SocketCloses,
      ClientInv, TypeOK, StartInv, ChannelInv, ClosedInv, LeftBehind,
      Booting, kindVars, startVars, channelVars, callVars
<1>1. TypeOK'
  OBVIOUS
<1>2. StartInv' /\ ChannelInv' /\ ClosedInv'
  OBVIOUS
<1>3. PendingIsKept' /\ EndedIsClosed' /\ ClosedOnce'
  BY DEF PendingIsKept, EndedIsClosed, ClosedOnce
<1>4. QED
  BY <1>1, <1>2, <1>3 DEF ClientInv

\* The loss of the channel keeps it: the connection was up, and closed was not called.
LEMMA ChannelLostKeeps ==
    ASSUME ClientInv, ChannelLost
    PROVE  ClientInv'
<1>1. state = "Connected" /\ ~Booting
  BY DEF ChannelLost, ClientInv, TypeOK, ChannelInv, Booting
<1>2. StopConnection(1) /\ UNCHANGED <<kindVars, startVars, twice>>
  BY DEF ChannelLost
<1>3. twice' = twice /\ twice \in BOOLEAN
  BY <1>2 DEF ClientInv, TypeOK
<1>4. QED
  BY <1>1, <1>2, <1>3, StopConnectionKeeps

\* What an EventSource that was left behind does keeps it.
LEMMA OrphanKeeps ==
    ASSUME ClientInv, OrphanOpens \/ OrphanLost
    PROVE  ClientInv'
<1>1. /\ boot \in {"none", "done"} /\ ~transport /\ channel \in {"opening", "open"}
      /\ UNCHANGED <<kind, used, boot, started, handshake, stopping, transport, posts, served, twice>>
      /\ channel' \in {"opening", "open", "closed"} /\ attached' \in BOOLEAN
      /\ channel' = "open" => attached'
  BY DEF OrphanOpens, OrphanLost, Orphan, ConnectionClosed, Booting, kindVars, startVars, callVars,
     ClientInv, TypeOK
<1>2. boot = "done" /\ LeftBehind /\ state = "Disconnected" /\ ~stopping
  BY <1>1 DEF ClientInv, TypeOK, StartInv, ChannelInv, LeftBehind, Booting
<1>3. /\ state' = state
      /\ attached => attached'
      /\ \/ UNCHANGED <<promise, callbacks, closed>>
         \/ /\ promise' = [i \in Calls |-> IF i \in callbacks /\ promise[i] = "pending"
                                          THEN "rejected" ELSE promise[i]]
            /\ callbacks' = {} /\ closed < MaxClosed /\ closed' = closed + 1
            /\ attached'
  BY <1>2 DEF OrphanOpens, OrphanLost, ConnectionClosed, callVars
<1>4. TypeOK'
  <2>1. closed' \in 0..(MaxClosed + 1)
    BY <1>3, ClientAssumption DEF ClientInv, TypeOK
  <2>2. promise' \in [Calls -> {"none", "pending", "resolved", "rejected"}]
    BY <1>3 DEF ClientInv, TypeOK
  <2>3. QED
    BY <1>1, <1>3, <2>1, <2>2 DEF ClientInv, TypeOK
<1>5. StartInv' /\ ChannelInv' /\ ClosedInv'
  BY <1>1, <1>2, <1>3 DEF ClientInv, TypeOK, StartInv, ChannelInv, ClosedInv, LeftBehind, Booting
<1>6. PendingIsKept'
  BY <1>1, <1>2, <1>3 DEF ClientInv, PendingIsKept
<1>7. EndedIsClosed' /\ ClosedOnce'
  BY <1>1, <1>2, <1>3 DEF ClientInv, EndedIsClosed, ClosedOnce, LeftBehind
<1>8. QED
  BY <1>4, <1>5, <1>6, <1>7 DEF ClientInv

-----------------------------------------------------------------------------
(* Invocations.                                                            *)

\* invoke keeps the invariant: who waits has its callback in the map.
LEMMA InvokeKeeps ==
    ASSUME ClientInv, NEW i \in Calls, Invoke(i)
    PROVE  ClientInv'
<1>1. /\ \/ promise' = [promise EXCEPT ![i] = "rejected"]
         \/ promise' = [promise EXCEPT ![i] = "pending"] /\ state = "Connected"
            /\ i \in callbacks'
      /\ callbacks' \in {callbacks, callbacks \cup {i}}
      /\ posts' \in {posts, posts \cup {i}} /\ served' \in {served, served \cup {i}}
      /\ UNCHANGED <<kindVars, state, startVars, channelVars, closed, twice>>
  BY DEF Invoke
<1>2. TypeOK'
  BY <1>1 DEF ClientInv, TypeOK, kindVars, startVars, channelVars
<1>3. StartInv' /\ ChannelInv' /\ ClosedInv'
  BY <1>1 DEF ClientInv, StartInv, ChannelInv, ClosedInv, LeftBehind, Booting, kindVars, startVars,
     channelVars
<1>4. PendingIsKept'
  BY <1>1 DEF ClientInv, TypeOK, StartInv, ChannelInv, PendingIsKept, kindVars, startVars, channelVars
<1>5. EndedIsClosed' /\ ClosedOnce'
  BY <1>1 DEF ClientInv, EndedIsClosed, ClosedOnce, LeftBehind, kindVars, startVars, channelVars
<1>6. QED
  BY <1>2, <1>3, <1>4, <1>5 DEF ClientInv

\* Answers to invocations keep it: who loses its callback is settled.
LEMMA AnsweredKeeps ==
    ASSUME ClientInv, NEW i \in Calls, Posted(i) \/ Completion(i) \/ StreamedResult(i)
    PROVE  ClientInv'
<1> USE ClientAssumption DEF Posted, Completion, StreamedResult, Settled, Hears,
      ClientInv, TypeOK, StartInv, ChannelInv, ClosedInv, LeftBehind,
      Booting, kindVars, startVars, channelVars, callVars
<1>1. TypeOK'
  OBVIOUS
<1>2. StartInv' /\ ChannelInv' /\ ClosedInv'
  OBVIOUS
<1>3. PendingIsKept' /\ EndedIsClosed' /\ ClosedOnce'
  BY DEF PendingIsKept, EndedIsClosed, ClosedOnce
<1>4. QED
  BY <1>1, <1>2, <1>3 DEF ClientInv

\* What an EventSource that was left behind receives keeps it: there is nothing to stop.
LEMMA OrphanMethodKeeps ==
    ASSUME ClientInv, NEW stops \in BOOLEAN, NEW throws \in BOOLEAN,
           ClientMethod(stops, throws), ~transport
    PROVE  ClientInv'
<1>1. Orphan /\ channel = "open"
  BY DEF ClientMethod, Hears
<1>2. boot = "done" /\ LeftBehind /\ state = "Disconnected" /\ ~stopping /\ attached
  BY <1>1 DEF Orphan, ClientInv, TypeOK, StartInv, ChannelInv, LeftBehind, Booting
<1>3. /\ UNCHANGED <<kind, used, boot, started, handshake, stopping, channel, attached, posts,
                     served>>
      /\ state' = state /\ transport' = transport
      /\ twice' \in BOOLEAN
  BY <1>2 DEF ClientMethod, StopConnection, StopTransport, ConnectionClosed, kindVars,
     startVars, ClientInv, TypeOK
<1>4. closed < MaxClosed /\ closed' \in {closed, closed + 1}
  <2>1. \E n \in {0, 1} : closed' = closed + n
    BY <1>2 DEF ClientMethod, StopConnection, ConnectionClosed
  <2>2. QED
    BY <1>1, <2>1 DEF ClientMethod, ClientInv, TypeOK
<1>5. \/ UNCHANGED <<promise, callbacks>>
      \/ /\ promise' = [i \in Calls |-> IF i \in callbacks /\ promise[i] = "pending"
                                        THEN "rejected" ELSE promise[i]]
         /\ callbacks' = {}
  BY DEF ClientMethod, StopConnection, ConnectionClosed
<1>6. TypeOK'
  <2>1. closed' \in 0..(MaxClosed + 1)
    BY <1>4, ClientAssumption DEF ClientInv, TypeOK
  <2>2. promise' \in [Calls -> {"none", "pending", "resolved", "rejected"}]
    BY <1>5 DEF ClientInv, TypeOK
  <2>3. QED
    BY <1>3, <1>5, <2>1, <2>2 DEF ClientInv, TypeOK
<1>7. StartInv' /\ ChannelInv' /\ ClosedInv'
  BY <1>2, <1>3 DEF ClientInv, TypeOK, StartInv, ChannelInv, ClosedInv, LeftBehind, Booting
<1>8. PendingIsKept'
  BY <1>2, <1>3, <1>5 DEF ClientInv, PendingIsKept
<1>9. EndedIsClosed' /\ ClosedOnce'
  BY <1>2, <1>3 DEF EndedIsClosed, ClosedOnce, LeftBehind
<1>10. QED
  BY <1>6, <1>7, <1>8, <1>9 DEF ClientInv

\* A handler of the user that stops the connection or throws keeps it.
LEMMA ClientMethodKeeps ==
    ASSUME ClientInv, NEW stops \in BOOLEAN, NEW throws \in BOOLEAN,
           ClientMethod(stops, throws), transport
    PROVE  ClientInv'
<1> DEFINE lost == throws /\ used # "WebSockets"
           n == (IF lost THEN 1 ELSE 0) + (IF stops /\ state = "Connected" THEN 1 ELSE 0)
<1>1. state = "Connected" /\ ~Booting
  BY DEF ClientMethod, Hears, ClientInv, TypeOK, ChannelInv, Booting
<1>2. /\ StopConnection(n) /\ UNCHANGED <<kindVars, startVars>>
      /\ twice' = (twice \/ (stops /\ lost))
      /\ stops \/ lost
  BY DEF ClientMethod
<1>3. n \in 1..2 /\ (n = 2 => stops /\ lost)
  BY <1>1, <1>2
<1>4. /\ twice' \in BOOLEAN /\ (twice => twice')
      /\ stops /\ lost => twice'
  BY <1>2 DEF ClientInv, TypeOK
<1> HIDE DEF n, lost
<1>5. QED
  BY <1>1, <1>2, <1>3, <1>4, StopConnectionKeeps

-----------------------------------------------------------------------------
(* The theorems.                                                           *)

LEMMA InitClient == Init => ClientInv
<1> SUFFICES ASSUME Init  PROVE ClientInv
  OBVIOUS
<1>1. TypeOK
  <2>1. promise \in [Calls -> {"none", "pending", "resolved", "rejected"}]
    BY DEF Init
  <2>2. closed \in 0..(MaxClosed + 1)
    BY ClientAssumption DEF Init
  <2>3. QED
    BY <2>1, <2>2 DEF Init, TypeOK
<1>2. StartInv /\ ChannelInv /\ ClosedInv
  BY DEF Init, StartInv, ChannelInv, ClosedInv, LeftBehind, Booting
<1>3. PendingIsKept /\ EndedIsClosed /\ ClosedOnce
  BY DEF Init, PendingIsKept, EndedIsClosed, ClosedOnce
<1>4. QED
  BY <1>1, <1>2, <1>3 DEF ClientInv

\* A step that changes nothing keeps the invariant.
LEMMA StutterKeeps ==
    ASSUME ClientInv, UNCHANGED vars
    PROVE  ClientInv'
<1> USE DEF vars, kindVars, startVars, channelVars, callVars
<1>1. TypeOK'
  BY DEF ClientInv, TypeOK
<1>2. StartInv' /\ ChannelInv' /\ ClosedInv'
  BY DEF ClientInv, StartInv, ChannelInv, ClosedInv, LeftBehind, Booting
<1>3. PendingIsKept' /\ EndedIsClosed' /\ ClosedOnce'
  BY DEF ClientInv, PendingIsKept, EndedIsClosed, ClosedOnce, LeftBehind
<1>4. QED
  BY <1>1, <1>2, <1>3 DEF ClientInv

LEMMA NextClient == ClientInv /\ [Next]_vars => ClientInv'
<1> SUFFICES ASSUME ClientInv, [Next]_vars  PROVE ClientInv'
  OBVIOUS
<1>1. CASE UNCHANGED vars
  BY <1>1, StutterKeeps
<1>2. CASE Next
  BY <1>2, StartKeeps, StopKeeps, NegotiatedKeeps, OpenedKeeps, ErroredKeeps,
     HandshakePostedKeeps, SocketClosesKeeps, ChannelLostKeeps, OrphanKeeps, InvokeKeeps,
     AnsweredKeeps, ClientMethodKeeps, OrphanMethodKeeps DEF Next, Answers
<1>3. QED
  BY <1>1, <1>2

\* The invariant behind the others: how the states of HubConnection, HttpConnection and
\* the transport depend on each other.
THEOREM ClientInvariant == Spec => []ClientInv
BY InitClient, NextClient, PTL DEF Spec

\* A new connection is in an initial state.
LEMMA NewConnectionKeeps ==
    ASSUME NEW k \in Kinds, NewConnection(k)
    PROVE  ClientInv'
<1>1. TypeOK'
  <2>1. promise' \in [Calls -> {"none", "pending", "resolved", "rejected"}]
    BY DEF NewConnection
  <2>2. closed' \in 0..(MaxClosed + 1)
    BY ClientAssumption DEF NewConnection
  <2>3. QED
    BY <2>1, <2>2 DEF NewConnection, TypeOK
<1>2. StartInv' /\ ChannelInv' /\ ClosedInv'
  BY DEF NewConnection, StartInv, ChannelInv, ClosedInv, LeftBehind, Booting
<1>3. PendingIsKept' /\ EndedIsClosed' /\ ClosedOnce'
  BY DEF NewConnection, PendingIsKept, EndedIsClosed, ClosedOnce
<1>4. QED
  BY <1>1, <1>2, <1>3 DEF ClientInv

\* It holds as well of each connection that the page makes.
THEOREM PageInvariant == PageSpec => []ClientInv
<1>1. PageInit => ClientInv
  BY InitClient DEF PageInit
<1>2. ClientInv /\ [PageNext]_pageVars => ClientInv'
  <2> SUFFICES ASSUME ClientInv, [PageNext]_pageVars  PROVE ClientInv'
    OBVIOUS
  <2>1. CASE Client
    BY <2>1, NextClient DEF Client
  <2>2. CASE Resolve \/ Reject \/ UNCHANGED pageVars
    BY <2>2, StutterKeeps DEF Resolve, Reject, pageVars
  <2>3. CASE FallBack
    <3>1. PICK k \in NextTransport(kind) : NewConnection(k)
      BY <2>3 DEF FallBack
    <3>2. k \in Kinds
      <4>1. PICK j \in {kind} \ {"LongPolling"} : k = After[j]
        BY <3>1 DEF NextTransport
      <4>2. j \in Kinds \ {"LongPolling"}
        BY <4>1 DEF ClientInv, TypeOK
      <4>3. k \in {"ServerSentEvents", "LongPolling"}
        BY <4>1, <4>2 DEF After
      <4>4. QED
        BY <4>3 DEF Kinds
    <3>3. QED
      BY <3>1, <3>2, NewConnectionKeeps
  <2>4. QED
    BY <2>1, <2>2, <2>3 DEF PageNext
<1>3. QED
  BY <1>1, <1>2, PTL DEF PageSpec

\* Every variable of the client keeps its type.
THEOREM ClientTypes == PageSpec => []TypeOK
<1>1. ClientInv => TypeOK
  BY DEF ClientInv
<1>2. QED
  BY <1>1, PageInvariant, PTL

\* No invocation waits on a connection that has ended, or that does not know it.
THEOREM InvocationsAreSettled == PageSpec => []PendingIsKept
<1>1. ClientInv => PendingIsKept
  BY DEF ClientInv
<1>2. QED
  BY <1>1, PageInvariant, PTL

\* A connection that has ended leaves no channel open, but the EventSource of a start
\* that failed.
THEOREM NoChannelIsLeaked == PageSpec => []EndedIsClosed
<1>1. ClientInv => EndedIsClosed
  BY DEF ClientInv
<1>2. QED
  BY <1>1, PageInvariant, PTL

\* The closed callbacks are called once at most, and not at all if the channel failed to
\* open, with the exceptions the property names.
THEOREM ClosedIsCalledOnce == PageSpec => []ClosedOnce
<1>1. ClientInv => ClosedOnce
  BY DEF ClientInv
<1>2. QED
  BY <1>1, PageInvariant, PTL
================================================================================
