# Verification of vivego

TLA+ models of vivego, a set of .NET libraries around publish/subscribe, actors and
clustering, with TLC configurations that check them on small instances and proofs that TLAPS
checks for every instance. Paths below are relative to the project folder `src/src/` of the
repository.

- [The system](#the-system): its parts, their state, and what makes them correct
- [The modules](#the-modules) and how they correspond to the code
- [The runs](#the-runs): bounds, fairness, results
- [The proofs](#the-proofs)
- [What is assumed, and what is left out](#what-is-assumed-and-what-is-left-out)
- [Plan](#plan)

## The system

| Part | State | Operations | Talks to | Hard behaviour | Correct when |
|---|---|---|---|---|---|
| Subscription table, `vivego.PublishSubscribe/Cache` | groups of writers; a cache of lookups by topic | `Add`, `Remove`, `Lookup`, `GetAll` | called by the routers | a second, independent cache sits on top of it | a lookup answers what the table holds now |
| Proto.Actor router, `vivego.PublishSubscribe.ProtoActor/PublishSubscribeRouterActor.cs` | table, route cache, watches | handlers of `Message`, `ProtoSubscription`, `ClusterTopologyEvent`, `Terminated` | observers, routers of other nodes, cluster provider | stops that overtake subscriptions, its own announcements, broken connections, full mailboxes | each message goes to the writers entitled to it; nothing stopped is kept, nothing live is lost |
| Proto.Actor client, `vivego.PublishSubscribe.ProtoActor/PublishSubscribe.cs` | the observers it spawned | `Publish`, `Observe`, `Dispose` | tells the router of its node | `Publish` right after `Observe`, disposal while messages are queued | who subscribed before a message receives it, in order |
| gRPC server and client, `vivego.PublishSubscribe.Grpc` | table and cache shared by server threads; the streams of a client | `Publish`, `Listen`, `Observe` | each other, over streams | unsynchronised dictionaries, streams that end or are written to twice, `CombineLatest` over a changing set of servers | an old route survives by a race only, and a stream that ended is out of the table |
| Topic filters, `vivego.PublishSubscribe/Topic` | none | `Matches` | tables | wildcards at the ends of a filter | matches what the MQTT rules say |
| Broker, `vivego.ProtoBroker` | subscriptions, publishers, members | `Subscribe`, `Unsubscribe`, `Publish`, member events | actors of every member | a request to every member that nobody answers | a publication reaches every subscription |
| Cluster membership, `vivego.Proto.Actor.core/ClusterProvider` | watch list, watches | `Node`, `Terminated`, `Cleanup` | the membership actors of other nodes; raises `ClusterTopologyEvent` | restart before a death is noticed, gossip about the dead, broken connections | whoever is listed as alive is watched; a death settles; members are introduced |
| Distributed cache, `vivego.PublishSubscribe` clients of `IDistributedCache` | replica, completion sources by key | `Get`, `Set`, `Remove` | publish/subscribe | late and empty answers, two gets of a key that share a source | a get returns, with something a replica holds |
| WAMP backplane, `vivego.WampSharp.PublishSubscribe` | forwarders by topic, a flag that suppresses forwarding | topic created/removed, event, replay, dispose | publish/subscribe, the realm | one flag for all topics and threads | a client's message is forwarded once, a replayed one never |
| SignalR and CacheManager backplanes | groups, connections | send, add to and remove from a group | publish/subscribe | a message to a connection of another node | each connection gets it once |
| Orleans stream provider, `vivego.Orleans.Providers/Stream` | receivers by queue, a receiver's queue | create receiver, get messages, shut down | publish/subscribe | receivers created concurrently | one receiver for a queue, no message lost |
| Discovery, `vivego.Discovery.*` | replies of the poll in progress | poll, reply | the network | late replies, a socket that cannot be bound | a server that answers is found |
| Disposables, `vivego.core` | disposed flag, registration, inner disposable | `Dispose`, assignment | everything | disposal that races with assignment | the inner disposable is disposed once |
| Hosting, `vivigo.Hosting` | registered factories, built host | configure, build, run, dispose | applications | order of calls | a host is built once |
| SignalR client and chat page, `SignalRSamples` | connection state, transport, channel, invocations; the transport in use | `start`, `stop`, `invoke`, events of the channel | server, browser | a stop during the start, a channel that fails late, handlers that stop and throw | nothing waits for ever, what ended is closed, closed is raised once |
| Text search, user agents, serializers, samples, playgrounds | | | | | not behaviour of this code |

Parts meet at publish/subscribe: membership raises the topology events that make routers
exchange their tables; the distributed cache, the backplanes and the stream provider are its
clients. It comes first for that reason. `Membership` models where the topology events come
from that `PubSubRouter` takes, and `DistributedCache` and `WampBackplane` use of
publish/subscribe what `PubSubRouter` is shown to provide. `PROJECT.json` lists the hazards
of each part at the line where they bite.

## The modules

| Module | Models |
|---|---|
| `SubscriptionLookup` | the table and the choice of recipients, as operators on sets |
| `PubSubRouter` | routers, caches, observers, clients, connections and topology events |
| `PubSubPromise` | what a router promises, without caches, mailboxes or connections |
| `PubSubRouterProofs` | theorems about `PubSubRouter`: types, caches, stops, forgetting |
| `PubSubPromiseProofs` | `PubSubRouter` implements `PubSubPromise` |
| `PubSubDeliveryProofs` | `PubSubRouter` loses nothing that is due, and keeps the order of messages |
| `GrpcServerRouter` | the gRPC server, thread by thread over the shared table |
| `Membership` | watch lists, gossip, death, restart and clean-up |
| `DistributedCache` | replicas, and `GetAsync` step by step |
| `WampBackplane` | forwarders, replays and the flag between them |
| `SignalRClient` | the JavaScript hub connection and its transports |
| `ChatPage` | the page that tries one transport after the other, over `SignalRClient` |
| `GrpcServerRouterProofs`, `MembershipProofs`, `DistributedCacheProofs`, `WampBackplaneProofs`, `ChatPageProofs` | theorems about each of these; `ChatPageProofs` about `SignalRClient` on its own and in the page |
| `MC...` | values of the constants of each for TLC |

### SubscriptionLookup

`SubscriptionWriterLookup` keeps a dictionary of groups, each a dictionary of writers. An
entry is identified by its group and writer, so the table is a *set* of entries `[writer,
pattern, group, hashBy]`, and `Taken` is what `TryAdd` refuses. `Classes(table, t)` is what
`Lookup` returns: the matching writers of each group, separately for each value of `HashBy`.
`RoutesOf` is the choice `PublishSubscribeRouterActor.Lookup` makes for each class: writer
by writer when the class has one writer or when it has neither group nor hash, otherwise one
group router that tells one member: any member for round robin, and for the consistent hash
the member of `RingNode`, always the same because the code asks the ring for the node of the
empty string. `Matches`, a constant relation, stands for the topic filter.

### PubSubRouter

| State | Code |
|---|---|
| `db`, `lookupCache` | the `SubscriptionWriterLookup` and `SubscriptionWriterLookupCache` of each node |
| `routeCache` | `PublishSubscribeRouterActor._lookupCache` |
| `mailbox`, `watched`, `terminated` | the router's user mailbox, its watches and its system messages |
| `observer`, `sub`, `inbox`, `received` | the actor spawned by `Observe`, its subscription, its mailbox, and the calls to `OnNext` |
| `wire` | what a node has sent to another and has not been delivered |
| `due`, `routed` | history: who is owed a message, whom a message was told to |

Each handler is one action, since an actor runs one handler at a time and none of these
awaits: `HandleMessage`, `HandleSubscription`, `HandleTopology`, `HandleTerminated`.
`Publish`, `Observe`, `Unsubscribe`, `StopRouter` are the client's operations, `OnNext` and
`ObserverStops` the observer actor's steps. `TopologyChanged`, `DeliverSub`, `DeliverTold`
and `Disconnect` are the environment.

`Terminated` is a system message: `HandleTerminated` may take place before the user messages
that were told earlier. That is the reordering the router has to live with, since a
subscription may be handled (again) after its observer has gone. A topology event makes a
router tell every subscription it knows to the routers of all members the event names, and
so to itself when it names the node itself.

### PubSubPromise

Per node a table with at most one subscription of a writer; each message is told once, to
all matching plain subscribers and to exactly one member of each other class, as the table
entitles them *at that moment*. `PubSubRouter` implements it with `table <- db` (property
`PromiseKept`): the caches never show.

| Property of `PubSubRouter` | Kind | Says |
|---|---|---|
| `TypeOK` | invariant | types |
| `CachesCoherent` | invariant | each cache holds nothing, or what the table would answer now |
| `StopsAreNoticed` | invariant | every writer in a table is watched, and one that stopped has a `Terminated` on its way |
| `SubscribedBeforeGets` | invariant | a plain subscriber that subscribed before a message was published on its node has it, or it is still on its way |
| `PublishOrder` | invariant | messages published on one node are seen in order, and once |
| `OnlyGoneForgotten` | action property | a router forgets only observers that stopped, or of a node whose connection broke |
| `PromiseKept` | refinement | see `PubSubPromise` |
| `StoppedForgotten` | liveness | in the end no running router knows a stopped observer |
| `OwedReceived` | liveness | what `SubscribedBeforeGets` keeps on its way arrives |
| `TopologySpreads` | liveness | after a topology event the members named come to know the table |

### GrpcServerRouter

`PublishSubscribeServerRouter` runs every `Listen` and `Publish` call on a thread of its own
over one `SubscriptionWriterLookupCache`, without a lock. The model uses the table of
`SubscriptionLookup` again, but each call of a dictionary is a step here.

| State | Code |
|---|---|
| `groups`, `table` | the keys and the entries of `_db` |
| `lookupCache` | `_lookupCache`, whose absent keys are `Uncached` |
| `listen`, `sub` | where the `Listen` call of each stream is, and its subscription |
| `cancelled`, `disposed` | the two tasks `Listen` waits for |
| `publish`, `writes` | where each `Publish` call is, its route and enumeration, the writes it awaits |
| `broken` | the calls whose enumeration of `_db` will throw |
| `raced` | history: topics whose route was found while the table changed |

`Listen` runs `Listen`, `AddGroup`, `Insert`, `ClearAdded`, waits, and runs `Remove`,
`TakeOut`, `ClearRemoved`; `Publish` runs `Receive`, `Lookup`, `Cache`, `Write`, `WhenAll`.
An enumeration is not one step: it yields for sure what is in the table all the time, and
perhaps what comes or goes meanwhile (`sure`, `maybe`). `Dictionary.Add` of a key that is
there throws, as does an enumeration after a new group. gRPC refuses a write to a call that
ended, and a second write while one is pending; the rest of that route is then not written
to.

| Property | Kind | Says |
|---|---|---|
| `StaleOnlyByRace` | invariant | an old route stays in the cache for good only if its lookup overlapped with a change of the table |
| `ReachesListeners` | invariant | a `Publish` that goes on has written to everybody who was listening and has not left, but for such a route |
| `EndedIsGone` | invariant | a stream that ended is out of the table, unless a new group came while it was being removed |

Each exception names a defect the missing lock does cause, and TLC reaches all of them: a
cache stale for good, and an ended stream that stays in the table and makes the `Publish`
calls of its topic fail from then on.

### Membership

| State | Code |
|---|---|
| `up`, `member` | the process of an address, and the member id it drew when it started |
| `watchList`, `watched` | `ClusterProviderIsAliveActor._watchList`, and the PIDs the actor watches |
| `terminated` | `Terminated` notices that wait |
| `topology` | the last `ClusterTopologyEvent` published |
| `wire`, `broken` | what was told and is not handled, connections that broke unnoticed |

`HandleNode`, `HandleTerminated` and `Cleanup` are the cases of `ReceiveAsync`, `Announce`
is a seeds event of `SeededLocalClusterProvider`. `Start`, `Crash`, `Disconnect` and
`EndpointTerminated` are the environment. A process that starts again has a new member id
but the PID of the one before, and `Node` messages about it may still be on their way from
nodes that have not noticed. `Cleanup` removes any of the dead, since the cut-off is a
matter of time.

| Property | Kind | Says |
|---|---|---|
| `AliveIsWatched` | invariant | a node watches, or has the notice of, exactly those it lists as alive |
| `TopologyIsCurrent` | invariant | the last event published says what the watch list says |
| `Introduced` | invariant | without faults, two members that a third knows are introduced |
| `DeathSettles` | liveness | a member that dies for good is in the end dead for all, for good, in spite of gossip |
| `EverybodyTold` | liveness, refuted | "Tell everybody about the change" |

### DistributedCache

| State | Code |
|---|---|
| `memory` | the `memoryCache` of each node |
| `sources`, `result` | `_completionSources`, and what each source was completed with |
| `pc`, `token`, `source`, `returned` | each call of `GetAsync` |
| `link` | messages published and not yet handled, by publisher, node and topic |

`Set` and `Remove` publish; `Apply`, `HandleGet` and `HandleSelf` are the four observers;
`Begin`, `Look`, `Add`, `Ask` and `Resume` are the steps of `GetAsync`, which several
threads run on the same dictionary. The observers of different topics are different actors,
so nothing orders one topic with another. A token that can be cancelled, and is not, makes
`GetAsync` throw after it has asked (`Task.FromCanceled`), and leaves its source behind for
the next `Get`.

| Property | Kind | Says |
|---|---|---|
| `OnlyCleanupAbandons` | action property | a waiting `Get` loses its source only to the clean-up of another that was answered or cancelled |
| `AloneIsFresh` | invariant | a `Get` that began with no request under way returns what a replica held since |
| `GetReturns` | liveness | a `Get` without a token returns, or is abandoned in that way |

That a `Get` *can* be abandoned is a defect: `TryRemove` after the wait takes whatever
source the key has by then.

### WampBackplane

| State | Code |
|---|---|
| `topic`, `life`, `forwarder` | the topics of a realm, how often they were created, their raw subscriber |
| `kept` | `disposables`: the creation whose subscription is in it |
| `backplane` | how far the disposal of the backplane has come |
| `flag` | `disableInternalPublishAtomicBoolean`, one for a realm |
| `event`, `net` | clients' messages, and forwarded ones on their way |
| `replay`, `replaying` | the message each thread replays, and where it is |

`TopicCreated`, `KeepSubscription`, `TopicRemoved`, `Detach` and `Sweep` are the life of a
topic and of the backplane; `Event` and `Publish` the forwarder; `Own`, `FalseToTrue`,
`Replay` and `TrueToFalse` the observer of the other nodes' messages. A *lane* is a thread
`OnNext` runs on: one with the Proto.Actor implementation, one for each server with gRPC.

| Property | Kind | Says |
|---|---|---|
| `EchoOnlyWhenReplaysMeet` | action property | a replayed message is forwarded again only if another replay of that node ended meanwhile |
| `KeptOnlyInReplay` | action property | a client's message is kept back only during a replay |
| `DisposedIsSilent` | invariant | a disposed backplane has no forwarder left, but of a topic created a second time or during the disposal |
| `ForwardedIsReplayed` | liveness | what is forwarded is replayed everywhere |

With one lane a node `met` stays empty and there is no echo (`OneThreadNoEcho`). With two TLC finds one, and in
both cases a client's message may be kept back during a replay of another: one flag for all
threads and topics.

### SignalRClient and ChatPage

| State | Code |
|---|---|
| `kind`, `used` | the transport requested, and the one `createTransport` made |
| `state`, `boot`, `started` | `connectionState`, where `startInternal` is, the promise of `start` |
| `handshake`, `stopping` | the POST of the handshake, a `stop` that awaits `startPromise` |
| `transport`, `channel`, `attached` | the transport, what it opened, and whether it has kept it |
| `promise`, `callbacks`, `posts`, `served` | invocations, the map of callbacks, POSTs not answered, answers not given |
| `closed` | how often the closed callbacks were called |
| `page`, `tried` | the promise of `startConnection`, the transports tried |

An action is an event of the browser with all the promises it settles, since those run
before the next event: `Start`, `Stop`, `Invoke` are calls; `Negotiated`, `Opened`,
`Errored`, `HandshakePosted`, `Posted` answers; `ChannelLost`, `OrphanOpens`, `OrphanLost`,
`SocketCloses`, `Completion`, `StreamedResult` and `ClientMethod` events of the channel. The
answer to the negotiation offers transports in some order. `createTransport` makes the one
requested if it is among them, except that a request for WebSockets counts as none, since
its number is 0: the first that is offered is made, whatever it is (`Created`). So the first
attempt of the page may well run over an `EventSource` or a poll. An
`EventSource` whose start failed connects again by itself, and nobody holds it: an *orphan*.
What it receives is handled all the same.
`ChatPage` composes the client with the page, that reacts to its promise (`Resolve`,
`FallBack`, `Reject`) before the next event.

| Property | Kind | Says |
|---|---|---|
| `PendingIsKept` | invariant | an invocation waits only on a connection that is up and knows it |
| `EndedIsClosed` | invariant | an ended connection leaves no channel open, but an orphan |
| `ClosedOnce` | invariant | closed is raised once at most, and not if the channel failed to open, but by an orphan or a handler that stops and throws |
| `PageSettles` | liveness | the promise of the page is settled |
| `AllTransportsTried` | invariant, refuted | the page is not rejected before all transports were tried |

---

Operators whose comment begins with "Fault" are mutations used to confirm that a property
notices a plausible bug; no specification refers to them.

## The runs

| Run | Instance | Shows |
|---|---|---|
| `node` | 1 node, 2 observers of every kind, 2 topics, 2 messages, 1 topology event | all safety properties: caches stale over two topics, groups that shrink, a router that announces to itself |
| `group` | 1 node, 3 observers of one group, 2 messages | the group split by `HashBy`, growing and shrinking while routes to it are cached: a class of one is routed differently from a class of two |
| `cluster` | 2 nodes, an observer each, 1 message, 1 topology event, 1 break | announcements that arrive late or are lost, `Terminated` for observers of another node |
| `spread` | 2 nodes, 2 topology events, 1 break, fair | the liveness of forgetting and of announcements |
| `live` | 1 node, 2 plain observers, 2 messages, 1 topology event, fair | the liveness of forgetting and of delivery |
| `grpc` | 2 streams in one group or in two, 2 `Publish` calls of a message each, 1 topic; cancellation and disposal at any time | what threads without a lock do to routes and to the clean-up, and nothing else |
| `members` | 3 nodes, 1 seed, 1 announcement a process, 1 fault: a crash of one node or a broken connection | watches, topology, introductions and deaths |
| `told` | 2 nodes, no fault | refutes `EverybodyTold` |
| `dcache` | 2 nodes, 2 gets of a key at one, 1 change by the other, every kind of token | sources shared, raced for and left behind |
| `wamp` | 2 realms, 3 messages of a topic that is created twice, 2 lanes at one realm | replays that meet, events during replays, disposal |
| `hub` | 1 page, 3 invocations, 3 transports one after the other | every end of a connection |
| `fallback` | 1 page, no invocation | refutes `AllTransportsTried` |

Bounds. Observers are spawned once, so their number bounds subscriptions; messages, topology
events and breaks are counted up to `MaxPublished`, `MaxTopologyEvents`, `MaxDisconnects`.
Two writers tell a class of one from a class of two, three add a group that shrinks and is
still a group; two topics are needed since caches are keyed by topic and filled
independently; two messages for order and for a second use of a cached route; two topology
events bring back an observer that was forgotten between them. A bounded run comes to rest
when the bounds are used up, so deadlock is not checked.

The other instances are the smallest where their hazards meet. A race on the table takes two
threads of which one changes it (`grpc`: streams of one group race to add the group, of two
groups make an enumeration throw, and a second `Publish` meets the first at the cache and at
a stream). Gossip about the dead takes three nodes: one that died, one that has noticed, one
that has not. A source is shared by two gets, and abandoned by the second. An echo takes two
messages replayed in two lanes, and one published at the other realm in the meantime; a
subscription that is not kept takes a topic's second life. Invocations differ only in what
became of them, of which three may be pending at once. `MaxClosed` bounds how often an
orphan reports errors: twice tells "once" from "more than once".

`grpc` uses the symmetry of the `Publish` calls. It checks invariants only, for which a
symmetric set is sound; nothing in `GrpcServerRouter` chooses among or orders publishers.

`MailboxCapacity` is large enough that a router can announce its table to itself: with less
room `HandleTopology` is disabled for ever, as the code then blocks in its own bounded
mailbox (hazard at `PublishSubscribeRouterActor.cs:131`).

Fairness is weak everywhere. In `PubSubRouter` it is on the steps of actors and connections
(`RouterStep`, `ObserverStep`, `Delivery`): the actor library schedules an actor that has
mail, and an unbroken connection delivers. Clients, membership events, breaks and the
stopping of a router are under no obligation. Elsewhere it is:

| Module | Fair | Because | Not fair |
|---|---|---|---|
| `Membership` | the first announcement of a process, handlers, `EndpointTerminated`, `Cleanup` | the provider announces when it starts; actors are scheduled; the remoting layer gives up a dead endpoint; a timer | starts, crashes, breaks |
| `DistributedCache` | steps of a `Get` that began, the observers of the get and self topics | threads run; publish/subscribe delivers to running observers | `Set`, `Remove`, their observers, new gets |
| `WampBackplane` | `Publish` of a raised event, delivery of what a client published, lanes | as above | clients, topics, disposal, echoes |
| `ChatPage` | the page's reactions, `Start`, answers of the browser | the event loop; a request ends in an answer or an error, an opening channel opens or fails | the server, the user, losses of the channel |

`GrpcServerRouter` and `SignalRClient` alone state safety only.

The two violations are disagreements of the code with what the repository says of it.

- `told`: where `ClusterProviderIsAliveActor` handles a new node, the comment at line 69 says "Tell everybody about the change";
  the code tells the newcomer of the others and nobody of the newcomer. A node that
  announces itself to its seed before the seed has handled its own announcement never
  learns of the seed.
- `fallback`: the comment in `index.html:71-74` says every transport is tried. A socket that
  cannot be opened rejects with no error at all, the handler reads `error.message` of it
  (line 88), throws, and no other transport is tried. So does an `EventSource`, also where
  it was made for a request for WebSockets. (`tried` counts requests, as the page does.)

## The proofs

The theorems state every invariant and action property that the passing runs check, for all
values of the constants: any number of nodes, writers, calls, messages and faults, any
filter, seeds and capacities. They assume only what each module's `ASSUME` says, which is
what the constants are for; of the order of the ring no more than that it gives every writer
a number, and nowhere that a set is finite.

Most properties are not inductive. Each component therefore has one invariant, a
conjunction of named parts, of which the properties are parts or consequences. Its proof has
a lemma for each action, and under it a step for each part the action can disturb.

### Proto.Actor router

Three modules, each on top of the one before.

| Theorem | Statement | Argument |
|---|---|---|
| `TypeCorrect`, `TypeInvariant` | `Spec => []TypeOK`, and every table is finite | `TypeInv` is inductive. Finiteness is needed by `HandleTopology`, which announces the table in some order, `Orders(db[n])`, of length `Cardinality(db[n])` |
| `CachesAreCoherent` | `Spec => []CachesCoherent` | inductive with `TypeInv`: coherent caches answer what the table answers (`CachesAnswer`), so `HandleMessage` stores nothing else; the steps that change a table clear both caches (`CoherentCleared`) |
| `StopsNoticed` | `Spec => []StopsAreNoticed` | inductive with `TypeInv`, node by node (`Noticed`) |
| `TerminatedIsJustified` | a router is told of a termination only for a reason | inductive: reasons last (`GoneStays`) and no notice is without one (`NewlyTerminatedGone`) |
| `OnlyTheGoneForgotten` | `Spec => OnlyGoneForgotten` | entries are removed only for a notice (`ForgottenTerminated`), and notices are justified |
| `SubscriptionsUnaltered` | `Spec => []OneSubscription` | every subscription in a mailbox, on a connection or in a table is `Genuine`: what its spawned observer asked for. Inductive with `TypeInv`; who sends a packet sends one that was genuine before (`NewPacket`), and who adds an entry takes it from a packet (`NewEntry`) |
| `MessagesToldOnce` | `Spec => []OneMessage` | inductive: `Publish` takes a number nobody used, a handled message leaves the mailbox when it is recorded as told, and no other step adds one |
| `RouterKeepsPromise` | `Spec => PromiseKept` | step by step under the three invariants above: coherent caches turn the cached route into one of the table (`CachesAreCoherent`), the recipients of such a route are those the promise allows (`SelectionsServe`, with `RingNodeMember` for the consistent hash), the message was not told before (`MessagesToldOnce`), and a second subscription of a writer is the first (`SubscriptionsUnaltered`) |
| `SubscribersGetWhatFollows` | `Spec => []SubscribedBeforeGets` | the property is not inductive: a message handled before the subscription would be lost. The strengthening says that a running observer's subscription is in the table of its node, or in its mailbox in front of each message due to it (`Requested`, `AheadAt`), and stays there since a router forgets a running observer of its own node for no reason (`TerminatedIsJustified`) |
| `MessagesKeepTheirOrder` | `Spec => []PublishOrder` | the property speaks of what was received, and `FlowInv` of all a message passes: mailbox, connection, inbox, `OnNext`. Each queue is ascending (`QueuesInOrder`); what is further on was published before what is further back (`StagesInOrder`); and a message is told on the connection to the home of those it is for (`ToldAtHome`), so an observer has one such path from each node |

### The other components

| Theorem | Statement | Argument |
|---|---|---|
| `ServerInvariant`, `ServerTypes` | `Spec => []ServerInv` of `GrpcServerRouter` | inductive; its parts are named below |
| `CacheIsStaleOnlyByRace` | `Spec => []StaleOnlyByRace` | a running enumeration encloses the table: what it yields for sure is there, and what is there it may yield (`Enclosed`). Where the two agree it caches the table, otherwise the topic is marked `raced`; and a `Listen` or a `Remove` that changes the table afterwards still has its own clearing of the cache to do |
| `ListenersAreReached` | `Spec => []ReachesListeners` | who is owed a message and still listens is among what the enumeration yields (`Enclosed`, `DueListened`), or in the cached route (`CachedCovers`: who begins to listen has cleared the cache), and then still to be written to, being written to, or told (`OwedIsWritten`) |
| `EndedIsOut` | `Spec => []EndedIsGone` | `OwnEntries`: a writer's entry is in the table from its `Insert` to its `TakeOut` and is its own, so nobody else's `Remove` takes it out or leaves it in |
| `MembershipInvariant`, `MembershipTypes` | `Spec => []MembershipInv` of `Membership` | inductive; parts below |
| `TheLivingAreWatched` | `Spec => []AliveIsWatched` | inductive as `Watching`, with the fact that a process which starts knows nobody (`DownIsBlank`) |
| `TopologyIsPublished` | `Spec => []TopologyIsCurrent` | each handler that changes the list publishes it |
| `MembersAreIntroduced` | `Spec => []Introduced` | without faults nobody is told of or watches a member that does not run, and no connection is broken (`Faultless`): then the introduction a node sends in the step that lists a newcomer stays on its way until it is handled. It is sent for each *listed* member, in an order that exists since lists are finite (`FiniteLists`) |
| `CacheInvariant`, `CacheTypes` | `Spec => []CacheInv` of `DistributedCache` | inductive; parts below |
| `AloneGetsAreFresh` | `Spec => []AloneIsFresh` | what can complete a `Get` that began alone is fresh at every stage: in a replica (`HeldIsNoted`), in an answer on its way (`AnswersAreFresh`), in a source (`ResultsAreFresh`). The source it shares is of a `Get` of its node and key (`SourcesAreShared`), and those in a dictionary are not completed (`SourcesAreOpen`), so no result from before can be met |
| `OnlyGetsAbandonGets` | `Spec => OnlyCleanupAbandons` | from the same invariant: of all steps only the removal after a wait takes away a source that is not completed, and a `Get` that was answered has no open source of its own, so the one it takes is another's |
| `BackplaneInvariant`, `BackplaneTypes` | `Spec => []BackplaneInv` of `WampBackplane` | inductive; parts below |
| `DisposedBackplaneIsSilent` | `Spec => []DisposedIsSilent` | a topic created only once that is forwarded has its subscription kept, so the disposal finds it; it is kept for the first creation to come to its end, and not for a later one (`SubscriptionsKept`) |
| `NoEchoUnlessReplaysMeet`, `KeptBackOnlyInReplay` | action properties of `WampBackplane` | the flag is set only while something is replayed, and a replay finds it set unless another ended meanwhile (`FlagIsShared`) |
| `ClientInvariant`, `PageInvariant`, `ClientTypes` | `Spec => []ClientInv` of `SignalRClient`, `PageSpec => []ClientInv` of `ChatPage` | inductive; the page's own steps make a new connection or leave it alone |
| `OneThreadNoEcho` | with one lane a node, `Spec => []NoEcho`: what is forwarded comes from the node of its client | then no replay ends during another (`NoReplaysMeet`), and the flag is set whenever a replay could be forwarded |
| `InvocationsAreSettled` | `PageSpec => []PendingIsKept` | the steps that end a connection settle its invocations, and what still arrives of a start cannot bring one up that has ended (`StartInv`) |
| `NoChannelIsLeaked` | `PageSpec => []EndedIsClosed` | the channel is the one `startInternal` opens, then the one the transport keeps, and afterwards closed or left to itself (`ChannelInv`), whichever transport the answer to the negotiation chose (`NegotiatedKeeps`) |
| `ClosedIsCalledOnce` | `PageSpec => []ClosedOnce` | the callbacks are called on the way to `Disconnected`, which nothing leaves (`ClosedInv`); afterwards only an `EventSource` left behind that opened can call them (`OrphanKeeps`, `OrphanMethodKeeps`) |

TLC finds each of these invariants to hold on the instances above. What the proofs add is
that no bound hides a counterexample: the exceptions that the properties of
`GrpcServerRouter`, `WampBackplane` and `SignalRClient` name are the only ones there are.

`ServerAssumption` says that `Publish` and `Listen` calls are different objects. TLC's
instances satisfied that all along; the proof needs it said. `ReachesListeners` holds also
of a stream that was cancelled and has not noticed yet, and says so since the proof showed it.

### Only model-checked

- Liveness: `StoppedForgotten`, `OwedReceived`, `TopologySpreads`, `DeathSettles`,
  `GetReturns`, `ForwardedIsReplayed`, `PageSettles`. Reasoning from fairness, and about
  `ENABLED`, is beyond the prover.
- That the exceptions do occur, and the two refuted properties: a counterexample is a
  behaviour, which TLC shows.

## What is assumed, and what is left out

Proto.Actor 0.1.14 is a library outside the repository. The model assumes of it what the
code relies on: an actor handles one message at a time; mailboxes and connections are FIFO;
a full bounded mailbox holds its sender; `Terminated` reaches a watcher that is running;
watching an actor that stopped yields `Terminated` when `WatchAnswersDead`; a broken
connection terminates the watched actors behind it and loses what was queued on it; a group
router tells one member. `Terminated` itself is not lost.

Of the other libraries the models assume:

- `Dictionary`, `ConcurrentDictionary`: a call takes effect at once. What overlapping calls do to the inside of
  a `Dictionary` has no end of outcomes and is left out; what its checks detect is not.
- gRPC: a call that ended refuses writes, and so does one with a write pending.
- WampSharp: a realm raises the events of a topic on the thread that publishes, and
  a topic's subscribers go with it.
- The browser: an event runs to its end, and the promises it settles with it, before the next;
  an `EventSource` reconnects unless the answer makes it give up.
- The publish/subscribe below the cache and the backplane: what `PubSubRouter` shows, an
  observer sees the messages of a node once and in order.

Left out of what is modelled: serialization (a message is its topic, its number and the node
it was published on), logging, the processes of group routers, which the code spawns for a
route and never stops, `stream` and `send` of the SignalR client, whose calls go the way of
`invoke`, and its protocols. Two behaviours of `PubSubRouter` are visible in the model and
contradict nothing the repository says: a subscription made after the last topology event is
unknown to other nodes, and a message told to a group member that stopped but whose
`Terminated` is not handled yet is lost though other members live.

### Not modelled

| Part | Why |
|---|---|
| gRPC client | a chain of Rx operators without state of its own; its `CombineLatest` over servers is a listed hazard |
| Topic filters | functions on text; the models know a filter as the relation of patterns and topics it accepts. The MQTT filter refuses every wildcard |
| Publish/subscribe builder | option setters |
| ProtoBroker | unfinished: the start of its cluster is commented out, its consumer never calls `OnNext`, its master awaits an answer nobody gives. A model would invent what it promises |
| SignalR backplane | publishes the method name where receivers expect a connection, group or user (`PublishSubscribeHubLifetimeManager.cs:66`, `72`, `78`): what it delivers is settled by that, and by nothing concurrent |
| CacheManager backplane | forwards one to one, keeps no state |
| Orleans stream provider | receivers are added to a dictionary and never removed, so the retried get-or-add ends at the second attempt; the rest is an adapter |
| Discovery | sockets; each poll passes on the whole set of answers, and the models take any |
| Disposables | `DisposableBase` runs a list once on the caller's thread; `SerialDisposable` is unused |
| Hosting | a builder that runs its steps in order on one thread |
| Text search, user agents, serializers | wrappers of libraries |
| Samples and playgrounds, apart from the chat page | demonstrations |

Nearly all JavaScript of the repository, some 64,000 lines, is copies of the SignalR client
and its MessagePack bundle, compiled for three samples twice each. One copy of the client is
modelled, and stands for the others; the bundle (a binary encoding) is not. vivego proper is
C#, about 12,900 lines, and the models above cover those of its parts that have behaviour of
their own. Counted against the JavaScript, the share of lines modelled is therefore small,
and modelling the copies would say nothing new.

## Plan

All parts with state and concurrency of their own have a module, and every safety property
is proved. What remains to be proved, in this order:

1. `SubscriptionLookup` as an algebra: `Lookup` after `Add` and `Remove`, independence of
   topics no filter shares, each entitled writer in exactly one class.
2. Consequences a user relies on, from the invariants there are, as `OneThreadNoEcho` is one:
   with one `Publish` at a time and no concurrent change the gRPC server's cache is never
   stale; with one node no `Get` of the cache is older than the last `Set` applied.
3. `Membership`: a member id never goes back, and what a node believes of a member was so
   at some time.

Liveness stays with TLC.
