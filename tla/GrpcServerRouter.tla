--------------------------- MODULE GrpcServerRouter ---------------------------
(***************************************************************************)
(* The gRPC server of publish/subscribe (PublishSubscribeServerRouter):    *)
(* every Listen and every Publish call runs on a thread of its own, and    *)
(* all of them share one SubscriptionWriterLookupCache on top of one       *)
(* SubscriptionWriterLookup, made of plain dictionaries without a lock.    *)
(*                                                                         *)
(* Each call of a dictionary is one step.  What overlapping calls do to    *)
(* the inside of a Dictionary is left out, except what it detects: Add of  *)
(* a key that is there, and an enumeration of a collection that changed,   *)
(* throw.  A writer is the stream of one Listen call.                      *)
(***************************************************************************)
EXTENDS SubscriptionLookup, FiniteSets

CONSTANTS
    Publishers,      \* the calls of Publish
    Subscriptions,   \* bound: the entries that Listen calls may make
    Uncached,        \* a topic that _lookupCache does not have
    MaxMessages      \* bound: the messages of one Publish call

ASSUME ServerAssumption ==
    /\ Subscriptions \subseteq Entry
    /\ Publishers \cap Writers = {}
    /\ MaxMessages \in Nat
    /\ \A S \in SUBSET Writers : S # Uncached

VARIABLES
    groups,      \* the keys of _db, which are never removed
    table,       \* the entries of _db
    lookupCache, \* _lookupCache: the writers found for each topic
    listen,      \* where the Listen call of each writer is
    sub,         \* its subscription, an entry
    cancelled,   \* the writers whose call was cancelled by the client
    disposed,    \* _cancellationTaskSource has its result
    publish,     \* the Publish calls
    writes,      \* pairs <<p, w>>: p's write to w that is not completed
    broken,      \* the calls, of both kinds, whose enumeration missed a new group
    raced        \* history: topics whose cached route was found while the table changed

tableVars == <<groups, table, lookupCache, raced>>
listenVars == <<listen, sub, cancelled, disposed>>
publishVars == <<publish, writes>>
vars == <<tableVars, listenVars, publishVars, broken>>

\* What a Publish call is about: the message, what its enumeration of _db yields for
\* sure and perhaps, the writers of the route it has not written to yet, whether a write
\* failed; and as history, whether the route was raced, who listened when the message
\* came, and who got it.
Call == [at : {"idle", "looking", "caching", "writing", "sent", "failed"},
         topic : Topics, count : 0..MaxMessages,
         sure : SUBSET Writers, maybe : SUBSET Writers, todo : SUBSET Writers,
         failing : BOOLEAN, unsure : BOOLEAN, due : SUBSET Writers, told : SUBSET Writers]

Fresh(at, t, n) ==
    [at |-> at, topic |-> t, count |-> n, sure |-> {}, maybe |-> {}, todo |-> {},
     failing |-> FALSE, unsure |-> FALSE, due |-> {}, told |-> {}]

Init ==
    /\ groups = {}
    /\ table = {}
    /\ lookupCache = [t \in Topics |-> Uncached]
    /\ listen = [w \in Writers |-> "idle"]
    /\ sub \in {f \in [Writers -> Subscriptions] : \A w \in Writers : f[w].writer = w}
    /\ cancelled = {}
    /\ disposed = FALSE
    /\ \E t \in Topics : publish = [p \in Publishers |-> Fresh("idle", t, 0)]
    /\ writes = {}
    /\ broken = {}
    /\ raced = {}

-----------------------------------------------------------------------------
(* The table and the enumerations of it that are under way.                *)

WritersOf(entries, t) == UNION {c.writers : c \in Classes(entries, t)}

\* An enumeration yields every entry that is there all the time, and may or may not
\* yield one that comes or goes meanwhile.  What changes after it, and before its result
\* is cached, counts alike.
Changed(new) ==
    /\ table' = new
    /\ publish' = [p \in Publishers |->
          IF publish[p].at \in {"looking", "caching"}
          THEN LET now == WritersOf(new, publish[p].topic)
               IN [publish[p] EXCEPT !.sure = @ \cap now, !.maybe = @ \cup now]
          ELSE publish[p]]

Enumerating ==
    {w \in Writers : listen[w] = "removing"} \cup
    {p \in Publishers : publish[p].at = "looking"}

Clear == /\ lookupCache' = [t \in Topics |-> Uncached]
         /\ raced' = {}

-----------------------------------------------------------------------------
(* Listen.                                                                 *)

At(w, from, to) == listen[w] = from /\ listen' = [listen EXCEPT ![w] = to]

\* Add: TryGetValue of the group.
Listen(w) ==
    /\ At(w, "idle", IF sub[w].group \in groups THEN "insert" ELSE "group")
    /\ UNCHANGED <<tableVars, sub, cancelled, disposed, publishVars, broken>>

\* Fault: the new group is added under the pattern, not the name of the group.
AddPattern(w) ==
    /\ At(w, "group", IF sub[w].group \in groups THEN "refused" ELSE "insert")
    /\ groups' = groups \cup {sub[w].pattern}
    /\ broken' = IF sub[w].group \in groups THEN broken ELSE broken \cup Enumerating
    /\ UNCHANGED <<table, lookupCache, raced, sub, cancelled, disposed, publishVars>>

\* Add: _db.Add throws when another Listen brought the group meanwhile.
AddGroup(w) ==
    /\ At(w, "group", IF sub[w].group \in groups THEN "refused" ELSE "insert")
    /\ groups' = groups \cup {sub[w].group}
    /\ broken' = IF sub[w].group \in groups THEN broken ELSE broken \cup Enumerating
    /\ UNCHANGED <<table, lookupCache, raced, sub, cancelled, disposed, publishVars>>

\* Add: TryAdd to the group.
Insert(w) ==
    /\ At(w, "insert", "added")
    /\ Changed(Added(table, sub[w]))
    /\ UNCHANGED <<groups, lookupCache, raced, sub, cancelled, disposed, writes, broken>>

\* Add: the finally block.
ClearAdded(w) ==
    /\ \/ At(w, "added", "listening")
       \/ At(w, "refused", "gone")
    /\ Clear
    /\ UNCHANGED <<groups, table, sub, cancelled, disposed, publishVars, broken>>

\* The task WhenAny waits for, of the call or of the router.
Ended(w) == w \in cancelled \/ disposed

\* The wait is over, Remove begins to enumerate the groups.
Remove(w) ==
    /\ Ended(w)
    /\ At(w, "listening", "removing")
    /\ UNCHANGED <<tableVars, sub, cancelled, disposed, publishVars, broken>>

\* Fault: the iterator of Remove is never run.
TakeOutLazily(w) ==
    /\ At(w, "removing", "removed")
    /\ UNCHANGED <<groups, table, lookupCache, raced, sub, cancelled, disposed, publishVars,
                   broken>>

\* The enumeration comes to the group of the writer, or throws before.
TakeOut(w) ==
    /\ At(w, "removing", "removed")
    /\ IF w \in broken THEN UNCHANGED <<table, publish>> ELSE Changed(Removed(table, w))
    /\ UNCHANGED <<groups, lookupCache, raced, sub, cancelled, disposed, writes, broken>>

\* Fault: Remove does not clear the cache.
ClearNotRemoved(w) ==
    /\ At(w, "removed", "gone")
    /\ UNCHANGED <<tableVars, sub, cancelled, disposed, publishVars, broken>>

\* Remove: the finally block; then the call ends.
ClearRemoved(w) ==
    /\ At(w, "removed", "gone")
    /\ Clear
    /\ UNCHANGED <<groups, table, sub, cancelled, disposed, publishVars, broken>>

Cancel(w) ==
    /\ w \notin cancelled
    /\ listen[w] \notin {"idle", "gone"}
    /\ cancelled' = cancelled \cup {w}
    /\ UNCHANGED <<tableVars, listen, sub, disposed, publishVars, broken>>

Dispose ==
    /\ ~disposed
    /\ disposed' = TRUE
    /\ UNCHANGED <<tableVars, listen, sub, cancelled, publishVars, broken>>

-----------------------------------------------------------------------------
(* Publish.                                                                *)

Listening(t) == {w \in Writers : listen[w] = "listening" /\ <<sub[w].pattern, t>> \in Matches}

\* The next message of the stream is looked up in the cache.
Receive(p, t) ==
    /\ publish[p].at \in {"idle", "sent"}
    /\ publish[p].count < MaxMessages
    /\ LET hit == lookupCache[t] # Uncached
           found == WritersOf(table, t)
           new == [Fresh(IF hit THEN "writing" ELSE "looking", t, publish[p].count + 1)
                      EXCEPT !.due = Listening(t)]
       IN publish' = [publish EXCEPT ![p] =
             IF hit THEN [new EXCEPT !.todo = lookupCache[t], !.unsure = t \in raced]
                    ELSE [new EXCEPT !.sure = found, !.maybe = found]]
    /\ UNCHANGED <<tableVars, listenVars, broken, writes>>

\* The exception ends the call; the messages that are left are not read.
Fails(p) == publish' = [publish EXCEPT ![p] = Fresh("failed", @.topic, MaxMessages)]

\* Lookup in the table ends, with the route, unless a new group made it throw.
Lookup(p) ==
    /\ publish[p].at = "looking"
    /\ IF p \in broken
       THEN Fails(p)
       ELSE \E S \in SUBSET publish[p].maybe :
               /\ publish[p].sure \subseteq S
               /\ publish' = [publish EXCEPT ![p].at = "caching", ![p].todo = S]
    /\ broken' = broken \ {p}
    /\ UNCHANGED <<tableVars, listenVars, writes>>

\* _lookupCache.Add throws when another Publish was faster.
Cache(p) ==
    /\ publish[p].at = "caching"
    /\ LET c == publish[p]
       IN IF lookupCache[c.topic] # Uncached
          THEN Fails(p) /\ UNCHANGED <<lookupCache, raced>>
          ELSE /\ publish' = [publish EXCEPT ![p].at = "writing", ![p].sure = {},
                                             ![p].maybe = {}]
               /\ lookupCache' = [lookupCache EXCEPT ![c.topic] = c.todo]
               /\ raced' = IF c.sure = c.maybe THEN raced ELSE raced \cup {c.topic}
    /\ UNCHANGED <<groups, table, listenVars, broken, writes>>

Closed(w) == w \in cancelled \/ listen[w] = "gone"
Busy(w) == \E p \in Publishers : <<p, w>> \in writes

\* gRPC refuses a write to a call that has ended, and a second one at a time; the
\* exception leaves the enumeration of the tasks, and with it the rest of the route.
Write(p, w) ==
    /\ publish[p].at = "writing"
    /\ w \in publish[p].todo
    /\ IF Closed(w) \/ Busy(w)
       THEN Fails(p) /\ UNCHANGED writes
       ELSE /\ writes' = writes \cup {<<p, w>>}
            /\ publish' = [publish EXCEPT ![p].todo = @ \ {w}]
    /\ UNCHANGED <<tableVars, listenVars, broken>>

\* A write completes, or fails with the call it was made on.  Nobody waits for those of
\* a Publish that threw.
Written(p, w) ==
    /\ <<p, w>> \in writes
    /\ writes' = writes \ {<<p, w>>}
    /\ \/ publish[p].at = "failed" /\ UNCHANGED publish
       \/ /\ publish[p].at = "writing"
          /\ \/ publish' = [publish EXCEPT ![p].told = @ \cup {w}]
             \/ Closed(w) /\ publish' = [publish EXCEPT ![p].failing = TRUE]
    /\ UNCHANGED <<tableVars, listenVars, broken>>

\* Fault: nobody awaits the writes.
WhenNone(p) ==
    /\ publish[p].at = "writing"
    /\ publish[p].todo = {}
    /\ publish' = [publish EXCEPT ![p].at = "sent"]
    /\ UNCHANGED <<tableVars, listenVars, broken, writes>>

\* Task.WhenAll of the writes.
WhenAll(p) ==
    /\ publish[p].at = "writing"
    /\ publish[p].todo = {}
    /\ \A w \in Writers : <<p, w>> \notin writes
    /\ IF publish[p].failing THEN Fails(p) ELSE publish' = [publish EXCEPT ![p].at = "sent"]
    /\ UNCHANGED <<tableVars, listenVars, broken, writes>>

-----------------------------------------------------------------------------
ListenStep(w) ==
    AddGroup(w) \/ Insert(w) \/ ClearAdded(w) \/ Remove(w) \/ TakeOut(w) \/ ClearRemoved(w)

PublishStep(p) ==
    \/ Lookup(p) \/ Cache(p) \/ WhenAll(p)
    \/ \E w \in Writers : Write(p, w) \/ Written(p, w)

Next ==
    \/ \E w \in Writers : Listen(w) \/ ListenStep(w) \/ Cancel(w)
    \/ \E p \in Publishers : PublishStep(p) \/ \E t \in Topics : Receive(p, t)
    \/ Dispose

Spec == Init /\ [][Next]_vars

-----------------------------------------------------------------------------
(* Properties.                                                             *)

\* Every variable keeps its type.
TypeOK ==
    /\ groups \subseteq Groups
    /\ table \subseteq Subscriptions
    /\ lookupCache \in [Topics -> {Uncached} \cup SUBSET Writers]
    /\ listen \in [Writers -> {"idle", "group", "insert", "added", "refused", "listening",
                               "removing", "removed", "gone"}]
    /\ sub \in [Writers -> Subscriptions]
    /\ cancelled \subseteq Writers
    /\ disposed \in BOOLEAN
    /\ publish \in [Publishers -> Call]
    /\ writes \subseteq Publishers \X Writers
    /\ broken \subseteq Writers \cup Publishers
    /\ raced \subseteq Topics

\* Without a lock, the cache may keep an old route for good, but only one that a Lookup
\* found while the table changed; any other disagrees with the table no longer than the
\* call that changed it takes to clear the cache (SubscriptionWriterLookupCache).
StaleOnlyByRace ==
    \A t \in Topics :
        lookupCache[t] \notin {Uncached, WritersOf(table, t)} =>
            t \in raced \/ \E w \in Writers : listen[w] \in {"added", "removed"}

\* A message whose Publish went on to the next was written to everybody who listened to
\* its topic when it came and still does, unless its route was cached in such a race.
ReachesListeners ==
    \A p \in Publishers :
        publish[p].at = "sent" /\ ~publish[p].unsure =>
            \A w \in publish[p].due :
                listen[w] = "listening" => w \in publish[p].told

\* A stream whose Listen has ended is out of the table, whatever ran meanwhile, with one
\* exception: somebody brought a new group while Remove enumerated the groups.
EndedIsGone ==
    \A w \in Writers : listen[w] = "gone" /\ (\E e \in table : e.writer = w) => w \in broken
=============================================================================
