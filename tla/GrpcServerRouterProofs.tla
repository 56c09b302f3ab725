------------------------- MODULE GrpcServerRouterProofs -------------------------
(***************************************************************************)
(* Proofs about GrpcServerRouter, for any number of Listen and Publish     *)
(* calls, topics, groups and messages.                                     *)
(***************************************************************************)
EXTENDS GrpcServerRouter, TLAPS

-----------------------------------------------------------------------------
(* The inductive invariant.                                                *)

InTable(w) == \E e \in table : e.writer = w

\* A writer is in the table with its own subscription, from its Insert to its TakeOut;
\* later only if the enumeration of its Remove was broken.
OwnEntries ==
    /\ \A w \in Writers : sub[w].writer = w
    /\ \A e \in table :
          /\ e = sub[e.writer]
          /\ listen[e.writer] \in {"added", "listening", "removing", "removed", "gone"}
    /\ \A w \in Writers : listen[w] \in {"added", "listening", "removing"} => sub[w] \in table
    /\ \A w \in Writers : listen[w] \in {"removed", "gone"} /\ InTable(w) => w \in broken

\* Who is owed a message has listened, and does not begin to listen again.
DueListened ==
    \A p \in Publishers : \A w \in publish[p].due :
        listen[w] \in {"listening", "removing", "removed", "gone"}

\* What an enumeration yields for sure and perhaps encloses the table, and what it
\* yielded; who listened all the time is yielded for sure.
Enclosed ==
    \A p \in Publishers :
        LET c == publish[p]
        IN c.at \in {"looking", "caching"} =>
              /\ c.sure \subseteq WritersOf(table, c.topic)
              /\ WritersOf(table, c.topic) \subseteq c.maybe
              /\ c.at = "caching" => c.sure \subseteq c.todo /\ c.todo \subseteq c.maybe
              /\ \A w \in c.due : listen[w] = "listening" => w \in c.sure

\* A cached route that was not raced has everybody who listens: who begins to listen has
\* cleared the cache.
CachedCovers ==
    \A t \in Topics :
        lookupCache[t] # Uncached /\ t \notin raced => Listening(t) \subseteq lookupCache[t]

\* Who is owed the message is still to be written to, is being written to, or has it.
OwedIsWritten ==
    \A p \in Publishers :
        LET c == publish[p]
        IN c.at = "writing" /\ ~c.unsure /\ ~c.failing =>
              \A w \in c.due : listen[w] = "listening" =>
                  w \in c.todo \cup c.told \/ <<p, w>> \in writes

ServerInv ==
    /\ TypeOK
    /\ OwnEntries
    /\ DueListened
    /\ Enclosed
    /\ CachedCovers
    /\ OwedIsWritten
    /\ StaleOnlyByRace
    /\ ReachesListeners

-----------------------------------------------------------------------------
(* The table.                                                              *)

\* A lookup yields the writers of the matching entries.
LEMMA InWritersOf ==
    ASSUME NEW entries, NEW t, NEW w
    PROVE  w \in WritersOf(entries, t) <=>
               \E e \in entries : <<e.pattern, t>> \in Matches /\ e.writer = w
<1>1. ASSUME NEW e \in Matching(entries, t)
      PROVE  e.writer \in WritersOf(entries, t)
  <2> DEFINE c == ClassOf(Matching(entries, t), e)
  <2>1. c \in Classes(entries, t)
    BY DEF Classes
  <2>2. e.writer \in c.writers
    BY DEF ClassOf
  <2> HIDE DEF c
  <2>3. QED
    BY <2>1, <2>2 DEF WritersOf
<1>2. ASSUME w \in WritersOf(entries, t)
      PROVE  \E e \in Matching(entries, t) : e.writer = w
  <2>1. PICK c \in Classes(entries, t) : w \in c.writers
    BY <1>2 DEF WritersOf
  <2>2. PICK e \in Matching(entries, t) : c = ClassOf(Matching(entries, t), e)
    BY <2>1 DEF Classes
  <2>3. QED
    BY <2>1, <2>2 DEF ClassOf
<1>3. QED
  BY <1>1, <1>2 DEF Matching

\* It yields writers.
LEMMA WritersOfType ==
    ASSUME NEW entries \in SUBSET Subscriptions, NEW t
    PROVE  WritersOf(entries, t) \in SUBSET Writers
<1>1. \A e \in entries : e.writer \in Writers
  BY ServerAssumption DEF Entry
<1>2. ASSUME NEW w \in WritersOf(entries, t)  PROVE w \in Writers
  BY <1>1, InWritersOf
<1>3. QED
  BY <1>2

\* Who listens, or is about to, is yielded for each topic that its pattern matches.
LEMMA ListenerIsYielded ==
    ASSUME OwnEntries, NEW t, NEW w \in Writers,
           listen[w] \in {"added", "listening", "removing"}, <<sub[w].pattern, t>> \in Matches
    PROVE  w \in WritersOf(table, t)
BY InWritersOf DEF OwnEntries

\* And who is yielded has a pattern that matches.
LEMMA YieldedMatches ==
    ASSUME OwnEntries, NEW t, NEW w \in WritersOf(table, t)
    PROVE  <<sub[w].pattern, t>> \in Matches
<1>1. PICK e \in table : <<e.pattern, t>> \in Matches /\ e.writer = w
  BY InWritersOf
<1>2. QED
  BY <1>1 DEF OwnEntries

\* A change of the table changes what the enumerations may yield, and nothing else of
\* the Publish calls.
LEMMA ChangedCalls ==
    ASSUME TypeOK, NEW new \in SUBSET Subscriptions, Changed(new)
    PROVE  /\ table' = new
           /\ publish' \in [Publishers -> Call]
           /\ \A p \in Publishers :
                 /\ publish[p].at \notin {"looking", "caching"} => publish'[p] = publish[p]
                 /\ publish'[p].at = publish[p].at /\ publish'[p].topic = publish[p].topic
                 /\ publish'[p].todo = publish[p].todo /\ publish'[p].due = publish[p].due
           /\ \A p \in Publishers : publish[p].at \in {"looking", "caching"} =>
                 /\ publish'[p].sure = publish[p].sure \cap WritersOf(new, publish[p].topic)
                 /\ publish'[p].maybe = publish[p].maybe \cup WritersOf(new, publish[p].topic)
<1>1. ASSUME NEW p \in Publishers
      PROVE  [publish[p] EXCEPT !.sure = @ \cap WritersOf(new, publish[p].topic),
                                !.maybe = @ \cup WritersOf(new, publish[p].topic)] \in Call
  <2>1. publish[p] \in Call /\ WritersOf(new, publish[p].topic) \in SUBSET Writers
    BY WritersOfType DEF TypeOK
  <2>2. QED
    BY <2>1 DEF Call
<1>2. \A p \in Publishers : publish[p] \in Call
  BY DEF TypeOK
<1>3. publish' = [p \in Publishers |->
          IF publish[p].at \in {"looking", "caching"}
          THEN [publish[p] EXCEPT !.sure = @ \cap WritersOf(new, publish[p].topic),
                                  !.maybe = @ \cup WritersOf(new, publish[p].topic)]
          ELSE publish[p]]
  BY DEF Changed
<1>4. publish' \in [Publishers -> Call]
  BY <1>1, <1>2, <1>3
<1>5. ASSUME NEW p \in Publishers, publish[p].at \in {"looking", "caching"}
      PROVE  /\ publish'[p] = [publish[p] EXCEPT
                                  !.sure = @ \cap WritersOf(new, publish[p].topic),
                                  !.maybe = @ \cup WritersOf(new, publish[p].topic)]
             /\ publish[p] \in Call
  BY <1>2, <1>3, <1>5
<1>6. ASSUME NEW p \in Publishers, publish[p].at \in {"looking", "caching"}
      PROVE  /\ publish'[p].at = publish[p].at /\ publish'[p].topic = publish[p].topic
             /\ publish'[p].todo = publish[p].todo /\ publish'[p].due = publish[p].due
             /\ publish'[p].sure = publish[p].sure \cap WritersOf(new, publish[p].topic)
             /\ publish'[p].maybe = publish[p].maybe \cup WritersOf(new, publish[p].topic)
  BY <1>5, <1>6 DEF Call
<1>7. ASSUME NEW p \in Publishers, publish[p].at \notin {"looking", "caching"}
      PROVE  publish'[p] = publish[p]
  BY <1>3, <1>7
<1>8. table' = new
  BY DEF Changed
<1>9. QED
  BY <1>4, <1>6, <1>7, <1>8

-----------------------------------------------------------------------------
(* Listen.                                                                 *)

\* A step of a Listen call that does not touch the table or the cache, and at which
\* nobody begins to listen, keeps what is said of Publish calls.
LEMMA CallsStay ==
    ASSUME ServerInv, UNCHANGED <<table, lookupCache, raced, sub, publish, writes>>,
           \A w \in Writers : listen'[w] = "listening" => listen[w] = "listening",
           \A w \in Writers : listen[w] \in {"added", "removed"} => listen'[w] = listen[w],
           \A w \in Writers : listen[w] \in {"listening", "removing", "removed", "gone"} =>
               listen'[w] \in {"listening", "removing", "removed", "gone"}
    PROVE  DueListened' /\ Enclosed' /\ CachedCovers' /\ OwedIsWritten' /\ StaleOnlyByRace' /\ ReachesListeners'
<1>1. \A p \in Publishers : publish[p].due \in SUBSET Writers
  BY DEF ServerInv, TypeOK, Call
<1>2. DueListened' /\ Enclosed'
  BY <1>1 DEF ServerInv, DueListened, Enclosed
<1>3. CachedCovers'
  BY DEF ServerInv, CachedCovers, Listening
<1>4. OwedIsWritten' /\ ReachesListeners'
  BY <1>1 DEF ServerInv, OwedIsWritten, ReachesListeners
<1>5. StaleOnlyByRace'
  <2> SUFFICES ASSUME NEW t \in Topics, lookupCache[t] \notin {Uncached, WritersOf(table, t)},
                      t \notin raced
               PROVE  \E w \in Writers : listen'[w] \in {"added", "removed"}
    BY DEF StaleOnlyByRace
  <2>1. PICK w \in Writers : listen[w] \in {"added", "removed"}
    BY DEF ServerInv, StaleOnlyByRace
  <2>2. QED
    BY <2>1
<1>6. QED
  BY <1>2, <1>3, <1>4, <1>5

\* The first step of a Listen call keeps the invariant.
LEMMA ListenKeeps ==
    ASSUME ServerInv, NEW w \in Writers, Listen(w)
    PROVE  ServerInv'
<1>1. /\ listen[w] = "idle" /\ \E to \in {"insert", "group"} : listen' = [listen EXCEPT ![w] = to]
      /\ UNCHANGED <<groups, table, lookupCache, raced, sub, cancelled, disposed, publish,
                     writes, broken>>
  BY DEF Listen, At, tableVars, publishVars
<1>2. TypeOK'
  BY <1>1 DEF ServerInv, TypeOK
<1>3. OwnEntries'
  BY <1>1 DEF ServerInv, TypeOK, OwnEntries, InTable
<1>4. QED
  BY <1>1, <1>2, <1>3, CallsStay DEF ServerInv, TypeOK

\* A new group breaks enumerations.
LEMMA AddGroupKeeps ==
    ASSUME ServerInv, NEW w \in Writers, AddGroup(w)
    PROVE  ServerInv'
<1>1. /\ listen[w] = "group"
      /\ \E to \in {"insert", "refused"} : listen' = [listen EXCEPT ![w] = to]
      /\ UNCHANGED <<table, lookupCache, raced, sub, cancelled, disposed, publish, writes>>
      /\ groups' = groups \cup {sub[w].group}
      /\ broken' \in {broken, broken \cup Enumerating}
  BY DEF AddGroup, At, publishVars
<1>2. TypeOK'
  <2>1. groups' \subseteq Groups
    BY <1>1, ServerAssumption DEF ServerInv, TypeOK, Entry
  <2>2. broken' \subseteq Writers \cup Publishers
    BY <1>1 DEF Enumerating, ServerInv, TypeOK
  <2>3. QED
    BY <1>1, <2>1, <2>2 DEF ServerInv, TypeOK
<1>3. OwnEntries'
  BY <1>1 DEF ServerInv, TypeOK, OwnEntries, InTable
<1>4. QED
  BY <1>1, <1>2, <1>3, CallsStay DEF ServerInv, TypeOK

\* The client, or the server, ends the call; Remove begins.
LEMMA RemoveKeeps ==
    ASSUME ServerInv, NEW w \in Writers, Remove(w)
    PROVE  ServerInv'
<1>1. /\ listen[w] = "listening" /\ listen' = [listen EXCEPT ![w] = "removing"]
      /\ UNCHANGED <<groups, table, lookupCache, raced, sub, cancelled, disposed, publish,
                     writes, broken>>
  BY DEF Remove, At, tableVars, publishVars
<1>2. TypeOK'
  BY <1>1 DEF ServerInv, TypeOK
<1>3. OwnEntries'
  BY <1>1 DEF ServerInv, TypeOK, OwnEntries, InTable
<1>4. QED
  BY <1>1, <1>2, <1>3, CallsStay DEF ServerInv, TypeOK

LEMMA EndKeeps ==
    ASSUME ServerInv, Dispose \/ \E w \in Writers : Cancel(w)
    PROVE  ServerInv'
<1>1. /\ UNCHANGED <<groups, table, lookupCache, raced, listen, sub, publish, writes, broken>>
      /\ disposed' \in BOOLEAN /\ cancelled' \subseteq Writers
  BY DEF Cancel, Dispose, tableVars, publishVars, ServerInv, TypeOK
<1>2. TypeOK'
  BY <1>1 DEF ServerInv, TypeOK
<1>3. OwnEntries'
  BY <1>1 DEF ServerInv, TypeOK, OwnEntries, InTable
<1>4. QED
  BY <1>1, <1>2, <1>3, CallsStay DEF ServerInv

\* The finally blocks clear the cache, so that who begins to listen is in no stale route.
LEMMA ClearKeeps ==
    ASSUME ServerInv, NEW w \in Writers, ClearAdded(w) \/ ClearRemoved(w)
    PROVE  ServerInv'
<1>1. /\ \/ listen[w] = "added" /\ listen' = [listen EXCEPT ![w] = "listening"]
         \/ listen[w] \in {"refused", "removed"} /\ listen' = [listen EXCEPT ![w] = "gone"]
      /\ lookupCache' = [t \in Topics |-> Uncached] /\ raced' = {}
      /\ UNCHANGED <<groups, table, sub, cancelled, disposed, publish, writes, broken>>
  BY DEF ClearAdded, ClearRemoved, Clear, At, publishVars
<1>2. TypeOK'
  <2>1. lookupCache' \in [Topics -> {Uncached} \cup SUBSET Writers]
    BY <1>1
  <2>2. QED
    BY <1>1, <2>1 DEF ServerInv, TypeOK
<1>3. OwnEntries'
  <2>1. /\ \A v \in Writers : v # w => listen'[v] = listen[v]
        /\ listen'[w] \in {"listening", "gone"}
        /\ listen[w] = "added" => listen'[w] = "listening"
        /\ listen[w] # "added" => listen'[w] = "gone" /\ listen[w] \in {"refused", "removed"}
    BY <1>1 DEF ServerInv, TypeOK
  <2>2. \A e \in table : e.writer \in Writers
    BY ServerAssumption DEF ServerInv, TypeOK, Entry
  <2>3. /\ \A v \in Writers : sub[v].writer = v
        /\ \A e \in table :
              /\ e = sub[e.writer]
              /\ listen[e.writer] \in {"added", "listening", "removing", "removed", "gone"}
        /\ \A v \in Writers : listen[v] \in {"added", "listening", "removing"} => sub[v] \in table
        /\ \A v \in Writers : listen[v] \in {"removed", "gone"} /\ InTable(v) => v \in broken
    BY DEF ServerInv, OwnEntries
  <2>4. InTable(w) => listen[w] # "refused"
    BY <2>3 DEF InTable
  <2>5. ASSUME NEW v \in Writers, listen'[v] \in {"removed", "gone"}, InTable(v)
        PROVE  v \in broken
    BY <2>1, <2>3, <2>4, <2>5
  <2>6. \A v \in Writers : InTable(v)' <=> InTable(v)
    BY <1>1 DEF InTable
  <2>7. \A e \in table : listen'[e.writer] \in {"added", "listening", "removing", "removed", "gone"}
    BY <2>1, <2>2, <2>3
  <2>8. \A v \in Writers : listen'[v] \in {"added", "listening", "removing"} => sub[v] \in table
    BY <2>1, <2>3
  <2>9. QED
    BY <1>1, <2>3, <2>5, <2>6, <2>7, <2>8 DEF OwnEntries
<1>4. CachedCovers' /\ StaleOnlyByRace'
  BY <1>1 DEF CachedCovers, StaleOnlyByRace
<1>5. \A p \in Publishers : \A v \in publish[p].due :
        /\ v \in Writers
        /\ listen[v] \in {"listening", "removing", "removed", "gone"}
        /\ listen'[v] \in {"listening", "removing", "removed", "gone"}
        /\ listen'[v] = "listening" => listen[v] = "listening"
  <2>1. \A p \in Publishers : publish[p].due \in SUBSET Writers
    BY DEF ServerInv, TypeOK, Call
  <2>2. QED
    BY <1>1, <2>1 DEF ServerInv, TypeOK, DueListened
<1>6. DueListened' /\ Enclosed'
  BY <1>1, <1>5 DEF ServerInv, DueListened, Enclosed
<1>7. OwedIsWritten' /\ ReachesListeners'
  BY <1>1, <1>5 DEF ServerInv, OwedIsWritten, ReachesListeners
<1>8. QED
  BY <1>2, <1>3, <1>4, <1>6, <1>7 DEF ServerInv

\* A change of the table under way of a Listen call keeps what is said of Publish calls:
\* whoever listens stays in the table.
LEMMA ChangeKeeps ==
    ASSUME ServerInv, NEW new \in SUBSET Subscriptions, Changed(new), OwnEntries',
           UNCHANGED <<lookupCache, raced, sub, writes>>,
           NEW w \in Writers, NEW to \in {"added", "removed"},
           listen' = [listen EXCEPT ![w] = to], listen[w] \in {"insert", "removing"},
           listen[w] = "insert" => to = "added", listen[w] = "removing" => to = "removed"
    PROVE  DueListened' /\ Enclosed' /\ CachedCovers' /\ OwedIsWritten' /\ StaleOnlyByRace'
           /\ ReachesListeners'
<1>1. /\ table' = new
      /\ \A p \in Publishers :
            /\ publish[p].at \notin {"looking", "caching"} => publish'[p] = publish[p]
            /\ publish'[p].at = publish[p].at /\ publish'[p].topic = publish[p].topic
            /\ publish'[p].todo = publish[p].todo /\ publish'[p].due = publish[p].due
      /\ \A p \in Publishers : publish[p].at \in {"looking", "caching"} =>
            /\ publish'[p].sure = publish[p].sure \cap WritersOf(new, publish[p].topic)
            /\ publish'[p].maybe = publish[p].maybe \cup WritersOf(new, publish[p].topic)
  BY ChangedCalls DEF ServerInv
<1>2. listen \in [Writers -> {"idle", "group", "insert", "added", "refused", "listening",
                             "removing", "removed", "gone"}]
  BY DEF ServerInv, TypeOK
<1>3. \A v \in Writers : /\ listen'[v] = "listening" => listen[v] = "listening"
                         /\ listen[v] \in {"listening", "removing", "removed", "gone"} =>
                              listen'[v] \in {"listening", "removing", "removed", "gone"}
  BY <1>2
<1>4. \A p \in Publishers : publish[p].due \in SUBSET Writers
  BY DEF ServerInv, TypeOK, Call
<1>5. DueListened'
  BY <1>1, <1>3, <1>4 DEF ServerInv, DueListened
<1>6. Enclosed'
  <2> SUFFICES ASSUME NEW p \in Publishers, publish[p].at \in {"looking", "caching"}
               PROVE  /\ publish'[p].sure \subseteq WritersOf(new, publish[p].topic)
                      /\ WritersOf(new, publish[p].topic) \subseteq publish'[p].maybe
                      /\ publish[p].at = "caching" => /\ publish'[p].sure \subseteq publish[p].todo
                                                      /\ publish[p].todo \subseteq publish'[p].maybe
                      /\ \A v \in publish[p].due : listen'[v] = "listening" => v \in publish'[p].sure
    BY <1>1 DEF Enclosed
  <2>1. /\ publish[p].sure \subseteq WritersOf(table, publish[p].topic)
        /\ publish[p].at = "caching" => /\ publish[p].sure \subseteq publish[p].todo
                                        /\ publish[p].todo \subseteq publish[p].maybe
        /\ \A v \in publish[p].due : listen[v] = "listening" => v \in publish[p].sure
    BY DEF ServerInv, Enclosed
  <2>2. ASSUME NEW v \in publish[p].due, listen'[v] = "listening"
        PROVE  v \in publish'[p].sure
    <3>1. v \in Writers /\ listen[v] = "listening" /\ v \in publish[p].sure
      BY <1>3, <1>4, <2>1, <2>2
    <3>2. <<sub[v].pattern, publish[p].topic>> \in Matches
      BY <2>1, <3>1, YieldedMatches DEF ServerInv
    <3>3. sub[v] \in new /\ sub[v].writer = v
      BY <1>1, <2>2, <3>1 DEF OwnEntries
    <3>4. v \in WritersOf(new, publish[p].topic)
      <4>1. \E e \in new : <<e.pattern, publish[p].topic>> \in Matches /\ e.writer = v
        BY <3>2, <3>3
      <4>2. QED
        BY <4>1, InWritersOf
    <3>5. QED
      BY <1>1, <3>1, <3>4
  <2>3. QED
    BY <1>1, <2>1, <2>2
<1>7. CachedCovers'
  BY <1>3 DEF ServerInv, CachedCovers, Listening
<1>8. OwedIsWritten' /\ ReachesListeners'
  <2>1. ASSUME NEW p \in Publishers, publish'[p].at \in {"writing", "sent"}
        PROVE  publish'[p] = publish[p]
    BY <1>1, <2>1
  <2>2. OwedIsWritten'
    BY <1>3, <1>4, <2>1 DEF ServerInv, OwedIsWritten
  <2>3. ReachesListeners'
    BY <1>3, <1>4, <2>1 DEF ServerInv, ReachesListeners
  <2>4. QED
    BY <2>2, <2>3
<1>9. StaleOnlyByRace'
  <2>1. listen'[w] \in {"added", "removed"}
    BY <1>2
  <2>2. QED
    BY <2>1 DEF StaleOnlyByRace
<1>10. QED
  BY <1>5, <1>6, <1>7, <1>8, <1>9

\* A writer is added once.
LEMMA InsertKeeps ==
    ASSUME ServerInv, NEW w \in Writers, Insert(w)
    PROVE  ServerInv'
<1>1. /\ listen[w] = "insert" /\ listen' = [listen EXCEPT ![w] = "added"]
      /\ Changed(Added(table, sub[w]))
      /\ UNCHANGED <<groups, lookupCache, raced, sub, cancelled, disposed, writes, broken>>
  BY DEF Insert, At
<1>2. Added(table, sub[w]) = table \cup {sub[w]}
  <2>1. ~Taken(table, sub[w])
    BY <1>1 DEF Taken, ServerInv, OwnEntries
  <2>2. QED
    BY <2>1 DEF Added
<1>3. table \cup {sub[w]} \in SUBSET Subscriptions
  BY DEF ServerInv, TypeOK
<1>4. table' = table \cup {sub[w]} /\ publish' \in [Publishers -> Call]
  BY <1>1, <1>2, <1>3, ChangedCalls DEF ServerInv
<1>5. TypeOK'
  BY <1>1, <1>3, <1>4 DEF ServerInv, TypeOK
<1>6. OwnEntries'
  BY <1>1, <1>4 DEF ServerInv, TypeOK, OwnEntries, InTable
<1>7. DueListened' /\ Enclosed' /\ CachedCovers' /\ OwedIsWritten' /\ StaleOnlyByRace'
      /\ ReachesListeners'
  BY <1>1, <1>2, <1>3, <1>6, ChangeKeeps
<1>8. QED
  BY <1>5, <1>6, <1>7 DEF ServerInv

\* It is taken out, unless the enumeration of Remove was broken.
LEMMA TakeOutKeeps ==
    ASSUME ServerInv, NEW w \in Writers, TakeOut(w)
    PROVE  ServerInv'
<1>1. /\ listen[w] = "removing" /\ listen' = [listen EXCEPT ![w] = "removed"]
      /\ UNCHANGED <<groups, lookupCache, raced, sub, cancelled, disposed, writes, broken>>
  BY DEF TakeOut, At
<1>2. CASE w \in broken
  <2>1. UNCHANGED <<table, publish>>
    BY <1>2 DEF TakeOut
  <2>2. TypeOK'
    BY <1>1, <2>1 DEF ServerInv, TypeOK
  <2>3. OwnEntries'
    BY <1>1, <1>2, <2>1 DEF ServerInv, TypeOK, OwnEntries, InTable
  <2>4. QED
    BY <1>1, <2>1, <2>2, <2>3, CallsStay DEF ServerInv, TypeOK
<1>3. CASE w \notin broken
  <2>1. Changed(Removed(table, w))
    BY <1>3 DEF TakeOut
  <2>2. Removed(table, w) \in SUBSET Subscriptions
    BY DEF Removed, ServerInv, TypeOK
  <2>3. table' = Removed(table, w) /\ publish' \in [Publishers -> Call]
    BY <2>1, <2>2, ChangedCalls DEF ServerInv
  <2>4. TypeOK'
    BY <1>1, <2>2, <2>3 DEF ServerInv, TypeOK
  <2>5. OwnEntries'
    BY <1>1, <2>3 DEF Removed, ServerInv, TypeOK, OwnEntries, InTable
  <2>6. DueListened' /\ Enclosed' /\ CachedCovers' /\ OwedIsWritten' /\ StaleOnlyByRace'
        /\ ReachesListeners'
    BY <1>1, <2>1, <2>2, <2>5, ChangeKeeps
  <2>7. QED
    BY <2>4, <2>5, <2>6 DEF ServerInv
<1>4. QED
  BY <1>2, <1>3

-----------------------------------------------------------------------------
(* Publish.                                                                *)

\* What the invariant says of one Publish call.
Sound(p, c) ==
    /\ \A w \in c.due : listen[w] \in {"listening", "removing", "removed", "gone"}
    /\ c.at \in {"looking", "caching"} =>
          /\ c.sure \subseteq WritersOf(table, c.topic)
          /\ WritersOf(table, c.topic) \subseteq c.maybe
          /\ c.at = "caching" => c.sure \subseteq c.todo /\ c.todo \subseteq c.maybe
          /\ \A w \in c.due : listen[w] = "listening" => w \in c.sure
    /\ c.at = "writing" /\ ~c.unsure /\ ~c.failing =>
          \A w \in c.due : listen[w] = "listening" => w \in c.todo \cup c.told \/ <<p, w>> \in writes'
    /\ c.at = "sent" /\ ~c.unsure => \A w \in c.due : listen[w] = "listening" => w \in c.told

\* A step of one Publish call that is sound keeps what is said of all.
LEMMA OneCall ==
    ASSUME ServerInv, NEW p \in Publishers, NEW c \in Call, Sound(p, c),
           publish' = [publish EXCEPT ![p] = c],
           UNCHANGED <<groups, table, listen, sub, cancelled, disposed>>,
           writes' \subseteq Publishers \X Writers,
           \A q \in Publishers, w \in Writers : q # p /\ <<q, w>> \in writes => <<q, w>> \in writes'
    PROVE  /\ publish' \in [Publishers -> Call]
           /\ DueListened' /\ Enclosed' /\ OwedIsWritten' /\ ReachesListeners'
<1>1. /\ publish' \in [Publishers -> Call]
      /\ publish'[p] = c
      /\ \A q \in Publishers : q # p => publish'[q] = publish[q]
      /\ \A q \in Publishers : publish[q].due \in SUBSET Writers
  BY DEF ServerInv, TypeOK, Call
<1>2. DueListened'
  BY <1>1 DEF ServerInv, DueListened, Sound
<1>3. Enclosed'
  <2> SUFFICES ASSUME NEW q \in Publishers, publish'[q].at \in {"looking", "caching"}
               PROVE  /\ publish'[q].sure \subseteq WritersOf(table, publish'[q].topic)
                      /\ WritersOf(table, publish'[q].topic) \subseteq publish'[q].maybe
                      /\ publish'[q].at = "caching" => /\ publish'[q].sure \subseteq publish'[q].todo
                                                       /\ publish'[q].todo \subseteq publish'[q].maybe
                      /\ \A v \in publish'[q].due : listen[v] = "listening" => v \in publish'[q].sure
    BY DEF Enclosed
  <2>1. CASE q = p
    BY <1>1, <2>1 DEF Sound
  <2>2. CASE q # p
    BY <1>1, <2>2 DEF ServerInv, Enclosed
  <2>3. QED
    BY <2>1, <2>2
<1>4. OwedIsWritten'
  <2> SUFFICES ASSUME NEW q \in Publishers, NEW w \in publish'[q].due, listen[w] = "listening",
                      publish'[q].at = "writing", ~publish'[q].unsure, ~publish'[q].failing
               PROVE  w \in publish'[q].todo \cup publish'[q].told \/ <<q, w>> \in writes'
    BY DEF OwedIsWritten
  <2>1. CASE q = p
    BY <1>1, <2>1 DEF Sound
  <2>2. CASE q # p
    <3>1. w \in publish[q].todo \cup publish[q].told \/ <<q, w>> \in writes
      BY <1>1, <2>2 DEF ServerInv, OwedIsWritten
    <3>2. w \in Writers
      BY <1>1, <2>2
    <3>3. QED
      BY <1>1, <2>2, <3>1, <3>2
  <2>3. QED
    BY <2>1, <2>2
<1>5. ReachesListeners'
  BY <1>1 DEF ServerInv, ReachesListeners, Sound
<1>6. QED
  BY <1>1, <1>2, <1>3, <1>4, <1>5

\* If a step leaves table and cache alone, the cache is as before.
LEMMA CacheStays ==
    ASSUME ServerInv, UNCHANGED <<table, lookupCache, raced, listen, sub>>
    PROVE  CachedCovers' /\ StaleOnlyByRace'
BY DEF ServerInv, CachedCovers, StaleOnlyByRace, Listening

\* A call that ended owes nothing.
LEMMA FailsKeeps ==
    ASSUME ServerInv, NEW p \in Publishers, Fails(p),
           UNCHANGED <<groups, table, listen, sub, cancelled, disposed, writes>>
    PROVE  /\ publish' \in [Publishers -> Call]
           /\ DueListened' /\ Enclosed' /\ OwedIsWritten' /\ ReachesListeners'
<1>1. publish[p].topic \in Topics
  BY DEF ServerInv, TypeOK, Call
<1>2. PICK c \in Call : c = Fresh("failed", publish[p].topic, MaxMessages)
  <2>1. MaxMessages \in 0..MaxMessages
    BY ServerAssumption
  <2>2. Fresh("failed", publish[p].topic, MaxMessages) \in Call
    BY <1>1, <2>1 DEF Fresh, Call
  <2>3. QED
    BY <2>2
<1>3. Sound(p, c)
  BY <1>2 DEF Sound, Fresh
<1>4. publish' = [publish EXCEPT ![p] = c]
  BY <1>2 DEF Fails
<1>5. writes' \subseteq Publishers \X Writers
  BY DEF ServerInv, TypeOK
<1>6. QED
  BY <1>3, <1>4, <1>5, OneCall

\* Nothing of the table changes with a Publish call, but that its break is over.
LEMMA EntriesStay ==
    ASSUME ServerInv, UNCHANGED <<table, listen, sub>>,
           \A w \in Writers : w \in broken => w \in broken'
    PROVE  OwnEntries'
BY DEF ServerInv, OwnEntries, InTable

\* A message is looked up, or goes the way the cache says.
LEMMA ReceiveKeeps ==
    ASSUME ServerInv, NEW p \in Publishers, NEW t \in Topics, Receive(p, t)
    PROVE  ServerInv'
<1>1. /\ UNCHANGED <<groups, table, lookupCache, raced, listen, sub, cancelled, disposed, writes,
                     broken>>
      /\ publish[p].count < MaxMessages
  BY DEF Receive, tableVars, listenVars
<1>2. publish[p].count + 1 \in 0..MaxMessages
  <2>1. publish[p].count \in 0..MaxMessages
    BY DEF ServerInv, TypeOK, Call
  <2>2. QED
    BY <1>1, <2>1, ServerAssumption
<1>3. WritersOf(table, t) \in SUBSET Writers /\ Listening(t) \in SUBSET Writers
  BY WritersOfType DEF ServerInv, TypeOK, Listening
<1>4. \E c \in Call : Sound(p, c) /\ publish' = [publish EXCEPT ![p] = c]
  <2> DEFINE at == IF lookupCache[t] # Uncached THEN "writing" ELSE "looking"
             fresh == Fresh(at, t, publish[p].count + 1)
             new == [fresh EXCEPT !.due = Listening(t)]
  <2>1. fresh \in Call /\ fresh.at = at /\ fresh.topic = t /\ ~fresh.failing /\ ~fresh.unsure
    BY <1>2 DEF Fresh, Call
  <2> HIDE DEF fresh
  <2>2. /\ new \in Call /\ new.at = at /\ new.topic = t /\ ~new.failing /\ ~new.unsure
        /\ new.due = Listening(t)
    BY <1>3, <2>1 DEF Call
  <2>3. publish' = [publish EXCEPT ![p] =
           IF lookupCache[t] # Uncached
           THEN [new EXCEPT !.todo = lookupCache[t], !.unsure = t \in raced]
           ELSE [new EXCEPT !.sure = WritersOf(table, t), !.maybe = WritersOf(table, t)]]
    BY DEF Receive, fresh
  <2> HIDE DEF new
  <2>4. CASE lookupCache[t] # Uncached
    <3> DEFINE c == [new EXCEPT !.todo = lookupCache[t], !.unsure = t \in raced]
    <3>1. lookupCache[t] \in SUBSET Writers /\ (t \in raced) \in BOOLEAN
      BY <2>4 DEF ServerInv, TypeOK
    <3>2. /\ c \in Call /\ c.at = "writing" /\ c.due = Listening(t) /\ c.todo = lookupCache[t]
          /\ c.unsure = (t \in raced)
      BY <2>2, <2>4, <3>1 DEF Call
    <3>3. publish' = [publish EXCEPT ![p] = c]
      BY <2>3, <2>4
    <3> HIDE DEF c
    <3>4. Sound(p, c)
      BY <2>4, <3>2 DEF Sound, ServerInv, CachedCovers, Listening
    <3>5. QED
      BY <3>2, <3>3, <3>4
  <2>5. CASE lookupCache[t] = Uncached
    <3> DEFINE c == [new EXCEPT !.sure = WritersOf(table, t), !.maybe = WritersOf(table, t)]
    <3>1. /\ c \in Call /\ c.at = "looking" /\ c.topic = t /\ c.due = Listening(t)
          /\ c.sure = WritersOf(table, t) /\ c.maybe = WritersOf(table, t)
      BY <1>3, <2>2, <2>5 DEF Call
    <3>2. publish' = [publish EXCEPT ![p] = c]
      BY <2>3, <2>5
    <3> HIDE DEF c
    <3>3. \A w \in Listening(t) : listen[w] = "listening" /\ w \in WritersOf(table, t)
      BY ListenerIsYielded DEF Listening, ServerInv
    <3>4. Sound(p, c)
      BY <3>1, <3>3 DEF Sound
    <3>5. QED
      BY <3>1, <3>2, <3>4
  <2>6. QED
    BY <2>4, <2>5
<1>5. writes' \subseteq Publishers \X Writers
  BY <1>1 DEF ServerInv, TypeOK
<1>6. /\ publish' \in [Publishers -> Call]
      /\ DueListened' /\ Enclosed' /\ OwedIsWritten' /\ ReachesListeners'
  BY <1>1, <1>4, <1>5, OneCall
<1>7. TypeOK'
  BY <1>1, <1>6 DEF ServerInv, TypeOK
<1>8. QED
  BY <1>1, <1>6, <1>7, CacheStays, EntriesStay DEF ServerInv

\* The enumeration yields a route that it encloses, or was broken.
LEMMA LookupKeeps ==
    ASSUME ServerInv, NEW p \in Publishers, Lookup(p)
    PROVE  ServerInv'
<1>1. /\ UNCHANGED <<groups, table, lookupCache, raced, listen, sub, cancelled, disposed, writes>>
      /\ publish[p].at = "looking" /\ broken' = broken \ {p}
  BY DEF Lookup, tableVars, listenVars
<1>2. /\ publish' \in [Publishers -> Call]
      /\ DueListened' /\ Enclosed' /\ OwedIsWritten' /\ ReachesListeners'
  <2>1. CASE p \in broken
    BY <1>1, <2>1, FailsKeeps DEF Lookup
  <2>2. CASE p \notin broken
    <3>1. PICK S \in SUBSET publish[p].maybe :
            /\ publish[p].sure \subseteq S
            /\ publish' = [publish EXCEPT ![p].at = "caching", ![p].todo = S]
      BY <2>2 DEF Lookup
    <3>2. publish \in [Publishers -> Call] /\ publish[p] \in Call
      BY DEF ServerInv, TypeOK
    <3> DEFINE c == [publish[p] EXCEPT !.at = "caching", !.todo = S]
    <3>3. c \in Call /\ c.at = "caching" /\ c.todo = S /\ c.sure = publish[p].sure
          /\ c.maybe = publish[p].maybe /\ c.due = publish[p].due /\ c.topic = publish[p].topic
      BY <3>1, <3>2 DEF Call
    <3>4. publish' = [publish EXCEPT ![p] = c]
      BY <3>1, <3>2
    <3> HIDE DEF c
    <3>5. Sound(p, c)
      BY <1>1, <3>1, <3>3 DEF Sound, ServerInv, DueListened, Enclosed
    <3>6. writes' \subseteq Publishers \X Writers
      BY <1>1 DEF ServerInv, TypeOK
    <3>7. QED
      BY <1>1, <3>3, <3>4, <3>5, <3>6, OneCall
  <2>3. QED
    BY <2>1, <2>2
<1>3. TypeOK'
  BY <1>1, <1>2 DEF ServerInv, TypeOK
<1>4. OwnEntries'
  BY <1>1, EntriesStay, ServerAssumption
<1>5. QED
  BY <1>1, <1>2, <1>3, <1>4, CacheStays DEF ServerInv

\* What is cached is the table as it is now, or raced.
LEMMA CacheKeeps ==
    ASSUME ServerInv, NEW p \in Publishers, Cache(p)
    PROVE  ServerInv'
<1>1. /\ UNCHANGED <<groups, table, listen, sub, cancelled, disposed, writes, broken>>
      /\ publish[p].at = "caching"
  BY DEF Cache, listenVars
<1>2. OwnEntries'
  BY <1>1, EntriesStay
<1>3. CASE lookupCache[publish[p].topic] # Uncached
  <2>1. Fails(p) /\ UNCHANGED <<lookupCache, raced>>
    BY <1>3 DEF Cache
  <2>2. /\ publish' \in [Publishers -> Call]
        /\ DueListened' /\ Enclosed' /\ OwedIsWritten' /\ ReachesListeners'
    BY <1>1, <2>1, FailsKeeps
  <2>3. TypeOK'
    BY <1>1, <2>1, <2>2 DEF ServerInv, TypeOK
  <2>4. QED
    BY <1>1, <1>2, <2>1, <2>2, <2>3, CacheStays DEF ServerInv
<1>4. CASE lookupCache[publish[p].topic] = Uncached
  <2>1. PICK t \in Topics, S \in SUBSET Writers : t = publish[p].topic /\ S = publish[p].todo
    BY DEF ServerInv, TypeOK, Call
  <2>2. /\ publish' = [publish EXCEPT ![p].at = "writing", ![p].sure = {}, ![p].maybe = {}]
        /\ lookupCache' = [lookupCache EXCEPT ![t] = S]
        /\ raced' = IF publish[p].sure = publish[p].maybe THEN raced ELSE raced \cup {t}
    BY <1>4, <2>1 DEF Cache
  <2>3. publish \in [Publishers -> Call] /\ publish[p] \in Call
    BY DEF ServerInv, TypeOK
  <2> DEFINE c == [publish[p] EXCEPT !.at = "writing", !.sure = {}, !.maybe = {}]
  <2>4. c \in Call /\ c.at = "writing" /\ c.todo = S /\ c.due = publish[p].due
    BY <2>1, <2>3 DEF Call
  <2>5. publish' = [publish EXCEPT ![p] = c]
    BY <2>2, <2>3
  <2> HIDE DEF c
  <2>6. /\ \A w \in publish[p].due : listen[w] = "listening" => w \in S
        /\ publish[p].sure = publish[p].maybe => S = WritersOf(table, t)
    BY <1>1, <2>1 DEF ServerInv, Enclosed
  <2>7. Sound(p, c)
    BY <2>4, <2>6 DEF Sound, ServerInv, DueListened
  <2>8. writes' \subseteq Publishers \X Writers
    BY <1>1 DEF ServerInv, TypeOK
  <2>9. /\ publish' \in [Publishers -> Call]
        /\ DueListened' /\ Enclosed' /\ OwedIsWritten' /\ ReachesListeners'
    BY <1>1, <2>4, <2>5, <2>7, <2>8, OneCall
  <2>10. lookupCache' \in [Topics -> {Uncached} \cup SUBSET Writers] /\ raced' \subseteq Topics
    BY <2>2 DEF ServerInv, TypeOK
  <2>11. TypeOK'
    BY <1>1, <2>9, <2>10 DEF ServerInv, TypeOK
  <2>12. /\ lookupCache'[t] = S
         /\ \A u \in Topics : u # t => lookupCache'[u] = lookupCache[u]
         /\ \A u \in Topics : u # t => (u \in raced' <=> u \in raced)
         /\ t \notin raced' => S = WritersOf(table, t)
    BY <2>2, <2>6 DEF ServerInv, TypeOK
  <2>13. \A u \in Topics : Listening(u) \subseteq WritersOf(table, u)
    BY ListenerIsYielded DEF Listening, ServerInv
  <2>14. CachedCovers'
    <3>1. \A u \in Topics : Listening(u)' = Listening(u)
      BY <1>1 DEF Listening
    <3>2. QED
      BY <2>12, <2>13, <3>1 DEF ServerInv, CachedCovers
  <2>15. StaleOnlyByRace'
    BY <1>1, <2>12 DEF ServerInv, StaleOnlyByRace
  <2>16. QED
    BY <1>2, <2>9, <2>11, <2>14, <2>15 DEF ServerInv
<1>5. QED
  BY <1>3, <1>4

\* A write, its completion and the end of all writes leave the tables alone.
LEMMA WritesKeep ==
    ASSUME ServerInv, UNCHANGED <<tableVars, listenVars, broken>>,
           writes' \subseteq Publishers \X Writers,
           publish' \in [Publishers -> Call],
           DueListened', Enclosed', OwedIsWritten', ReachesListeners'
    PROVE  ServerInv'
<1>1. UNCHANGED <<groups, table, lookupCache, raced, listen, sub, cancelled, disposed, broken>>
  BY DEF tableVars, listenVars
<1>2. TypeOK'
  BY <1>1 DEF ServerInv, TypeOK
<1>3. QED
  BY <1>1, <1>2, CacheStays, EntriesStay DEF ServerInv

\* Who is written to leaves the route for the writes.
LEMMA WriteKeeps ==
    ASSUME ServerInv, NEW p \in Publishers, NEW w \in Writers, Write(p, w)
    PROVE  ServerInv'
<1>1. /\ UNCHANGED <<tableVars, listenVars, broken>>
      /\ UNCHANGED <<groups, table, listen, sub, cancelled, disposed>>
      /\ publish[p].at = "writing" /\ w \in publish[p].todo
  BY DEF Write, tableVars, listenVars
<1>2. publish \in [Publishers -> Call] /\ publish[p] \in Call /\ writes \subseteq Publishers \X Writers
  BY DEF ServerInv, TypeOK
<1>3. CASE Closed(w) \/ Busy(w)
  <2>1. Fails(p) /\ UNCHANGED writes
    BY <1>3 DEF Write
  <2>2. QED
    BY <1>1, <1>2, <2>1, FailsKeeps, WritesKeep
<1>4. CASE ~(Closed(w) \/ Busy(w))
  <2>1. /\ writes' = writes \cup {<<p, w>>}
        /\ publish' = [publish EXCEPT ![p].todo = @ \ {w}]
    BY <1>4 DEF Write
  <2> DEFINE c == [publish[p] EXCEPT !.todo = @ \ {w}]
  <2>2. /\ c \in Call /\ c.at = "writing" /\ c.todo = publish[p].todo \ {w}
        /\ c.due = publish[p].due /\ c.told = publish[p].told
        /\ c.unsure = publish[p].unsure /\ c.failing = publish[p].failing
    BY <1>1, <1>2 DEF Call
  <2>3. publish' = [publish EXCEPT ![p] = c]
    BY <1>2, <2>1
  <2> HIDE DEF c
  <2>4. Sound(p, c)
    BY <1>1, <2>1, <2>2 DEF Sound, ServerInv, DueListened, OwedIsWritten
  <2>5. writes' \subseteq Publishers \X Writers
    BY <1>2, <2>1
  <2>6. QED
    BY <1>1, <2>1, <2>2, <2>3, <2>4, <2>5, OneCall, WritesKeep
<1>5. QED
  BY <1>3, <1>4

\* A write that completes told its writer; one that failed makes the call fail.
LEMMA WrittenKeeps ==
    ASSUME ServerInv, NEW p \in Publishers, NEW w \in Writers, Written(p, w)
    PROVE  ServerInv'
<1>1. /\ UNCHANGED <<tableVars, listenVars, broken>>
      /\ UNCHANGED <<groups, table, listen, sub, cancelled, disposed>>
      /\ writes' = writes \ {<<p, w>>}
  BY DEF Written, tableVars, listenVars
<1>2. publish \in [Publishers -> Call] /\ publish[p] \in Call /\ writes \subseteq Publishers \X Writers
  BY DEF ServerInv, TypeOK
<1>3. \E c \in Call : Sound(p, c) /\ publish' = [publish EXCEPT ![p] = c]
  <2>1. CASE publish[p].at = "failed" /\ UNCHANGED publish
    <3>1. publish' = [publish EXCEPT ![p] = publish[p]]
      BY <1>2, <2>1
    <3>2. Sound(p, publish[p])
      BY <2>1 DEF Sound, ServerInv, DueListened
    <3>3. QED
      BY <1>2, <3>1, <3>2
  <2>2. CASE publish[p].at = "writing" /\ publish' = [publish EXCEPT ![p].told = @ \cup {w}]
    <3> DEFINE c == [publish[p] EXCEPT !.told = @ \cup {w}]
    <3>1. /\ c \in Call /\ c.at = "writing" /\ c.todo = publish[p].todo
          /\ c.due = publish[p].due /\ c.told = publish[p].told \cup {w}
          /\ c.unsure = publish[p].unsure /\ c.failing = publish[p].failing
      BY <1>2, <2>2 DEF Call
    <3>2. publish' = [publish EXCEPT ![p] = c]
      BY <1>2, <2>2
    <3> HIDE DEF c
    <3>3. Sound(p, c)
      BY <1>1, <2>2, <3>1 DEF Sound, ServerInv, DueListened, OwedIsWritten
    <3>4. QED
      BY <3>1, <3>2, <3>3
  <2>3. CASE publish[p].at = "writing" /\ publish' = [publish EXCEPT ![p].failing = TRUE]
    <3> DEFINE c == [publish[p] EXCEPT !.failing = TRUE]
    <3>1. c \in Call /\ c.at = "writing" /\ c.due = publish[p].due /\ c.failing
      BY <1>2, <2>3 DEF Call
    <3>2. publish' = [publish EXCEPT ![p] = c]
      BY <1>2, <2>3
    <3> HIDE DEF c
    <3>3. Sound(p, c)
      BY <3>1 DEF Sound, ServerInv, DueListened
    <3>4. QED
      BY <3>1, <3>2, <3>3
  <2>4. QED
    BY <2>1, <2>2, <2>3 DEF Written
<1>4. writes' \subseteq Publishers \X Writers
  BY <1>1, <1>2
<1>5. \A q \in Publishers, v \in Writers : q # p /\ <<q, v>> \in writes => <<q, v>> \in writes'
  BY <1>1
<1>6. QED
  BY <1>1, <1>3, <1>4, <1>5, OneCall, WritesKeep

\* When all writes are done, everybody who is owed the message has it.
LEMMA WhenAllKeeps ==
    ASSUME ServerInv, NEW p \in Publishers, WhenAll(p)
    PROVE  ServerInv'
<1>1. /\ UNCHANGED <<tableVars, listenVars, broken>>
      /\ UNCHANGED <<groups, table, listen, sub, cancelled, disposed, writes>>
      /\ publish[p].at = "writing" /\ publish[p].todo = {}
      /\ \A w \in Writers : <<p, w>> \notin writes
  BY DEF WhenAll, tableVars, listenVars
<1>2. publish \in [Publishers -> Call] /\ publish[p] \in Call /\ writes \subseteq Publishers \X Writers
  BY DEF ServerInv, TypeOK
<1>3. CASE publish[p].failing
  BY <1>1, <1>2, <1>3, FailsKeeps, WritesKeep DEF WhenAll
<1>4. CASE ~publish[p].failing
  <2>1. publish' = [publish EXCEPT ![p].at = "sent"]
    BY <1>4 DEF WhenAll
  <2> DEFINE c == [publish[p] EXCEPT !.at = "sent"]
  <2>2. /\ c \in Call /\ c.at = "sent" /\ c.due = publish[p].due /\ c.told = publish[p].told
        /\ c.unsure = publish[p].unsure /\ c.due \subseteq Writers
    BY <1>2 DEF Call
  <2>3. publish' = [publish EXCEPT ![p] = c]
    BY <1>2, <2>1
  <2> HIDE DEF c
  <2>4. Sound(p, c)
    BY <1>1, <1>4, <2>2 DEF Sound, ServerInv, DueListened, OwedIsWritten
  <2>5. QED
    BY <1>1, <1>2, <2>2, <2>3, <2>4, OneCall, WritesKeep
<1>5. QED
  BY <1>3, <1>4

-----------------------------------------------------------------------------
(* The theorems.                                                           *)

LEMMA InitServer == Init => ServerInv
<1> SUFFICES ASSUME Init  PROVE ServerInv
  OBVIOUS
<1>1. PICK t \in Topics : publish = [p \in Publishers |-> Fresh("idle", t, 0)]
  BY DEF Init
<1>2. \A p \in Publishers : publish[p].at = "idle" /\ publish[p].due = {}
  BY <1>1 DEF Fresh
<1>3. TypeOK
  <2>1. 0 \in 0..MaxMessages
    BY ServerAssumption
  <2>2. Fresh("idle", t, 0) \in Call
    BY <2>1 DEF Fresh, Call
  <2>3. publish \in [Publishers -> Call]
    BY <1>1, <2>2
  <2>4. lookupCache \in [Topics -> {Uncached} \cup SUBSET Writers]
    BY DEF Init
  <2>5. QED
    BY <2>3, <2>4 DEF Init, TypeOK
<1>4. OwnEntries
  BY DEF Init, OwnEntries, InTable
<1>5. CachedCovers /\ StaleOnlyByRace
  BY DEF Init, CachedCovers, StaleOnlyByRace
<1>6. DueListened /\ Enclosed /\ OwedIsWritten /\ ReachesListeners
  BY <1>2 DEF DueListened, Enclosed, OwedIsWritten, ReachesListeners
<1>7. QED
  BY <1>3, <1>4, <1>5, <1>6 DEF ServerInv

LEMMA NextServer == ServerInv /\ [Next]_vars => ServerInv'
<1> SUFFICES ASSUME ServerInv, [Next]_vars  PROVE ServerInv'
  OBVIOUS
<1>1. CASE UNCHANGED vars
  <2>1. /\ UNCHANGED <<tableVars, listenVars, broken>>
        /\ UNCHANGED <<groups, table, lookupCache, raced, listen, sub, publish, writes>>
    BY <1>1 DEF vars, tableVars, publishVars, listenVars
  <2>2. publish' \in [Publishers -> Call] /\ writes' \subseteq Publishers \X Writers
    BY <2>1 DEF ServerInv, TypeOK
  <2>3. DueListened' /\ Enclosed' /\ OwedIsWritten' /\ ReachesListeners'
    BY <2>1, CallsStay
  <2>4. QED
    BY <2>1, <2>2, <2>3, WritesKeep
<1>2. ASSUME NEW w \in Writers, Listen(w) \/ ListenStep(w) \/ Cancel(w)  PROVE ServerInv'
  BY <1>2, ListenKeeps, AddGroupKeeps, InsertKeeps, ClearKeeps, RemoveKeeps, TakeOutKeeps,
     EndKeeps DEF ListenStep
<1>3. ASSUME NEW p \in Publishers, PublishStep(p)  PROVE ServerInv'
  BY <1>3, LookupKeeps, CacheKeeps, WhenAllKeeps, WriteKeeps, WrittenKeeps DEF PublishStep
<1>4. QED
  BY <1>1, <1>2, <1>3, ReceiveKeeps, EndKeeps DEF Next

\* The invariant behind the others: how the Listen and Publish calls, the table and the
\* cache they share without a lock depend on each other.
THEOREM ServerInvariant == Spec => []ServerInv
BY InitServer, NextServer, PTL DEF Spec

\* Every variable of the server keeps its type.
THEOREM ServerTypes == Spec => []TypeOK
<1>1. ServerInv => TypeOK
  BY DEF ServerInv
<1>2. QED
  BY <1>1, ServerInvariant, PTL

\* A cached route that is not raced disagrees with the table no longer than the call that
\* changed it takes to clear the cache.
THEOREM CacheIsStaleOnlyByRace == Spec => []StaleOnlyByRace
<1>1. ServerInv => StaleOnlyByRace
  BY DEF ServerInv
<1>2. QED
  BY <1>1, ServerInvariant, PTL

\* A message that was sent reached everybody who listened to its topic when it came and
\* still does, unless its route was raced.
THEOREM ListenersAreReached == Spec => []ReachesListeners
<1>1. ServerInv => ReachesListeners
  BY DEF ServerInv
<1>2. QED
  BY <1>1, ServerInvariant, PTL

\* Whose Listen call has ended is out of the table, unless its Remove was broken.
THEOREM EndedIsOut == Spec => []EndedIsGone
<1>1. ServerInv => EndedIsGone
  BY DEF ServerInv, OwnEntries, InTable, EndedIsGone
<1>2. QED
  BY <1>1, ServerInvariant, PTL
================================================================================
