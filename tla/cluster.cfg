SPECIFICATION Spec
CONSTANTS
    Nodes <- TwoNodes
    Writers <- TwoWriters
    Home <- OneEach
    Patterns <- FirstPattern
    Topics <- OneTopic
    Groups <- PlainOrGroup
    NoGroup = ""
    Subscriptions <- AnySubscription
    Matches <- FilterMatches
    RingOrder <- Ring
    NoSub = NoSub
    Uncached = Uncached
    WatchAnswersDead = TRUE
    MailboxCapacity = 2
    MaxPublished = 1
    MaxTopologyEvents = 1
    MaxDisconnects = 1
INVARIANTS StopsAreNoticed SubscribedBeforeGets
PROPERTIES OnlyGoneForgotten PromiseKept
CHECK_DEADLOCK FALSE
