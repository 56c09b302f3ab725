SPECIFICATION Spec
CONSTANTS
    Nodes <- OneNode
    Writers <- TwoWriters
    Home <- AllAtN1
    Patterns <- FirstPattern
    Topics <- TwoTopics
    Groups <- PlainOrGroup
    NoGroup = ""
    Subscriptions <- AnySubscription
    Matches <- FilterMatches
    RingOrder <- Ring
    NoSub = NoSub
    Uncached = Uncached
    WatchAnswersDead = TRUE
    MailboxCapacity = 4
    MaxPublished = 2
    MaxTopologyEvents = 1
    MaxDisconnects = 0
INVARIANTS TypeOK CachesCoherent StopsAreNoticed SubscribedBeforeGets PublishOrder
PROPERTIES OnlyGoneForgotten PromiseKept
CHECK_DEADLOCK FALSE
