SPECIFICATION Spec
CONSTANTS
    Nodes <- OneNode
    Writers <- ThreeWriters
    Home <- AllAtN1
    Patterns <- FirstPattern
    Topics <- OneTopic
    Groups <- PlainOrGroup
    NoGroup = ""
    Subscriptions <- GroupSubscription
    Matches <- FilterMatches
    RingOrder <- Ring
    NoSub = NoSub
    Uncached = Uncached
    WatchAnswersDead = TRUE
    MailboxCapacity = 4
    MaxPublished = 2
    MaxTopologyEvents = 0
    MaxDisconnects = 0
INVARIANTS CachesCoherent
PROPERTIES PromiseKept
CHECK_DEADLOCK FALSE
