SPECIFICATION FairSpec
CONSTANTS
    Nodes <- OneNode
    Writers <- TwoWriters
    Home <- AllAtN1
    Patterns <- FirstPattern
    Topics <- OneTopic
    Groups <- PlainOrGroup
    NoGroup = ""
    Subscriptions <- PlainSubscription
    Matches <- FilterMatches
    RingOrder <- Ring
    NoSub = NoSub
    Uncached = Uncached
    WatchAnswersDead = TRUE
    MailboxCapacity = 4
    MaxPublished = 2
    MaxTopologyEvents = 1
    MaxDisconnects = 0
PROPERTIES StoppedForgotten OwedReceived
CHECK_DEADLOCK FALSE
