SPECIFICATION FairSpec
CONSTANTS
    Nodes <- TwoNodes
    Writers <- TwoWriters
    Home <- OneEach
    Patterns <- FirstPattern
    Topics <- OneTopic
    Groups <- Plain
    NoGroup = ""
    Subscriptions <- PlainSubscription
    Matches <- FilterMatches
    RingOrder <- Ring
    NoSub = NoSub
    Uncached = Uncached
    WatchAnswersDead = TRUE
    MailboxCapacity = 2
    MaxPublished = 0
    MaxTopologyEvents = 2
    MaxDisconnects = 1
PROPERTIES StoppedForgotten TopologySpreads
CHECK_DEADLOCK FALSE
