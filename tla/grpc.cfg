SPECIFICATION Spec
CONSTANTS
    w1 = w1
    w2 = w2
    p1 = p1
    p2 = p2
    Writers <- TwoWriters
    Patterns <- OnePattern
    Topics <- OneTopic
    Groups <- TwoGroups
    NoGroup = ""
    Matches <- MatchAll
    RingOrder <- RingInOrder
    Publishers <- TwoPublishers
    Subscriptions <- Plain
    Uncached = Uncached
    MaxMessages = 1
INVARIANTS TypeOK StaleOnlyByRace ReachesListeners EndedIsGone
SYMMETRY Symmetry
CHECK_DEADLOCK FALSE
