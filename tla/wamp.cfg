SPECIFICATION FairSpec
CONSTANTS
    Nodes <- TwoNodes
    Topics <- OneTopic
    Messages <- ThreeMessages
    At <- TwoAtA
    TopicOf <- AllOfT
    Lanes <- ThreeLanes
    NodeOf <- TwoAtB
    Nothing = Nothing
    Restless <- OnlyB
    MaxLives = 2
INVARIANTS TypeOK DisposedIsSilent
PROPERTIES EchoOnlyWhenReplaysMeet KeptOnlyInReplay ForwardedIsReplayed
CHECK_DEADLOCK FALSE
