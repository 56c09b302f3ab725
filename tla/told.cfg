SPECIFICATION FairSpec
CONSTANTS
    Nodes <- TwoNodes
    Seeds <- SeedA
    Unknown = Unknown
    Mortal <- Nobody
    MaxFaults = 0
    MaxAnnouncements = 1
PROPERTIES EverybodyTold
CHECK_DEADLOCK FALSE
