SPECIFICATION FairSpec
CONSTANTS
    Nodes <- ThreeNodes
    Seeds <- SeedA
    Unknown = Unknown
    Mortal <- OnlyB
    MaxFaults = 1
    MaxAnnouncements = 1
INVARIANTS TypeOK AliveIsWatched TopologyIsCurrent Introduced
PROPERTIES DeathSettles
CHECK_DEADLOCK FALSE
