SPECIFICATION FairSpec
CONSTANTS
    MaxSpawns = 3
    MaxAgents = 2
    MaxSpawnDepth = 2
    Faults = {"panic"}
    MaxResumes = 1
    MaxTurns = 1
    MaxCrashes = 1
CHECK_DEADLOCK FALSE
INVARIANTS
    LimitHolds
    HoldIsHeard
    ToldIsKept
PROPERTIES
    HoldEnds
