SPECIFICATION Spec
CONSTANTS
    MaxSpawns = 1
    MaxAgents = 1
    MaxSpawnDepth = 2
    Faults = {}
    MaxResumes = 1
    MaxTurns = 1
    MaxCrashes = 0
CHECK_DEADLOCK FALSE
PROPERTIES
    ChildResultSeen
