SPECIFICATION FairSpec
CONSTANTS
    t1 = t1
    t2 = t2
    c1 = c1
    c2 = c2
    Threads = {t1, t2}
    Turns = {x1, x2}
    Engines = {g1, g2}
    Callers = {c1, c2}
    Steerers = {}
    CallerThread <- OwnThread
    NoThread = NoThread
    NoTurn = NoTurn
    NoEngine = NoEngine
    MaxActive = 2
    Kinds = {"send"}
    Talks = FALSE
    Faults = {}
    MaxCrashes = 1
CHECK_DEADLOCK FALSE
PROPERTIES
    EveryTurnEnds
