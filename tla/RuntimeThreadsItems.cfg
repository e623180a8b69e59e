SPECIFICATION Spec
CONSTANTS
    t1 = t1
    t2 = t2
    c1 = c1
    c2 = c2
    Threads = {t1}
    Turns = {x1, x2}
    Engines = {g1}
    Callers = {c1}
    Steerers = {s1}
    CallerThread <- OwnThread
    NoThread = NoThread
    NoTurn = NoTurn
    NoEngine = NoEngine
    MaxActive = 1
    Kinds = {"send", "compact"}
    Talks = TRUE
    Faults = {"panic"}
    MaxCrashes = 2
SYMMETRY Symmetry
CHECK_DEADLOCK FALSE

    
PROPERTIES
    FinishedIsFinal
