SPECIFICATION Spec
CONSTANTS
    t1 = t1
    t2 = t2
    c1 = c1
    c2 = c2
    Threads = {t1, t2}
    Turns = {x1, x2}
    Engines = {g1, g2, g3}
    Callers = {c1, c2}
    Steerers = {}
    CallerThread <- OwnThread
    NoThread = NoThread
    NoTurn = NoTurn
    NoEngine = NoEngine
    MaxActive = 1
    Kinds = {"send", "compact"}
    Talks = FALSE
    Faults = {"disk"}
    MaxCrashes = 1
SYMMETRY Symmetry
CHECK_DEADLOCK FALSE
INVARIANTS
    LruCoversLoaded
    MonitoredIsActive
    InterruptWins
    HonestOutcome
