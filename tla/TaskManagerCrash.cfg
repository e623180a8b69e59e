SPECIFICATION Spec
CONSTANTS
    Tasks = {t1, t2}
    Workers = {w1, w2}
    NoTask = NoTask
    NoWorker = NoWorker
    Faults = {"update"}
    Shutdowns = FALSE
    MaxCrashes = 1
    MaxEvents = 2
SYMMETRY Symmetry
INVARIANTS
    TypeOK
    ObservedIsDurable
    NoSleepOverWork
PROPERTIES
    ImplementsBoard
    CancelledNeverCompletes
    EventsBeforeFinish
