SPECIFICATION FairSpec
CONSTANTS
    Tasks = {t1, t2}
    Workers = {w1, w2}
    NoTask = NoTask
    NoWorker = NoWorker
    Faults = {}
    Shutdowns = TRUE
    MaxCrashes = 1
    MaxEvents = 0
PROPERTIES
    QueuedIsPicked
    AckedIsSettled
    ShutdownStopsWorkers
