SPECIFICATION Spec
CONSTANTS
    Tasks = {t1, t2}
    Workers = {w1, w2}
    NoTask = NoTask
    NoWorker = NoWorker
    Faults = {"disk", "panic"}
    Shutdowns = TRUE
    MaxCrashes = 1
    MaxEvents = 0
SYMMETRY Symmetry
INVARIANTS
    QueueIsQueued
    OneWorkerPerRunningTask
    AckedSurvives
PROPERTIES
    TerminalForever
