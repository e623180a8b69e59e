SPECIFICATION FairSpec
CONSTANTS
    t1 = t1
    t2 = t2
    e1 = e1
    e2 = e2
    e3 = e3
    p1 = p1
    s1 = s1
    Threads = {t1, t2}
    Emitters = {e1, e2, e3}
    Pollers = {p1}
    Streams = {s1}
    ThreadOf <- Works
    Capacity = 2
    Faults = {"disk"}
    MaxSeq = 3
    MaxCrashes = 1
CHECK_DEADLOCK FALSE
INVARIANTS
    SeqNeverReused
    PollerMissesOnlyLate
    StreamInOrder
    LiveMissesOnlyLate
PROPERTIES
    ReadersCatchUp
