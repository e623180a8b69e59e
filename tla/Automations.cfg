SPECIFICATION FairSpec
CONSTANTS
    Autos = {a1}
    Outcomes = {"Canceled"}
    Rules <- MCRules
    Week = 2
    SlotLimit = 1
    ReconcileLimit = 2
    MaxClock = 3
    MaxRuns = 4
    MaxFaults = 1
    MaxUpdates = 2
CHECK_DEADLOCK FALSE
INVARIANTS
    SlotOncePerSavedRun
    FileIsAsWanted
PROPERTIES
    NoSlotSkipped
    CatchesUp
    RunsAreSettled
