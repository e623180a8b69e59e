SPECIFICATION FairSpec
CONSTANTS
    MaxCalls = 3
    Flags = {"ask", "auto"}
    MaxInterrupts = 1
CHECK_DEADLOCK FALSE
INVARIANTS
    ResultsMatchCalls
    RunsOnlyApproved
    AllowedIsDone
    PendingIsAwaited
    ItemsSettled
PROPERTIES
    TurnsEnd
