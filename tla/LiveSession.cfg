SPECIFICATION SessionSpec
CONSTANTS
    Candidates <- MCCandidates
    MaxAttempts = 2
    Backoff = 0
    MaxSwitches = 2
    MaxWait = 3
    MaxEscalations = 3
    MaxIterations = 4
    MaxStale = 2
    Criteria = {"validation", "compilation"}
    Tools = {"compile"}
    Hints = {1, 2}
    Wrapped = {1}
    Handle = 1
    ClientRetries = 1
    Budget <- NoTokenBudget
    Configured = 4
    LiveLimit = 8
INVARIANTS
    LedgerHolds
    StopsOnlyWhenSpent
    StallIsEarned
    RestoredIsTrue
    RetriesMultiply
    RetriesAreTold
PROPERTY RoutesForward
