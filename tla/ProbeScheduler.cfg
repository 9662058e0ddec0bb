SPECIFICATION Spec
CONSTANTS
    Ordered <- MCOrdered
    Policies <- TwoPolicies
    Elapses = {0, 1}
    RetryAfters = {2, 3}
    Verdicts = {"pass", "fail"}
    FaultyExecutor = TRUE
    MaxFaults = 1
    NoFile = NoFile
INVARIANTS
    RunsFromDisk
    RestartIsAccepted
    WaitingIsRetryable
    LostCallsBounded
PROPERTIES
    DurableProgress
    DecidedIsFinal
