SPECIFICATION Spec
CONSTANTS
    Ordered <- MCShort
    Policies <- OnePolicy
    Elapses = {0, 1}
    RetryAfters = {2, 3}
    Verdicts = {"pass", "fail"}
    FaultyExecutor = TRUE
    MaxFaults = 2
    NoFile = NoFile
PROPERTIES
    RefinesSuite
    Settles
