SPECIFICATION Spec
CONSTANTS
    UnitsRun = {"json_object_strict", "repair_bundle"}
    Suite <- MCSuite
    Expected = 3
    MaxCalls = 17
    MaxElapsed = 2
    MaxTurns = 2
INVARIANTS
    ChargesAreTight
    PassIsEarned
    NothingUntestedIsConfirmed
    TransientNeedsTheBell
PROPERTY CallsOnlyWhenAllowed
