SPECIFICATION Spec
CONSTANT MaxCalls = 6
INVARIANTS
    ClosesByProtocol
    PhaseAgreesWithFlags
