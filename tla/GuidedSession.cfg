CONSTANTS
    Specifications <- MCSpecifications
    Agents = {"model", "mock", "gap"}
    Drivers = {"goal_driven", "plain"}
    Earlier <- MCEarlier
    RecentWindow = 2
    DiagnosticWindow = 3
    MaxIterations = 4
SPECIFICATION Spec
INVARIANTS
    UnhappyEndsHadMetTheGoal
    FinishIsBelieved
PROPERTIES
    FollowsRepairCycle
    PipelineInOrder
