SPECIFICATION ConstructionSpec
CONSTANTS
    Paths = {"main", "lib", "bin"}
    Sources = {"", "code", "code_nl"}
    Blank = {""}
    TrimEnd <- MCTrimEnd
    Edits = {"trim", "end", "clear", "nil"}
    Effect <- MCEffect
    Degenerate = {"nil"}
    PrimaryPath = "primary"
    Failed = Failed
    Specifications <- MCSpecifications
    InitialContents <- MCInitialContents
    Drafts <- MCDrafts
    Definitions <- MCDefinitions
    Overrides <- MCOverrides
    MainPath = "main"
    CorrectionBatches <- MCCorrectionBatches
    FileBatches <- MCFileBatches
    AllowedTools = {"compile", "validate", "repair_diagnostic", "apply_correction", "apply_file_operations", "run_tests", "run_clippy"}
    Registered = {"compile", "validate", "run_tests", "run_clippy", "check_format", "apply_correction", "apply_file_operations"}
    DetectsStall = TRUE
    MaxIterations = 3
INVARIANTS
    PolicyForesees
    ViewsAgree
    ReportedAsItEnded
    OnlyKnownGaps
PROPERTIES
    ImplementsVersions
    BlankIsForever
