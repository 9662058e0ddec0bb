SPECIFICATION CycleSpec
CONSTANTS
    Words <- MCWords
    Fits = {"whole", "argument", "open"}
    Quotes = {"nothing", "delimiter", "structure"}
    Limits = {0, 1, 2, 3, 5}
INVARIANTS
    PlantedDefectIsRepaired
    BlamedLineReturns
PROPERTY Ends
