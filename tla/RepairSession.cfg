SPECIFICATION Spec
CONSTANTS
    Texts <- MCTexts
    Limits = {3, 6, 9}
INVARIANTS
    CompletionIsOfTheArtifact
    PlantedDefectIsUndone
    OnlyLoginsRunOut
