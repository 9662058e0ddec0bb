SPECIFICATION ProtocolSpec
CONSTANTS
    HttpStatuses = {200, 307, 401, 404, 429, 503}
    Hints = {2}
    Batches <- MCBatches
    Files <- MCFiles
    SourceLength = 4
    MaxProposals = 2
INVARIANTS
    PathIsOfItsEdit
