SPECIFICATION FairSpec
CONSTANTS
    note = note
    file = file
    Paths <- MCPaths
    Notes <- MCNotes
    MaxChanges = 4
    MaxTokens = 4
INVARIANTS
    TypeOK
    StalePathsAreBeingRead
    TokensHaveHolders
PROPERTIES
    IndexNeverGoesBack
    IndexCatchesUp
\* The bound on disk changes lets the model run dry.
CHECK_DEADLOCK FALSE
