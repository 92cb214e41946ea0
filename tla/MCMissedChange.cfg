SPECIFICATION FairSpec
CONSTANTS
    note = note
    file = file
    Paths <- MCPaths
    Notes <- MCNotes
    MaxChanges = 3
    MaxTokens = 4
INVARIANTS
    NoChangeIsMissed
\* The bound on disk changes lets the model run dry.
CHECK_DEADLOCK FALSE
