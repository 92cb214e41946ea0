SPECIFICATION FairSpec
CONSTANTS
    Texts = {a, b}
    NoText = NoText
    MaxChunks = 2
    MaxVersions = 4
    CrashBetweenDeletes = FALSE
INVARIANTS
    TypeOK
    EmbeddedContentIsSearchable
PROPERTIES
    ImplementsSearchableNote
    ModelWorkEnds
\* The bound on source writes lets the model run dry.
CHECK_DEADLOCK FALSE
