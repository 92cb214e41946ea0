SPECIFICATION FairSpec
CONSTANTS
    Texts = {a, b}
    NoText = NoText
    MaxChunks = 2
    MaxVersions = 4
    CrashBetweenDeletes = TRUE
INVARIANTS
    EmbeddedContentIsSearchable
CHECK_DEADLOCK FALSE
