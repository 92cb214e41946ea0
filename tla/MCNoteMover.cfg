SPECIFICATION Spec
CONSTANTS
    Sources = {a, b, c}
    Old = old
    New = new
    Patches = {q}
    Absent = Absent
    Nobody = Nobody
    Batch = 2
    MaxRetries = 1
SYMMETRY SourceSymmetry
INVARIANTS
    TypeOK
    NoteIsNeverLost
    AbortedMovesWroteNoNote
    LinksFollowTheNote
    HostFilesAreKept
    PatchesSurviveMoves
