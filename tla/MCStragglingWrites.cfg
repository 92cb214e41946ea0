SPECIFICATION Spec
CONSTANTS
    Sources = {a, b}
    Old = old
    New = new
    Patches = {q}
    Absent = Absent
    Nobody = Nobody
    Batch = 2
    MaxRetries = 1
SYMMETRY SourceSymmetry
INVARIANT PatchesAlwaysSurvive
