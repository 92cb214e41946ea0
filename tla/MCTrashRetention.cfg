SPECIFICATION Spec
CONSTANTS
    Files = {f, g}
    NameCount = 2
    None = None
    Placeholder = Placeholder
    Retention = 1
    MaxTime = 2
SYMMETRY FileSymmetry
INVARIANTS
    TypeOK
    SweptCopiesWereDue
    RecordedCopiesStayTracked
    CopiesAreNeverOverwritten
\* The bound on the clock and on the files lets the model run dry.
CHECK_DEADLOCK FALSE
