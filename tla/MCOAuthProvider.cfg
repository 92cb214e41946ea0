SPECIFICATION Spec
CONSTANTS
    Clients = {c1, c2}
    Requests = {r1, r2}
    Tokens = {t1, t2, t3}
    NoRow = NoRow
    MaxTime = 3
    AccessTTL = 2
    RefreshTTL = 2
    CodeTTL = 1
    PendingTTL = 1
    SweepAge = 1
    MaxVerifying = 2
    MaxRevoked = 1
SYMMETRY IdSymmetry
INVARIANTS
    TypeOK
    OneLiveTokenPerConsent
    RevokedRefreshTokensStayGone
    RevokedAccessTokensAreRejected
    ReplaysAreRecognised
PROPERTIES
    SignedInClientsAreKept
CHECK_DEADLOCK FALSE
