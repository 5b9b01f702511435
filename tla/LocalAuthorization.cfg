SPECIFICATION Spec
CONSTANTS
    c1 = c1
    k1 = k1
    k2 = k2
    release = release
    v1 = v1
    v2 = v2
    Challenges = {c1}
    Candidates = {k1, k2}
    Moving = {k1}
    Presents <- MCPresents
    HostedRuns = {h1}
    Verifications = {v1, v2}
    Reviewed <- MCReviewed
    ReleaseOf <- MCReleaseOf
    StationRelease = release
    TTL = 1
    Skew = 0
    MaxMain = 1
    MaxTime = 1
    Drifts <- MCDrifts
    MaxMoves = 2
    None = None
INVARIANTS
    TypeOK
    OneReceiptPerChallenge
    ReceiptAtCurrentControl
    ReceiptIsYoung
    ReceiptForOwnDispatch
    PrerequisitesHeldTogether
PROPERTY AbortedCallNeverConsumes
CHECK_DEADLOCK FALSE
SYMMETRY Verifiers
