\* Two projects share one Stripe account; a takeover moves one resource of two.
CONSTANTS
    a1 = a1  a2 = a2  a3 = a3
    k1 = k1  k2 = k2  k3 = k3
    p1 = p1  p2 = p2
    c1 = c1  c2 = c2
    r1 = r1  r2 = r2  r3 = r3
    Attempts = {a1, a2, a3}
    Keys = {k1, k3}
    Projects = {p1, p2}
    Accounts = {c1}
    KeyProject <- KeyEach
    Runs = {r1, r2}
    RunId <- DistinctRuns
    Operations = {}
    Cases = {}
    Namespaces = {}
    FixtureIds = {}
    Policies <- Ample
    Usages <- OneUsage
    TTLs = {1}
    MaxLockWait = 1
    MaxClock = 2
    MaxFence = 3
    None = None
SPECIFICATION Spec
SYMMETRY KeyEachSymmetry
INVARIANTS
    SharedResourceExclusion
PROPERTIES
    SupersededAttemptFrozen
CHECK_DEADLOCK FALSE
