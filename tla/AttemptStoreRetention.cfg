\* Attempts admitted one after another against tight quotas.
CONSTANTS
    a1 = a1  a2 = a2  a3 = a3
    k1 = k1  k2 = k2  k3 = k3
    p1 = p1  p2 = p2
    c1 = c1  c2 = c2
    r1 = r1  r2 = r2  r3 = r3
    Attempts = {a1, a2, a3}
    Keys = {k1}
    Projects = {p1}
    Accounts = {c1}
    KeyProject <- OneKey
    Runs = {r1}
    RunId <- DistinctRuns
    Operations = {}
    Cases = {case1}
    Namespaces = {n1}
    FixtureIds = {f1, f2}
    Policies <- TightOrLoose
    Usages <- SmallOrLarge
    TTLs = {1}
    MaxLockWait = 0
    MaxClock = 2
    MaxFence = 3
    None = None
SPECIFICATION Spec
SYMMETRY AttemptSymmetry
INVARIANTS
    CapacityWithinQuota
    ClaimedRowsAreReserved
CHECK_DEADLOCK FALSE
