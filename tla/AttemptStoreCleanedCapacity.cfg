\* Is the capacity of a cleaned-up attempt releasable?
CONSTANTS
    a1 = a1  a2 = a2  a3 = a3
    k1 = k1  k2 = k2  k3 = k3
    p1 = p1  p2 = p2
    c1 = c1  c2 = c2
    r1 = r1  r2 = r2  r3 = r3
    Attempts = {a1}
    Keys = {k1}
    Projects = {p1}
    Accounts = {c1}
    KeyProject <- OneKey
    Runs = {r1, r2}
    RunId <- DistinctRuns
    Operations = {charge}
    Cases = {}
    Namespaces = {}
    FixtureIds = {}
    Policies <- Ample
    Usages <- OneUsage
    TTLs = {1}
    MaxLockWait = 0
    MaxClock = 2
    MaxFence = 3
    None = None
SPECIFICATION Spec
INVARIANTS
    CleanedCapacityReleasable
CHECK_DEADLOCK FALSE
