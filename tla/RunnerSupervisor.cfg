SPECIFICATION Spec
CONSTANTS
    c1 = c1
    c2 = c2
    r1 = r1
    r2 = r2
    Calls <- MCCalls
    Runs <- MCRuns
    Dispatched <- MCDispatched
    TTL = 1
    Timeout = 2
    MaxAge = 1
    MaxCrashes = 1
    MaxStrays = 1
    NoCall = NoCall
    NoRun = NoRun
INVARIANTS
    TypeOK
    OneRunnerAtATime
    OrphanRunnerLatches
    OnlyAttestedCallsBuild
    RunnerStartsAmongKnownPeers
    RunnerSeesOwnDisplay
PROPERTY EveryCallEnds
CHECK_DEADLOCK FALSE
