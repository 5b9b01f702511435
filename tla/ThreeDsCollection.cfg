\* One collection of each kind of case.
CONSTANTS
    Timeout = 1
    TTL = 1
    MaxTime = 1
    MaxSignals = 1
    Cases = {"success", "frictionless", "declined", "foreign", "delayed", "replay"}
    MaxLag = 1
    MaxDeliveries = 2
SPECIFICATION Spec
INVARIANTS
    TypeOK
    SettledByOwnCause
    AbortYieldsNoResult
    ResultReadUnderFence
    PassedReplayIsFresh
    PassedDelayedWasDelayed
CHECK_DEADLOCK FALSE
