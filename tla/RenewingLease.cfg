\* A lease granted for longer than it is renewed for, and timers up to two units late.
CONSTANTS
    TTL = 5
    Interval = 3
    FirstTTL = 6
    MaxLag = 2
    None = None
SPECIFICATION Spec
INVARIANTS
    WorkIsCovered
    SettledCallIsQuiet
PROPERTIES
    UncoveredWorkEnds
