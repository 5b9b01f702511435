\* One attempt: two kinds of fixture, two Stripe resources, two cleanup calls.
CONSTANTS
    Kinds = {"catalog", "billing_identity"}
    MaxRestarts = 1
    Resources = {1, 2}
    MaxCalls = 2
SPECIFICATION Spec
INVARIANTS
    TypeOK
    UnconfirmedRowEndsCase
    ReleasedLeavesNothing
PROPERTY
    ImplementsIntentLog
CHECK_DEADLOCK FALSE
