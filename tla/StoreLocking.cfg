\* Two transactions of any operation over crossed environments.
CONSTANTS
    t1 = t1  t2 = t2
    a1 = a1  a2 = a2  a3 = a3  a4 = a4
    k1 = k1  k2 = k2  p1 = p1  p2 = p2  c1 = c1  c2 = c2
    Txns = {t1, t2}
    Ops = {"prepare", "reconcileReservation", "fixtureMutationWithReservation", "renew",
           "transition", "beginStripeIntent", "reconcileStripeIntent", "handoff", "cleanup"}
    Attempts = {a1, a2, a3, a4}
    Admitted = {a1, a2}
    Key <- CrossKey
    Project <- CrossProject
    Account <- CrossAccount
    None = None
SPECIFICATION Spec
SYMMETRY TxnSymmetry
INVARIANTS
    EveryDeadlockHasPrepare
    TakeoverExcludesPriorOwner
CHECK_DEADLOCK FALSE
