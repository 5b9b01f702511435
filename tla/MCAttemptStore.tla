--------------------------- MODULE MCAttemptStore ---------------------------
(* Instances of AttemptStore for TLC.                                       *)
EXTENDS AttemptStore, TLC

CONSTANTS a1, a2, a3, k1, k2, k3, p1, p2, c1, c2, r1, r2, r3

\* Keys k1 and k3 belong to different projects.
OneKey == (k1 :> p1)
KeyEach == (k1 :> p1) @@ (k3 :> p2)

\* r1 and r2 are runs of their own, r3 is a second attempt of the run r1.
DistinctRuns == (r1 :> r1) @@ (r2 :> r2)
WithRerun == (r1 :> r1) @@ (r2 :> r2) @@ (r3 :> r1)

Vector(attempts, rows, users, objects) ==
    [q \in QuotaKeys |-> CASE q = "attempts" -> attempts
                           [] q = "databaseRows" -> rows
                           [] q = "authUsers" -> users
                           [] q = "stripeObjects" -> objects]

Ample == {Vector(9, 9, 9, 9)}
OneUsage == {Vector(1, 1, 0, 0)}
TightOrLoose == {Vector(2, 3, 1, 1), Vector(2, 2, 1, 1)}
SmallOrLarge == {Vector(1, 1, 0, 1), Vector(1, 2, 1, 0)}

\* Attempts are interchangeable, and so are runs where none is a rerun, the Stripe
\* accounts, and two projects with a key each.
ProjectSwap == (p1 :> p2) @@ (p2 :> p1) @@ (k1 :> k3) @@ (k3 :> k1)
AttemptSymmetry == Permutations(Attempts)
TwoAccountsSymmetry ==
    Permutations(Attempts) \cup Permutations(Runs) \cup Permutations(Accounts)
KeyEachSymmetry == Permutations(Attempts) \cup Permutations(Runs) \cup {ProjectSwap}
=============================================================================
