--------------------------- MODULE MCStoreLocking ---------------------------
(* Instances of StoreLocking for TLC.                                       *)
EXTENDS StoreLocking, TLC

CONSTANTS t1, t2, a1, a2, a3, a4, k1, k2, p1, p2, c1, c2

\* Two admitted attempts with an environment each, and two new ones that pair
\* the project of the one with the account of the other.
CrossKey == (a1 :> k1) @@ (a2 :> k2) @@ (a3 :> k2) @@ (a4 :> k1)
CrossProject == (a1 :> p1) @@ (a2 :> p2) @@ (a3 :> p2) @@ (a4 :> p1)
CrossAccount == (a1 :> c1) @@ (a2 :> c2) @@ (a3 :> c1) @@ (a4 :> c2)

TxnSymmetry == Permutations(Txns)
=============================================================================
