------------------------ MODULE MCLocalAuthorization ------------------------
(* One challenge, two candidates, a hosted run that can be rerun, and two  *)
(* verifications at once.  Control commit 0 is reviewed, commit 1 is not;  *)
(* both pin the station's release.                                         *)
EXTENDS LocalAuthorization, TLC

CONSTANTS c1, k1, k2, v1, v2, release

MCPresents  == [c \in {c1} |-> k1]
MCReviewed  == {0}
MCReleaseOf == [s \in Commits |-> release]
MCDrifts    == {-1}
Verifiers   == Permutations({v1, v2})

=============================================================================
