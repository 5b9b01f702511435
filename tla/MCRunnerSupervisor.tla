------------------------ MODULE MCRunnerSupervisor ------------------------
(* Two calls of the supervisor and one dispatched run for each of them.    *)
EXTENDS RunnerSupervisor

CONSTANTS c1, c2, r1, r2

MCCalls == {c1, c2}
MCRuns  == {r1, r2}
MCDispatched == [r \in MCRuns |-> IF r = r1 THEN c1 ELSE c2]

=============================================================================
