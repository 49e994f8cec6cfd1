-------------------------- MODULE MCWorkerCapacity --------------------------
(* Instances of WorkerCapacity for TLC: two runs share the strict limit and  *)
(* a third, looser one overlaps them.                                        *)
EXTENDS WorkerCapacity, TLC

CONSTANTS strict1, strict2, loose

StrictRuns == {strict1, strict2}

MCRuns == {strict1, strict2, loose}

MCLimit == [r \in MCRuns |-> IF r \in StrictRuns THEN 1 ELSE 2]

\* For liveness: one strict run and the loose one, whose two workers can both
\* be blocked by the strict limit.
MCPair == {strict1, loose}

MCPairLimit == [r \in MCPair |-> MCLimit[r]]

StrictSymmetry == Permutations(StrictRuns)
=============================================================================
