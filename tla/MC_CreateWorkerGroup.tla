------------------------ MODULE MC_CreateWorkerGroup ------------------------
EXTENDS CreateWorkerGroup, TLC

CONSTANTS p1, p2, g1, g2

MC_Invocations == {p1, p2}
MC_GroupNames == {g1, g2}
\* The default flags (1, 1, 10) scaled to Counts, and a minimum above the
\* default maximum (--worker-min-replicas 20).
MC_Flags == {[replicas |-> 1, minReplicas |-> 1, maxReplicas |-> 2],
             [replicas |-> 1, minReplicas |-> 2, maxReplicas |-> 1]}
\* The group `kubectl ray create cluster` makes.
MC_InitialGroups == <<[name |-> g1, replicas |-> 1, minReplicas |-> 1,
                       maxReplicas |-> 2, suspend |-> FALSE]>>
MC_Symmetry == Permutations(MC_Invocations)

=============================================================================
