------------------------- MODULE MC_DesiredReplicas -------------------------
(***************************************************************************)
(* Every cluster of at most two worker groups with counts in Counts, as    *)
(* initial states; the calculator is compared with a reference.            *)
(***************************************************************************)
EXTENDS DesiredReplicas, TLC

CONSTANT Counts

ASSUME CountsAssumption == Counts \subseteq Nat

VARIABLE groups

Init == groups \in UNION {[1..n -> WorkerGroups(Counts)] : n \in 0..2}
Next == UNCHANGED groups
Spec == Init /\ [][Next]_groups

\* Reference: suspended -> 0; inverted bounds -> maxReplicas; otherwise the
\* count of [minReplicas, maxReplicas] nearest to the request.
Dist(a, b) == IF a >= b THEN a - b ELSE b - a
RefDesired(g) ==
    LET want == IF g.replicas = Unset THEN g.minReplicas ELSE g.replicas
    IN  IF g.suspend THEN 0
        ELSE IF g.minReplicas > g.maxReplicas THEN g.maxReplicas
        ELSE CHOOSE v \in g.minReplicas..g.maxReplicas :
                \A w \in g.minReplicas..g.maxReplicas :
                    Dist(v, want) <= Dist(w, want)

\* util_test TestGetWorkerGroupDesiredReplicas and spec.md 4.1: the
\* calculator agrees with the reference on every group, including unset
\* replicas with inverted bounds (test 5) and suspended groups (test 6).
DesiredMatchesReference ==
    \A i \in 1..Len(groups) :
        GetWorkerGroupDesiredReplicas(groups[i]) = RefDesired(groups[i])

\* spec.md section 4.1: for groups with minReplicas <= maxReplicas the
\* cluster-wide desired count lies between the cluster-wide minimum and
\* maximum, both summed over the non-suspended groups only.
AggregateWithinBounds ==
    (\A i \in 1..Len(groups) : groups[i].minReplicas <= groups[i].maxReplicas)
    => /\ CalculateMinReplicas(groups) <= CalculateDesiredReplicas(groups)
       /\ CalculateDesiredReplicas(groups) <= CalculateMaxReplicas(groups)

=============================================================================
