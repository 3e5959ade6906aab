--------------------------- MODULE DesiredReplicas ---------------------------
(***************************************************************************)
(* The Desired-Replica Calculator (spec.md section 4.1), as pinned down by *)
(* util_test.go: the desired replica count of a worker group, and the      *)
(* cluster-wide desired, minimum and maximum worker counts.                *)
(*                                                                         *)
(* A worker group is a record [replicas, minReplicas, maxReplicas,         *)
(* suspend]; replicas may be Unset (a nil pointer).                        *)
(***************************************************************************)
EXTENDS Naturals, Sequences

\* The value of a nil replicas pointer.
CONSTANT Unset

ASSUME UnsetAssumption == Unset \notin Nat

WorkerGroups(Counts) ==
    [replicas: Counts \cup {Unset}, minReplicas: Counts,
     maxReplicas: Counts, suspend: BOOLEAN]

MaxOf(a, b) == IF a >= b THEN a ELSE b
MinOf(a, b) == IF a <= b THEN a ELSE b

\* Raise to the floor, then cut at the ceiling: with minReplicas >
\* maxReplicas the ceiling wins.
Clamp(x, lo, hi) == MinOf(MaxOf(x, lo), hi)

\* A mutant that follows the order of spec.md 4.1 literally: an unset
\* replicas yields minReplicas before the bounds are compared.
GetWorkerGroupDesiredReplicasUnsetFirst(g) ==
    IF g.suspend THEN 0
    ELSE IF g.replicas = Unset THEN g.minReplicas
    ELSE Clamp(g.replicas, g.minReplicas, g.maxReplicas)

\* A suspended group wants no workers; otherwise the requested count (or
\* minReplicas when unset) is clamped into [minReplicas, maxReplicas].
GetWorkerGroupDesiredReplicas(g) ==
    IF g.suspend THEN 0
    ELSE Clamp(IF g.replicas = Unset THEN g.minReplicas ELSE g.replicas,
               g.minReplicas, g.maxReplicas)

\* The sum of F over the groups of a sequence.
GroupSum(gs, F(_)) ==
    LET S[i \in 0..Len(gs)] == IF i = 0 THEN 0 ELSE S[i - 1] + F(gs[i])
    IN  S[Len(gs)]

CalculateDesiredReplicas(gs) == GroupSum(gs, GetWorkerGroupDesiredReplicas)

\* A mutant that counts the minimum of suspended groups too.
CalculateMinReplicasWithSuspended(gs) ==
    GroupSum(gs, LAMBDA g : g.minReplicas)

\* Suspended groups contribute nothing to the cluster's bounds.
CalculateMinReplicas(gs) ==
    GroupSum(gs, LAMBDA g : IF g.suspend THEN 0 ELSE g.minReplicas)

CalculateMaxReplicas(gs) ==
    GroupSum(gs, LAMBDA g : IF g.suspend THEN 0 ELSE g.maxReplicas)

=============================================================================
