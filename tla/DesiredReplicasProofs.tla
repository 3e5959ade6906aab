------------------------ MODULE DesiredReplicasProofs ------------------------
(***************************************************************************)
(* GetWorkerGroupDesiredReplicas is the count of [minReplicas, maxReplicas] *)
(* nearest to the request, for every worker group with natural counts,     *)
(* and maxReplicas when the bounds are inverted.  The cluster-wide sums    *)
(* (AggregateWithinBounds) are defined by a recursive function over the    *)
(* groups and stay model-checked.                                          *)
(***************************************************************************)
EXTENDS MC_DesiredReplicas, SequenceTheorems, TLAPS

\* Clamping a natural request into ordered bounds gives the one count of
\* the bounds nearest to it.
LEMMA ClampIsNearest ==
    ASSUME NEW want \in Nat, NEW lo \in Nat, NEW hi \in Nat, lo <= hi
    PROVE  /\ Clamp(want, lo, hi) \in lo..hi
           /\ \A w \in lo..hi : w # Clamp(want, lo, hi)
                  => Dist(Clamp(want, lo, hi), want) < Dist(w, want)
BY DEF Clamp, MinOf, MaxOf, Dist

\* The reference's choice: a count of lo..hi nearest to want.
NearestIn(want, lo, hi) ==
    CHOOSE v \in lo..hi : \A w \in lo..hi : Dist(v, want) <= Dist(w, want)

\* With ordered bounds the reference's CHOOSE picks the clamped count.
LEMMA ChooseNearest ==
    ASSUME NEW want \in Nat, NEW lo \in Nat, NEW hi \in Nat, lo <= hi
    PROVE  NearestIn(want, lo, hi) = Clamp(want, lo, hi)
<1>. DEFINE c == Clamp(want, lo, hi)
            Nearest(v) == \A w \in lo..hi : Dist(v, want) <= Dist(w, want)
<1>1. c \in lo..hi /\ \A w \in lo..hi : w # c => Dist(c, want) < Dist(w, want)
  BY ClampIsNearest
<1>2. Nearest(c)
  BY <1>1 DEF Dist
<1>3. PICK v \in lo..hi : v = CHOOSE u \in lo..hi : Nearest(u)
  BY <1>1
<1>4. Nearest(v)
  BY <1>1, <1>2, <1>3
<1>5. v = c
  <2>1. Dist(v, want) <= Dist(c, want)
    BY <1>1, <1>4
  <2>2. Dist(v, want) \in Nat /\ Dist(c, want) \in Nat
    BY <1>1 DEF Dist
  <2>3. v # c => Dist(c, want) < Dist(v, want)
    BY <1>1
  <2>. QED
    BY <2>1, <2>2, <2>3
<1>. QED
  BY <1>3, <1>5, Zenon DEF Nearest, NearestIn

\* util_test TestGetWorkerGroupDesiredReplicas and spec.md 4.1, for every
\* worker group with natural counts: a suspended group wants 0, inverted
\* bounds give maxReplicas, and otherwise the desired count is the count of
\* [minReplicas, maxReplicas] nearest to replicas (minReplicas when unset).
THEOREM DesiredIsNearest ==
    ASSUME NEW g \in WorkerGroups(Nat)
    PROVE  GetWorkerGroupDesiredReplicas(g) = RefDesired(g)
<1>. DEFINE want == IF g.replicas = Unset THEN g.minReplicas ELSE g.replicas
            lo == g.minReplicas
            hi == g.maxReplicas
<1>1. want \in Nat /\ lo \in Nat /\ hi \in Nat
  BY DEF WorkerGroups
<1>2. GetWorkerGroupDesiredReplicas(g) =
          IF g.suspend THEN 0 ELSE Clamp(want, lo, hi)
  BY DEF GetWorkerGroupDesiredReplicas
<1>0. RefDesired(g) =
          IF g.suspend THEN 0
          ELSE IF lo > hi THEN hi
          ELSE CHOOSE v \in lo..hi : \A w \in lo..hi : Dist(v, want) <= Dist(w, want)
  BY DEF RefDesired
<1>3. CASE g.suspend
  BY <1>0, <1>2, <1>3
<1>4. CASE ~g.suspend /\ lo > hi
  <2>1. Clamp(want, lo, hi) = hi
    BY <1>1, <1>4 DEF Clamp, MinOf, MaxOf
  <2>2. RefDesired(g) = hi
    BY <1>0, <1>4
  <2>. QED
    BY <1>2, <1>4, <2>1, <2>2
<1>5. CASE ~g.suspend /\ lo <= hi
  <2>0. ~(lo > hi)
    BY <1>1, <1>5
  <2>1. RefDesired(g) = NearestIn(want, lo, hi)
    BY <1>0, <1>5, <2>0, Zenon DEF NearestIn
  <2>2. NearestIn(want, lo, hi) = Clamp(want, lo, hi)
    BY <1>1, <1>5, ChooseNearest
  <2>. QED
    BY <1>2, <1>5, <2>1, <2>2
<1>. QED
  BY <1>1, <1>3, <1>4, <1>5

\* The run's invariant, for every set Counts of natural counts: every
\* cluster the calculator is given agrees with the reference on every group.
THEOREM DesiredMatchesReferenceHolds == Spec => []DesiredMatchesReference
<1>. DEFINE IInv == groups \in Seq(WorkerGroups(Counts))
<1>1. Init => IInv
  <2> SUFFICES ASSUME Init PROVE IInv
    OBVIOUS
  <2>1. PICK n \in 0..2 : groups \in [1..n -> WorkerGroups(Counts)]
    BY DEF Init
  <2>2. n \in Nat
    OBVIOUS
  <2>3. groups \in UNION {[1..m -> WorkerGroups(Counts)] : m \in Nat}
    BY <2>1, <2>2, Zenon
  <2>. QED
    BY <2>3, SeqDef, Zenon
<1>2. IInv /\ [Next]_groups => IInv'
  BY DEF Next
<1>3. IInv => DesiredMatchesReference
  <2>. SUFFICES ASSUME IInv, NEW i \in 1..Len(groups)
                PROVE  GetWorkerGroupDesiredReplicas(groups[i]) = RefDesired(groups[i])
    BY DEF DesiredMatchesReference
  <2>0. groups[i] \in WorkerGroups(Counts)
    OBVIOUS
  <2>1. WorkerGroups(Counts) \subseteq WorkerGroups(Nat)
    BY CountsAssumption, Zenon DEF WorkerGroups
  <2>2. groups[i] \in WorkerGroups(Nat)
    BY <2>0, <2>1
  <2>. QED
    BY <2>2, DesiredIsNearest
<1>. QED
  BY <1>1, <1>2, <1>3, PTL DEF Spec

=============================================================================
