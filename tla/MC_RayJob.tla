----------------------------- MODULE MC_RayJob -----------------------------
(***************************************************************************)
(* RayJob for TLC: three generated cluster names (symmetric model values), *)
(* enough for the initial attempt, one retry and one resume.               *)
(***************************************************************************)
EXTENDS RayJob, TLC

CONSTANTS c1, c2, c3

MC_ClusterNames == {c1, c2, c3}
MC_Symmetry == Permutations(MC_ClusterNames)

=============================================================================
