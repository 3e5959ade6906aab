-------------------------- MODULE MC_RayJobAttempt --------------------------
(***************************************************************************)
(* The RayJob instance of MC_RayJob, checked against AttemptInv, the       *)
(* inductive invariant behind the attempt theorems of RayJobAttemptProofs. *)
(***************************************************************************)
EXTENDS MC_RayJob, RayJobAttemptProofs

\* The strengthening the proofs use, typing included: an informer cache at
\* most one write behind the store, children owned by the stored cluster
\* name, and the cluster and Ray job of a live attempt kept.
AttemptInductive == TypeInv /\ AttemptInv

=============================================================================
