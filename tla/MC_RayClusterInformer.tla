------------------------ MODULE MC_RayClusterInformer ------------------------
(***************************************************************************)
(* The informer for TLC: two RayClusters in two namespaces, the informer   *)
(* bound to one of them, and a selector that accepts one of two labels,    *)
(* so that writes move objects into and out of the informer's scope.       *)
(***************************************************************************)
EXTENDS RayClusterInformer, TLC

CONSTANTS r1, r2, ns1, ns2, la, lb

MC_NamespaceOf == (r1 :> ns1) @@ (r2 :> ns2)

=============================================================================
