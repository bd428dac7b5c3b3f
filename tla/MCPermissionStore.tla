-------------------------- MODULE MCPermissionStore --------------------------
(* Two namespaces of a cluster, a check of a permission that the query of  *)
(* the first covers too, and the cluster query.                            *)
EXTENDS PermissionStore, TLC

CONSTANTS cq, a1, b1, k1, p1, p2, p3, l1

MCCovers == cq :> {p3} @@ a1 :> {p1} @@ b1 :> {p2} @@ k1 :> {p1}
MCListOf == a1 :> l1 @@ b1 :> l1
=============================================================================
