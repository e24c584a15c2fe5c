------------------------------ MODULE MCCatalog ------------------------------
(* Small instances of Catalog for TLC. *)
EXTENDS Catalog, TLC

CONSTANTS c1, c2, c3, m1, root

TreeC == c1 :> root @@ c2 :> c1 @@ c3 :> c2

HomeC == m1 :> c3
=============================================================================
