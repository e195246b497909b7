----------------------------- MODULE MCCatalog ------------------------------
(* Images and requests are interchangeable. *)
EXTENDS Catalog, TLC

Symmetry == Permutations(Images) \cup Permutations(Requests)
=============================================================================
