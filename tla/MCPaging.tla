------------------------------ MODULE MCPaging ------------------------------
(* Products are interchangeable. *)
EXTENDS Paging, TLC

Symmetry == Permutations(Products)
=============================================================================
