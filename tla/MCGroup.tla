------------------------------- MODULE MCGroup -------------------------------
(* Group on small instances; the constants are in the cfg files. *)
EXTENDS Group, TLC

Symmetry == Permutations(Member \ {Creator})
=============================================================================
