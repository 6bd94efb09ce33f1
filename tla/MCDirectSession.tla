-------------------------- MODULE MCDirectSession --------------------------
(* DirectSession with two clients; the constants are in the cfg files. *)
EXTENDS DirectSession, TLC

ClientSymmetry == Permutations(Client)
BodySymmetry   == Permutations(Body)
Symmetry       == ClientSymmetry \cup BodySymmetry
=============================================================================
