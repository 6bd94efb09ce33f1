------------------------- MODULE MCClientLifecycle -------------------------
(* Model checking of ClientLifecycle: the callers are interchangeable. *)
EXTENDS ClientLifecycle, TLC

CallerSymmetry == Permutations(Callers)
=============================================================================
