-------------------------- MODULE MCShellDelivery --------------------------
(* ShellDelivery on small instances; the constants are in the cfg files. *)
EXTENDS ShellDelivery, TLC
=============================================================================
