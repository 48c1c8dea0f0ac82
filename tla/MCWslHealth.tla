---------------------------- MODULE MCWslHealth ----------------------------
(* Two callers beside the boot; the constants are in the cfg. *)
EXTENDS WslHealth

CONSTANTS c1, c2
=============================================================================
