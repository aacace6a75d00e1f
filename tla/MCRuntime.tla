------------------------------ MODULE MCRuntime ------------------------------
(* Instances of Runtime for TLC. *)
EXTENDS Runtime

CONSTANTS r1, r2, r3
=============================================================================
