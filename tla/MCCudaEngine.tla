---------------------------- MODULE MCCudaEngine ----------------------------
(* CudaEngine with the threads as model values. *)
EXTENDS CudaEngine, TLC

CONSTANTS t1, t2

ThreadSymmetry == Permutations({t1, t2})
=============================================================================
