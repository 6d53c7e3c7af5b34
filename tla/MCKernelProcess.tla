-------------------------- MODULE MCKernelProcess --------------------------
(***************************************************************************)
(* Model-checking instance of KernelProcess.                               *)
(***************************************************************************)
EXTENDS KernelProcess, TLC

Symmetry == Permutations(Calls)
=============================================================================
