-------------------------- MODULE MCSwapExecutor ---------------------------
(* Instances of SwapExecutor for TLC. *)
EXTENDS SwapExecutor, TLC

\* Calls are interchangeable: no action or invariant names one.
SwapSymmetry == Permutations(Swaps)
=============================================================================
