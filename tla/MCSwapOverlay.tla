--------------------------- MODULE MCSwapOverlay ---------------------------
(* Instances of SwapOverlay for TLC. *)
EXTENDS SwapOverlay, TLC

\* The two tokens the risk check looks at are interchangeable.
CheckedSymmetry == Permutations(Checked)
=============================================================================
