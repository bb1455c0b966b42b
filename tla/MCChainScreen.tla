--------------------------- MODULE MCChainScreen ---------------------------
(* Instances of ChainScreen for TLC. *)
EXTENDS ChainScreen, TLC

\* Wallets, chains and amounts are only compared for equality.
ScreenSymmetry ==
  Permutations(Wallets) \cup Permutations(Chains) \cup Permutations(Amounts)
=============================================================================
