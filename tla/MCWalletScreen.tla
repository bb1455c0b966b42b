--------------------------- MODULE MCWalletScreen ---------------------------
(* Instances of WalletScreen for TLC. *)
EXTENDS WalletScreen, TLC

\* No action or invariant names a phrase.
PhraseSymmetry == Permutations(Phrases)
=============================================================================
