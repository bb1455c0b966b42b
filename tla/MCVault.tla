------------------------------ MODULE MCVault ------------------------------
(* Instances of Vault for TLC. *)
EXTENDS Vault, TLC

\* Processes, passwords and wallets are only compared for equality.
VaultSymmetry ==
  Permutations(Processes) \cup Permutations(Passwords) \cup Permutations(Addresses)
=============================================================================
