---------------------------- MODULE MCSelfUpdate ----------------------------
(* Instances of SelfUpdate for TLC. *)
EXTENDS SelfUpdate, TLC

\* Processes are only compared for equality.
UpdaterSymmetry == Permutations(Updaters)
=============================================================================
