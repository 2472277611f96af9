------------------------------ MODULE MCVpStore ------------------------------
(***************************************************************************)
(* Small instances of VpStore.                                             *)
(***************************************************************************)
EXTENDS VpStoreProps, TLC

Perms == Permutations(Preds) \cup Permutations(Graphs) \cup Permutations(Terms)
=============================================================================
