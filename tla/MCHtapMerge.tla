----------------------------- MODULE MCHtapMerge -----------------------------
(***************************************************************************)
(* Small instances of HtapMerge, and the properties its runs check.        *)
(***************************************************************************)
EXTENDS HtapMergeProps, TLC

Perms == Permutations(Quads) \cup Permutations(Sessions)
=============================================================================
