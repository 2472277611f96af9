---------------------------- MODULE MCDictionary ----------------------------
(***************************************************************************)
(* Small instances of Dictionary.                                          *)
(***************************************************************************)
EXTENDS DictionaryProps, TLC

Symmetry == Permutations(Names) \cup Permutations(Ways)
=============================================================================
