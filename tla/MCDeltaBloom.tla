---------------------------- MODULE MCDeltaBloom -----------------------------
(* Two predicates that share one of their two positions. *)
EXTENDS DeltaBloom, TLC

CONSTANTS p, q

MCBloomBits == (p :> {1, 2}) @@ (q :> {2, 3})
==============================================================================
