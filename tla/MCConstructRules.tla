--------------------------- MODULE MCConstructRules ---------------------------
(* Rules for TLC: a pipeline, a join of a source with what another rule     *)
(* makes of it, a shared target and a subtraction.                          *)
EXTENDS ConstructRules

CONSTANTS g1, g2, g3

Pipeline ==
    {[reads |-> {g1}, minus |-> {}, tgt |-> g2],
     [reads |-> {g1, g2}, minus |-> {}, tgt |-> g3],
     [reads |-> {g1}, minus |-> {g2}, tgt |-> g3],
     [reads |-> {g3}, minus |-> {}, tgt |-> g2]}

=============================================================================
