------------------------------ MODULE QuadStore ------------------------------
(***************************************************************************)
(* What one predicate partition promises its users: a set of quads, and    *)
(* which quads each kind of step may touch.                                *)
(*                                                                         *)
(*   - an insert makes its quad readable and leaves every other alone;     *)
(*   - a delete may hide its quad and leaves every other alone;            *)
(*   - a merge is a reorganisation: it may change only the quads that were *)
(*     written while it ran (`raced').                                     *)
(*                                                                         *)
(* The last clause is the strongest one the storage layer keeps: the       *)
(* runs htap_lost_insert and htap_lost_delete show that a merge does lose  *)
(* writes that commit while it runs.                                       *)
(***************************************************************************)
CONSTANT Quads

VARIABLES store,    \* the quads a reader sees
          raced,    \* the quads written since the running merge started
          merging   \* TRUE while a merge is running

vars == <<store, raced, merging>>

Init == store = {} /\ raced = {} /\ merging = FALSE

Race(q) == raced' = IF merging THEN raced \cup {q} ELSE raced

InsertQuad(q) ==
    /\ store' = store \cup {q}
    /\ Race(q)
    /\ UNCHANGED merging

DeleteQuad(q) ==
    /\ store' \in {store, store \ {q}}
    /\ Race(q)
    /\ UNCHANGED merging

BeginMerge ==
    /\ ~merging
    /\ merging' = TRUE
    /\ raced' = {}
    /\ UNCHANGED store

EndMerge ==
    /\ merging
    /\ merging' = FALSE
    /\ raced' = {}
    /\ store' \subseteq Quads
    /\ \A q \in Quads \ raced : q \in store' <=> q \in store

Next == \/ \E q \in Quads : InsertQuad(q) \/ DeleteQuad(q)
        \/ BeginMerge
        \/ EndMerge

Spec == Init /\ [][Next]_vars
=============================================================================
