-------------------------- MODULE DictionaryProps --------------------------
(***************************************************************************)
(* The properties of Dictionary.                                           *)
(***************************************************************************)
EXTENDS Dictionary

(* A term has one identifier and an identifier one term, over the committed *)
(* rows and those of open transactions together, and no cache, shared or a  *)
(* backend's own, ever gives a term the identifier of another.              *)
CachesNameTheTerm ==
    LET all == dict \cup UNION {Rows(b) : b \in Backends}
    IN  /\ \A r, s \in all : r.term = s.term <=> r.id = s.id
        /\ \A r \in all :
             /\ \A w \in Ways : shared[w].id = r.id => shared[w].term = r.term
             /\ \A b \in Backends : \A t \in DOMAIN encode[b] : encode[b][t] = r.id => t = r.term

(* `stale hash->id mappings cannot poison subsequent transactions': every   *)
(* shared entry names a committed row, or a row of an open transaction that *)
(* will evict it on ROLLBACK, unless a savepoint rollback or a vacuum took  *)
(* a row of the same term away: that leaves a copy behind, and eviction     *)
(* removes one copy only.                                                   *)
SharedEntriesBacked ==
    \A w \in Ways : LET e == shared[w] IN
        \/ e = NoEntry \/ e \in dict
        \/ \E b \in Backends : e \in Rows(b) /\ e.term \in tracked[b]
        \/ e.term \in {r.term : r \in undone \cup vacuumed}

(* A committed triple uses an identifier that nobody can decode in three    *)
(* cases only: a cache handed it out while the transaction that made its    *)
(* row was still open, a savepoint rollback undid a row of the term, or a   *)
(* vacuum removed one.  Plain rollbacks, waits for other transactions,      *)
(* evictions and flushes, in any order, never cause one.                    *)
LostIdsExplained ==
    \A u \in stored :
        \/ u \in dict \cup borrowed
        \/ u.term \in {r.term : r \in undone \cup vacuumed}

(* clear_caches: `stale hash->id mappings do not leak across transaction    *)
(* boundaries ... causing subsequent transactions to ... store VP triples   *)
(* with non-existent dictionary IDs': what a committed triple uses can be   *)
(* decoded.                                                                 *)
StoredIdsDecode == stored \subseteq dict
=============================================================================
