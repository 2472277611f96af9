-------------------------- MODULE VpPromotionProps --------------------------
(***************************************************************************)
(* The properties of VpPromotion.                                          *)
(***************************************************************************)
EXTENDS VpPromotion

(* Type invariant of the catalog, the tables and the sessions. *)
TypeOK ==
    /\ rare \subseteq Quads /\ delta \subseteq Quads
    /\ via \in [Quads -> {NoCall, "single", "other"}]
    /\ dedicated \in BOOLEAN /\ count \in 0 .. MaxCount
    /\ rowLock \in Sessions \cup {NoSession} /\ advisory \in Sessions \cup {NoSession}
    /\ quad \in [Sessions -> Quads \cup {NoQuad}]
    /\ own \in [Sessions -> SUBSET Quads] /\ moved \in [Sessions -> SUBSET Quads]
    /\ cnt \in [Sessions -> -1 .. MaxCount] /\ padded \in BOOLEAN

(* No insert that committed is lost by a promotion, its own or another      *)
(* session's: its row is in vp_rare or in the dedicated table.              *)
NoQuadLost == \A q \in Quads : via[q] # NoCall => q \in rare \cup delta

(* triple_count never falls below the number of rows stored: promotions     *)
(* that recount and writers that add one, in any order, lose no increment.  *)
CountCoversRows == Cardinality(rare) + Cardinality(delta) <= count

(* A quad of a dedicated predicate whose last writer was insert_triple is   *)
(* where SPARQL looks: a row that insert_triple wrote to vp_rare behind a   *)
(* promotion is swept up by the promotion it then starts itself, since      *)
(* triple_count is at the threshold by then.  A bulk load that counts rows  *)
(* it did not store spoils that: the predicate is promoted too early, the   *)
(* promotion recounts, and the late row finds a count below the threshold.  *)
SingleInsertsFound ==
    dedicated /\ ~padded => \A q \in rare \ delta : via[q] # "single"

(* Every call ends, by committing or as a deadlock victim. *)
CallsEnd == \A c \in Sessions : pc[c] # Idle ~> pc[c] = Idle

(* promote.rs: the move `eliminates the window ... where concurrent inserts *)
(* could be orphaned': with no call open, a dedicated predicate has no row  *)
(* left in vp_rare, where SPARQL does not look.                             *)
NoOrphans ==
    (\A c \in Sessions : pc[c] = Idle) /\ dedicated => rare = {}
=============================================================================
