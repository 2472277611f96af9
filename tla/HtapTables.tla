----------------------------- MODULE HtapTables -----------------------------
(***************************************************************************)
(* The relational content of one HTAP predicate partition, as pure         *)
(* operators on sets of rows (src/src/storage/merge.rs).                    *)
(*                                                                         *)
(* A row is [q |-> quad, i |-> sid]: q stands for the columns (s, o, g) of *)
(* vp_{id}_delta, vp_{id}_main and vp_{id}_tombstones, i for the globally  *)
(* unique statement identifier drawn from statement_id_seq.  The columns   *)
(* `source` and the indexes carry no information the operators use.        *)
(***************************************************************************)
EXTENDS Integers

Row(Quads, Sids) == [q : Quads, i : Sids]

(* The set of quads that occur in a table. *)
QuadsOf(rows) == {r.q : r \in rows}

(* main m LEFT JOIN tombstones t ON (s, o, g) WHERE t.s IS NULL *)
Unmasked(main, tombs) == {r \in main : r.q \notin QuadsOf(tombs)}

(* SELECT DISTINCT ON (s, o, g) ... ORDER BY s, o, g, i ASC *)
OldestPerQuad(rows) == {r \in rows : \A x \in rows : x.q = r.q => r.i <= x.i}

(* What the view vp_{id} reads: htap_view_sql with has_tombstones = ~skip. *)
ViewSource(main, delta, tombs, skip) ==
    (IF skip THEN main ELSE Unmasked(main, tombs)) \cup delta

ViewRows(main, delta, tombs, skip) ==
    OldestPerQuad(ViewSource(main, delta, tombs, skip))

(* The quads a reader of the view sees. *)
VisibleQuads(main, delta, tombs, skip) ==
    QuadsOf(ViewRows(main, delta, tombs, skip))

(* Fault: the anti-join with tombstones is missing. *)
MainNewUnmasked(main, delta, tombs, dedup) == main \cup delta

(* CREATE TABLE main_new AS: (main - tombstones) UNION ALL delta, one row  *)
(* per quad when the GUC dedup_on_merge is set.                             *)
MainNew(main, delta, tombs, dedup) ==
    LET merged == Unmasked(main, tombs) \cup delta
    IN  IF dedup THEN OldestPerQuad(merged) ELSE merged

(* Fault: the comparison with max_sid_at_snapshot is turned round. *)
TombsKeptOld(tombs, maxSid, retentionZero) ==
    IF retentionZero THEN {} ELSE {t \in tombs : t.i <= maxSid}

(* DELETE FROM tombstones WHERE i <= max_sid_at_snapshot, or TRUNCATE when *)
(* tombstone_retention_seconds = 0: the tombstones that are left.           *)
TombsAfterMerge(tombs, maxSid, retentionZero) ==
    IF retentionZero THEN {} ELSE {t \in tombs : t.i > maxSid}
=============================================================================
