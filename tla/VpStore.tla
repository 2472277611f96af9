------------------------------- MODULE VpStore -------------------------------
(***************************************************************************)
(* The storage API of pg_ripple, one call at a time: the rare table, the   *)
(* promotion of predicates to dedicated HTAP tables, inserts, deletes,     *)
(* graph operations, deduplication, merging and the SID catalog            *)
(* (src/src/storage/ops, promote.rs, vp_rare_io.rs, merge.rs).             *)
(*                                                                         *)
(* A call is one transaction, and the calls come from one session, so that *)
(* its statement identifiers grow (HtapMerge has several sessions and the  *)
(* blocks of identifiers they cache).  part[p] gathers all that is kept for *)
(* predicate p: its rows in vp_rare, the four tables of its HTAP split     *)
(* (meaningful once dedicated), its row in _pg_ripple.predicates and its   *)
(* row in _pg_ripple.statements.                                           *)
(***************************************************************************)
EXTENDS HtapTables, FiniteSets

CONSTANTS
    Preds,          \* predicate ids
    Terms,          \* (s, o) pairs
    Graphs,         \* graph ids
    Threshold,      \* pg_ripple.vp_promotion_threshold
    DedupOnMerge,   \* settings of pg_ripple.dedup_on_merge
    MaxSid          \* bound on statement_id_seq

(* Ids are 64-bit integers, so there are finitely many.                     *)
ASSUME StoreAssumption ==
    /\ IsFiniteSet(Preds) /\ IsFiniteSet(Terms) /\ IsFiniteSet(Graphs)
    /\ Threshold \in Nat \ {0}
    /\ DedupOnMerge \subseteq BOOLEAN
    /\ MaxSid \in Nat

VARIABLES
    seq,    \* last value the session drew from statement_id_seq
    part,   \* per predicate: its tables and catalog rows
    ret,    \* what the last call returned: a count of rows
    silent  \* history: predicates with a tombstone nobody counted

vars == <<seq, part, ret, silent>>

Quads == [t : Terms, g : Graphs]
Sids  == 1 .. MaxSid
NoRange == [lo |-> 0, hi |-> 0]

InGraph(rows, g) == {r \in rows : r.q.g = g}
OfQuad(rows, q)  == {r \in rows : r.q = q}
SubtractBare(n, k) == n - k                         \* fault: no GREATEST
Subtract(n, k)   == IF k > n THEN 0 ELSE n - k     \* GREATEST(0, n - k)

(* What readers of the dedicated view see; SPARQL reads nothing else for a  *)
(* predicate with a table_oid, find_triples adds vp_rare.                   *)
ViewOf(P) ==
    IF P.dedicated THEN ViewRows(P.main, P.delta, P.tombs, P.skip) ELSE {}

Readable(p) == QuadsOf(ViewOf(part[p])) \cup QuadsOf(part[p].rare)

Init ==
    /\ seq = 0
    /\ part = [p \in Preds |->
                 [dedicated |-> FALSE, rare |-> {}, delta |-> {}, main |-> {},
                  tombs |-> {}, skip |-> FALSE, tombCount |-> 0, count |-> 0,
                  range |-> NoRange]]
    /\ ret = 0
    /\ silent = {}

-----------------------------------------------------------------------------
(* Fault: the rows are copied, not moved. *)
PromotedCopy(P) ==
    [P EXCEPT !.dedicated = TRUE,
              !.delta = @ \cup {r \in P.rare : r.q \notin QuadsOf(P.delta)}]

(* promote_predicate_impl: create the split if there is none, move the rare *)
(* rows into delta (DO NOTHING on conflict), recount, set table_oid.        *)
Promoted(P) ==
    LET moved == {r \in P.rare : r.q \notin QuadsOf(P.delta)}
    IN  [P EXCEPT !.dedicated = TRUE,
                  !.rare = {},
                  !.delta = @ \cup moved,
                  !.count = Cardinality(P.delta \cup moved)]

(* INSERT INTO delta ... ON CONFLICT DO UPDATE SET i = EXCLUDED.i, and the  *)
(* triple_count that grows whether or not the quad was new.                 *)
DeltaUpserted(P, q, sid) ==
    [P EXCEPT !.delta = (@ \ OfQuad(@, q)) \cup {[q |-> q, i |-> sid]},
              !.count = @ + 1]

(* insert_into_vp_rare: a quad already there is left alone and not counted. *)
RareInserted(P, q, sid) ==
    IF q \in QuadsOf(P.rare)
      THEN P
      ELSE [P EXCEPT !.rare = @ \cup {[q |-> q, i |-> sid]}, !.count = @ + 1]

Inserted(P, q, sid) ==
    IF P.dedicated THEN DeltaUpserted(P, q, sid) ELSE RareInserted(P, q, sid)

(* insert_encoded_triple, reached through insert_triple_by_ids. *)
InsertEncoded(p, q) ==
    /\ seq < MaxSid
    /\ seq' = seq + 1
    /\ part' = [part EXCEPT ![p] = Inserted(@, q, seq + 1)]
    /\ ret' = 1
    /\ UNCHANGED silent

(* insert_triple: the same, and a rare predicate whose count has reached    *)
(* the threshold is promoted in the same transaction.                       *)
InsertTriple(p, q) ==
    /\ seq < MaxSid
    /\ seq' = seq + 1
    /\ LET P == Inserted(part[p], q, seq + 1)
       IN  part' = [part EXCEPT ![p] =
                      IF ~part[p].dedicated /\ P.count >= Threshold THEN Promoted(P) ELSE P]
    /\ ret' = 1
    /\ UNCHANGED silent

-----------------------------------------------------------------------------
(* batch_insert_encoded: quads already in delta (or rare) keep their row;   *)
(* the count grows by the size of the batch.                                *)
BatchInserted(P, quads, sidOf) ==
    LET held  == QuadsOf(IF P.dedicated THEN P.delta ELSE P.rare)
        fresh == {[q |-> q, i |-> sidOf[q]] : q \in quads \ held}
    IN  IF P.dedicated
          THEN [P EXCEPT !.delta = @ \cup fresh, !.count = @ + Cardinality(quads)]
          ELSE [P EXCEPT !.rare  = @ \cup fresh, !.count = @ + Cardinality(quads)]

(* promote_rare_predicates: every predicate with enough rows in vp_rare. *)
RarePromoted(parts) ==
    [p \in Preds |-> IF Cardinality(parts[p].rare) >= Threshold
                       THEN Promoted(parts[p]) ELSE parts[p]]

(* A bulk load of one predicate's triples, which ends with the promotion of *)
(* the rare predicates.  sidOf: the order in which the rows are numbered;   *)
(* a row that is not stored may or may not leave a gap in the sequence.     *)
BulkLoad(p, quads) ==
    /\ quads # {}
    /\ seq + Cardinality(quads) <= MaxSid
    /\ seq' = seq + Cardinality(quads)
    /\ \E sidOf \in [quads -> (seq + 1) .. (seq + Cardinality(quads))] :
          /\ \A q, r \in quads : sidOf[q] = sidOf[r] => q = r
          /\ part' = RarePromoted([part EXCEPT ![p] = BatchInserted(@, quads, sidOf)])
    /\ ret' = Cardinality(quads)
    /\ UNCHANGED silent

PromoteRare ==
    /\ part' = RarePromoted(part)
    /\ ret' = Cardinality({p \in Preds : Cardinality(part[p].rare) >= Threshold})
    /\ UNCHANGED <<seq, silent>>

-----------------------------------------------------------------------------
(* Fault: the view keeps its skip form. *)
TombsCountedOnly(P, n) == [P EXCEPT !.tombCount = @ + n]

(* tombstone_count + n; a previous count of 0 makes the view aware again.   *)
TombsCounted(P, n) ==
    [P EXCEPT !.tombCount = @ + n, !.skip = IF P.tombCount = 0 THEN FALSE ELSE @]

(* Fault: no tombstone is written for a row of main. *)
DedicatedDeletedBare(P, q, sid) ==
    [P EXCEPT !.delta = @ \ OfQuad(@, q), !.count = Subtract(@, 1)]

(* delete_triple and delete_triple_by_ids on the dedicated tables: the      *)
(* delta row, or else a tombstone and the number of rows main has.          *)
DedicatedDeleted(P, q, sid) ==
    IF q \in QuadsOf(P.delta)
      THEN [P EXCEPT !.delta = @ \ OfQuad(@, q), !.count = Subtract(@, 1)]
      ELSE [TombsCounted(P, 1) EXCEPT
              !.tombs = @ \cup {[q |-> q, i |-> sid]},
              !.count = Subtract(@, Cardinality(OfQuad(P.main, q)))]

DedicatedDeletedRows(P, q) ==
    IF q \in QuadsOf(P.delta) THEN 1 ELSE Cardinality(OfQuad(P.main, q))

RareDeleted(P, q) ==
    [P EXCEPT !.rare = @ \ OfQuad(@, q),
              !.count = Subtract(@, Cardinality(OfQuad(P.rare, q)))]

DeleteTriple(p, q) ==
    LET P == part[p]
        tomb == P.dedicated /\ q \notin QuadsOf(P.delta)
        D == IF P.dedicated THEN DedicatedDeleted(P, q, seq + 1) ELSE P
    IN  /\ tomb => seq < MaxSid
        /\ seq' = IF tomb THEN seq + 1 ELSE seq
        /\ part' = [part EXCEPT ![p] = RareDeleted(D, q)]
        /\ ret' = Cardinality(OfQuad(P.rare, q)) +
                  (IF P.dedicated THEN DedicatedDeletedRows(P, q) ELSE 0)
        /\ UNCHANGED silent

-----------------------------------------------------------------------------
(* One tombstone per row of main in the graph. *)
GraphTombs(P, g, first) ==
    {[q |-> q, i |-> first] : q \in QuadsOf(InGraph(P.main, g))}

(* clear_graph_by_id and drop_graph on one predicate: delta rows go, main   *)
(* rows get tombstones.                                                     *)
GraphCleared(P, g, sid) ==
    LET d == InGraph(P.delta, g)
        m == InGraph(P.main, g)
    IN  [P EXCEPT !.delta = @ \ d,
                  !.tombs = @ \cup GraphTombs(P, g, sid),
                  !.count = Subtract(@, Cardinality(d) + Cardinality(m))]

(* Fault: the tombstones are not counted, as in drop_graph. *)
GraphClearedUncounted(P, g, sid) == GraphCleared(P, g, sid)

(* Only clear_graph_by_id counts its tombstones and repairs the view.       *)
GraphClearedCounted(P, g, sid) ==
    LET m == InGraph(P.main, g)
    IN  IF m = {} THEN GraphCleared(P, g, sid)
        ELSE TombsCounted(GraphCleared(P, g, sid), Cardinality(m))

RareCleared(P, g) == [P EXCEPT !.rare = @ \ InGraph(@, g)]

GraphRows(g) ==
    UNION {{<<p, r>> : r \in InGraph(part[p].rare, g)} \cup
           (IF part[p].dedicated
              THEN {<<p, "d", r>> : r \in InGraph(part[p].delta, g)} \cup
                   {<<p, "m", r>> : r \in InGraph(part[p].main, g)}
              ELSE {}) : p \in Preds}

(* The tombstones a graph operation writes are numbered from the sequence;  *)
(* nothing compares their numbers with each other, so they share one.       *)
NeedsTombs(g) == \E p \in Preds : part[p].dedicated /\ InGraph(part[p].main, g) # {}

ClearGraph(g) ==
    /\ NeedsTombs(g) => seq < MaxSid
    /\ seq' = IF NeedsTombs(g) THEN seq + 1 ELSE seq
    /\ part' = [p \in Preds |->
                  RareCleared(IF part[p].dedicated
                                THEN GraphClearedCounted(part[p], g, seq + 1)
                                ELSE part[p], g)]
    /\ ret' = Cardinality(GraphRows(g))
    /\ UNCHANGED silent

DropGraph(g) ==
    /\ NeedsTombs(g) => seq < MaxSid
    /\ seq' = IF NeedsTombs(g) THEN seq + 1 ELSE seq
    /\ part' = [p \in Preds |->
                  RareCleared(IF part[p].dedicated
                                THEN GraphCleared(part[p], g, seq + 1)
                                ELSE part[p], g)]
    /\ ret' = Cardinality(GraphRows(g))
    /\ silent' = silent \cup
          {p \in Preds : part[p].dedicated /\ InGraph(part[p].main, g) # {}}

-----------------------------------------------------------------------------
(* deduplicate_predicate: delta and vp_rare keep the oldest row of a quad;  *)
(* a quad with several rows in main gets a tombstone.                       *)
Duplicated(rows) == {q \in QuadsOf(rows) : Cardinality(OfQuad(rows, q)) > 1}

Deduplicated(P, sid) ==
    IF P.dedicated
      THEN [P EXCEPT !.delta = OldestPerQuad(@),
                     !.tombs = @ \cup {[q |-> q, i |-> sid] : q \in Duplicated(P.main)}]
      ELSE [P EXCEPT !.rare = OldestPerQuad(@)]

Deduplicate(p) ==
    LET tomb == part[p].dedicated /\ Duplicated(part[p].main) # {}
    IN  /\ tomb => seq < MaxSid
        /\ seq' = IF tomb THEN seq + 1 ELSE seq
        /\ part' = [part EXCEPT ![p] = Deduplicated(@, seq + 1)]
        /\ ret' = IF tomb THEN Cardinality(Duplicated(part[p].main)) ELSE 0
        /\ silent' = IF tomb THEN silent \cup {p} ELSE silent

-----------------------------------------------------------------------------
(* The SID range a merge records for a predicate in _pg_ripple.statements;  *)
(* an empty main leaves the old entry.                                      *)
RangeOf(main, old) ==
    IF main = {} THEN old
    ELSE [lo |-> CHOOSE n \in {r.i : r \in main} : \A r \in main : n <= r.i,
          hi |-> CHOOSE n \in {r.i : r \in main} : \A r \in main : n >= r.i]

(* merge_predicate with nobody else about: no tombstone is newer than the   *)
(* merge, so none is left and the view takes its skip form.                 *)
Merged(P, dedup) ==
    LET new == MainNew(P.main, P.delta, P.tombs, dedup)
    IN  [P EXCEPT !.main = new, !.delta = {}, !.tombs = {}, !.skip = TRUE,
                  !.tombCount = 0, !.count = Cardinality(new),
                  !.range = RangeOf(new, @)]

MergePredicate(p) ==
    /\ part[p].dedicated
    /\ \E dedup \in DedupOnMerge : part' = [part EXCEPT ![p] = Merged(@, dedup)]
    /\ ret' = Cardinality(part'[p].main)
    /\ silent' = silent \ {p}
    /\ UNCHANGED seq

(* compact: merge_all merges the predicates whose delta has rows.           *)
MergeDue == {p \in Preds : part[p].dedicated /\ part[p].delta # {}}

Compact ==
    /\ \E dedup \in DedupOnMerge :
          part' = [p \in Preds |-> IF p \in MergeDue THEN Merged(part[p], dedup) ELSE part[p]]
    /\ ret' = Cardinality(UNION {{p} \X part'[p].main : p \in MergeDue})
    /\ silent' = silent \ MergeDue
    /\ UNCHANGED seq

-----------------------------------------------------------------------------
(* get_statement_by_sid: the predicate whose recorded range holds the SID   *)
(* (the one with the largest sid_min), then every dedicated view, then      *)
(* vp_rare.  The set of quads it may answer with.                           *)
InRange(p, sid) == part[p].range # NoRange /\ part[p].range.lo <= sid /\ sid <= part[p].range.hi

CatalogPreds(sid) ==
    {p \in Preds : InRange(p, sid) /\
        \A x \in Preds : InRange(x, sid) => part[x].range.lo <= part[p].range.lo}

Fetch(rowsOf, preds, sid) ==
    UNION {{<<p, r.q>> : r \in {x \in rowsOf[p] : x.i = sid}} : p \in preds}

(* Fault: a miss in the catalog's predicate is final. *)
GetStatementFromCatalog(sid) ==
    Fetch([p \in Preds |-> ViewOf(part[p]) \cup part[p].rare], CatalogPreds(sid), sid)

(* The lookup itself. *)
GetStatementBySid(sid) ==
    LET views == [p \in Preds |-> ViewOf(part[p])]
        rares == [p \in Preds |-> part[p].rare]
        hit   == Fetch(views, CatalogPreds(sid), sid)
        scan  == Fetch(views, Preds, sid)
    IN  IF hit # {} THEN hit ELSE IF scan # {} THEN scan ELSE Fetch(rares, Preds, sid)

-----------------------------------------------------------------------------
Next ==
    \/ \E p \in Preds, q \in Quads :
          InsertEncoded(p, q) \/ InsertTriple(p, q) \/ DeleteTriple(p, q)
    \/ \E p \in Preds, quads \in SUBSET Quads : BulkLoad(p, quads)
    \/ PromoteRare
    \/ \E g \in Graphs : ClearGraph(g) \/ DropGraph(g)
    \/ \E p \in Preds : MergePredicate(p) \/ Deduplicate(p)
    \/ Compact

Spec == Init /\ [][Next]_vars
=============================================================================
