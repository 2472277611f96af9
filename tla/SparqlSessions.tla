--------------------------- MODULE SparqlSessions ---------------------------
(***************************************************************************)
(* Sessions that query the store while it changes: the plan cache          *)
(* (src/sparql/plan_cache.rs, plan.rs), the predicate cache                *)
(* (src/storage/catalog.rs), the schema generation (src/storage/mod.rs),   *)
(* the hints of SHACL shapes (src/shacl/hints.rs) and the writers that     *)
(* make what a translation relied on untrue.                               *)
(*                                                                         *)
(* A plan is the SQL of a query, represented by the facts it was           *)
(* translated under; running it is Execute of SparqlTranslate.  The rows a *)
(* promotion moves, and the inserts that race with it, are the subject of  *)
(* VpPromotion: here no write goes to a predicate whose promotion is open. *)
(***************************************************************************)
EXTENDS SparqlTranslate

CONSTANTS
    Sessions,     \* all backends
    Readers,      \* those that run queries
    Preds,        \* the predicates
    Promotable,   \* those that may cross the promotion threshold
    Stores,       \* the stores a run starts from
    Fresh,        \* the quads writers insert and delete
    Hinted,       \* the predicates shapes constrain with sh:minCount 1
    Shapes,
    Asked,        \* the queries the sessions run
    Capacity,     \* pg_ripple.plan_cache_capacity, at least 1
    MaxGen        \* bound: the last schema generation

VARIABLES
    quads,       \* the store
    known,       \* the terms with a dictionary id
    registered,  \* the predicates with a row in _pg_ripple.predicates
    promoted,    \* those whose row has a table_oid
    hints,       \* shape_hints: the shape that owns the min_count_1 hint, or None
    gen,         \* schema_generation_seq: last_value and is_called
    promo,       \* the open promotion: session, predicate, has it moved the rows
    plans,       \* PLAN_CACHE of each session, most recently used first
    asking,      \* a query of a session between its translation and the put
    predCache    \* CACHE of catalog.rs: "absent", "none", "rare" or "dedicated"

vars == <<quads, known, registered, promoted, hints, gen, promo, plans, asking, predCache>>

Store == <<quads, known, registered>>
Caches == <<plans, asking, predCache>>

NoPromo == [b |-> None, p |-> None, moved |-> FALSE]
Uncached == [p \in Preds |-> "absent"]

TermsOf(x) == {x.s, x.p, x.o, x.g} \ {Default}

Catalog ==
    [p \in Preds |-> IF p \in promoted THEN "dedicated"
                     ELSE IF p \in registered THEN "rare" ELSE "none"]

\* What a translation in session b sees.  Triple patterns with a constant predicate
\* go through the predicate cache, paths and variable predicates do not.
FactsOf(cache) ==
    [known |-> known, cat |-> Catalog,
     src |-> [p \in Preds |-> IF cache[p] = "absent" THEN Catalog[p] ELSE cache[p]],
     hints |-> {p \in Hinted : hints[p] # None}]

Database == [quads |-> quads, promoted |-> promoted]

\* The constant predicates of the triple patterns of a query, which its
\* translation resolves.
RECURSIVE Resolved(_)
Resolved(q) ==
    CASE q.op = "bgp" -> {q.tps[k].p : k \in DOMAIN q.tps} \cap Preds
      [] q.op \in {"join", "leftjoin", "union", "minus"} -> Resolved(q.l) \cup Resolved(q.r)
      [] q.op \in {"path", "values"} -> {}
      [] OTHER -> Resolved(q.in)

\* The constant ends of paths: those without an id get one as the query runs.
RECURSIVE Encoded(_)
Encoded(q) ==
    CASE q.op = "path" -> {q.s, q.o} \ Vars
      [] q.op \in {"join", "leftjoin", "union", "minus"} -> Encoded(q.l) \cup Encoded(q.r)
      [] q.op \in {"bgp", "values"} -> {}
      [] OTHER -> Encoded(q.in)

Init ==
    /\ quads \in Stores
    /\ known = UNION {TermsOf(x) : x \in quads}
    /\ registered = {x.p : x \in quads}
    /\ promoted = {}
    /\ hints = [p \in Hinted |-> None]
    /\ gen = [last |-> 1, called |-> FALSE]
    /\ promo = NoPromo
    /\ plans = [b \in Readers |-> <<>>]
    /\ asking = [b \in Readers |-> None]
    /\ predCache = [b \in Readers |-> Uncached]

----------------------------------------------------------------------------
(* Queries: prepare_select. *)

\* A cached plan is found by the query and the generation its key was made with.
Usable(b) == {k \in DOMAIN plans[b] : plans[b][k].gen = gen.last}

Touch(s, k) == <<s[k]>> \o RemoveAt(s, k)

\* plan_cache::get_canonical finds a plan: LruCache::get makes it the most recent.
AskHit(b, q) ==
    /\ asking[b] = None
    /\ b # promo.b
    /\ \E k \in Usable(b) :
        /\ plans[b][k].q = q
        /\ plans' = [plans EXCEPT ![b] = Touch(@, k)]
    /\ known' = known \cup Encoded(q)
    /\ UNCHANGED <<quads, registered, promoted, hints, gen, promo, asking, predCache>>

\* No plan is found: the query is translated, and its predicates are cached.  The
\* field racing is history: the predicates whose promotion was open meanwhile.
AskMiss(b, q) ==
    /\ asking[b] = None
    /\ b # promo.b
    /\ \A k \in Usable(b) : plans[b][k].q # q
    /\ LET facts == FactsOf(predCache[b])
           looked == Resolved(q) \cap known
       IN  /\ asking' = [asking EXCEPT ![b] = [q |-> q, facts |-> facts,
                                               racing |-> {promo.p} \ {None}]]
           /\ predCache' = [predCache EXCEPT ![b] =
                              [p \in Preds |-> IF p \in looked THEN facts.src[p] ELSE @[p]]]
    /\ UNCHANGED <<quads, known, registered, promoted, hints, gen, promo, plans>>

\* plan_cache::put_canonical makes the key anew, with the generation of now; the
\* least recent plan goes when the cache is full.  Then the query runs.
AskPut(b) ==
    /\ asking[b] # None
    /\ LET done == asking[b]
           plan == [q |-> done.q, gen |-> gen.last, facts |-> done.facts, racing |-> done.racing]
           others == SelectSeq(plans[b], LAMBDA x : x.q # done.q \/ x.gen # gen.last)
       IN  /\ plans' = [plans EXCEPT ![b] =
                          SubSeq(<<plan>> \o others, 1, Min({Capacity, Len(others) + 1}))]
           /\ known' = known \cup Encoded(done.q)
    /\ asking' = [asking EXCEPT ![b] = None]
    /\ UNCHANGED <<quads, registered, promoted, hints, gen, promo, predCache>>

\* pg_ripple.plan_cache_reset()
PlanCacheReset(b) ==
    /\ plans[b] # <<>>
    /\ plans' = [plans EXCEPT ![b] = <<>>]
    /\ UNCHANGED <<Store, promoted, hints, gen, promo, asking, predCache>>

\* relcache_inval_cb: any DDL, VACUUM or ANALYZE somewhere.
RelcacheInval(b) ==
    /\ predCache[b] # Uncached
    /\ predCache' = [predCache EXCEPT ![b] = Uncached]
    /\ UNCHANGED <<Store, promoted, hints, gen, promo, plans, asking>>

----------------------------------------------------------------------------
(* Writers. *)

Written(x) ==
    /\ x.p # promo.p
    /\ quads' = quads \cup {x}
    /\ known' = known \cup TermsOf(x)
    /\ registered' = registered \cup {x.p}

\* insert_triple and INSERT DATA touch no cache and no generation.
Insert(x) ==
    /\ x \notin quads
    /\ Written(x)
    /\ UNCHANGED <<promoted, hints, gen, promo, Caches>>

\* A bulk load ends with a reset of the loading session's plans.  A load that brings
\* a predicate over the threshold goes on as a promotion.
BulkLoad(b, x) ==
    /\ x \notin quads
    /\ b # promo.b
    /\ Written(x)
    /\ plans' = [r \in Readers |-> IF r = b THEN <<>> ELSE plans[r]]
    /\ b \in Readers => asking[b] = None
    /\ UNCHANGED <<promoted, hints, gen, promo, asking, predCache>>

Delete(x) ==
    /\ x \in quads
    /\ x.p # promo.p
    /\ quads' = quads \ {x}
    /\ UNCHANGED <<known, registered, promoted, hints, gen, promo, Caches>>

\* populate_hints: the predicate gets an id; a hint that is there keeps its shape.
LoadShape(h, p) ==
    /\ known' = known \cup {p}
    /\ hints' = [hints EXCEPT ![p] = IF @ = None THEN h ELSE @]
    /\ <<known', hints'>> # <<known, hints>>
    /\ UNCHANGED <<quads, registered, promoted, gen, promo, Caches>>

\* drop_shape: the hints of that shape go.
DropShape(h) ==
    /\ \E p \in Hinted : hints[p] = h
    /\ hints' = [p \in Hinted |-> IF hints[p] = h THEN None ELSE hints[p]]
    /\ UNCHANGED <<Store, promoted, gen, promo, Caches>>

----------------------------------------------------------------------------
(* Promotion, one transaction: the generation changes as the steps run, the *)
(* catalog for all at the commit.                                           *)

\* nextval: the first call returns the value the sequence has.
BumpSchemaGeneration ==
    gen' = IF gen.called THEN [gen EXCEPT !.last = @ + 1] ELSE [gen EXCEPT !.called = TRUE]

\* The generation is advanced only when the table is created.
BumpNothing == UNCHANGED gen

\* ensure_vp_table creates the tables and advances the generation.
PromoteBegin(b, p) ==
    /\ promo = NoPromo
    /\ p \in registered \ promoted
    /\ b \in Readers => asking[b] = None
    /\ gen.last < MaxGen
    /\ promo' = [b |-> b, p |-> p, moved |-> FALSE]
    /\ asking' = [r \in Readers |-> IF asking[r] = None THEN None
                                    ELSE [asking[r] EXCEPT !.racing = @ \cup {p}]]
    /\ BumpSchemaGeneration
    /\ UNCHANGED <<Store, promoted, hints, plans, predCache>>

\* The end of promote_predicate_impl without its second bump.
PromoteEndUnbumped ==
    /\ promo # NoPromo /\ ~ promo.moved
    /\ promo' = [promo EXCEPT !.moved = TRUE]
    /\ plans' = [r \in Readers |-> IF r = promo.b THEN <<>> ELSE plans[r]]
    /\ BumpNothing
    /\ UNCHANGED <<Store, promoted, hints, asking, predCache>>

\* The rows are moved, the session's plans are reset and the generation is
\* advanced again.
PromoteEnd ==
    /\ promo # NoPromo /\ ~ promo.moved
    /\ promo' = [promo EXCEPT !.moved = TRUE]
    /\ plans' = [r \in Readers |-> IF r = promo.b THEN <<>> ELSE plans[r]]
    /\ BumpSchemaGeneration
    /\ UNCHANGED <<Store, promoted, hints, asking, predCache>>

\* The commit: every session sees the new table, and is told of it.
PromoteCommit ==
    /\ promo.moved
    /\ promoted' = promoted \cup {promo.p}
    /\ promo' = NoPromo
    /\ predCache' = [r \in Readers |-> Uncached]
    /\ UNCHANGED <<Store, hints, gen, plans, asking>>

\* The transaction fails: a sequence is not rolled back.
PromoteAbort ==
    /\ promo # NoPromo
    /\ promo' = NoPromo
    /\ UNCHANGED <<Store, promoted, hints, gen, Caches>>

Next ==
    \/ \E b \in Readers, q \in Asked : AskHit(b, q) \/ AskMiss(b, q)
    \/ \E b \in Readers : AskPut(b) \/ PlanCacheReset(b) \/ RelcacheInval(b)
    \/ \E x \in Fresh : Insert(x) \/ Delete(x)
    \/ \E b \in Sessions, x \in Fresh : BulkLoad(b, x)
    \/ \E h \in Shapes, p \in Hinted : LoadShape(h, p)
    \/ \E h \in Shapes : DropShape(h)
    \/ \E b \in Sessions, p \in Promotable : PromoteBegin(b, p)
    \/ PromoteEnd \/ PromoteCommit \/ PromoteAbort

Spec == Init /\ [][Next]_vars
=============================================================================
