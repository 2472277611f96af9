--------------------------- MODULE SparqlTranslate ---------------------------
(***************************************************************************)
(* The translation of SPARQL patterns to SQL (src/sparql/sqlgen.rs,        *)
(* translate/ and property_path.rs), by what the SQL returns.              *)
(*                                                                         *)
(* A translation fixes facts about the store in the text of the SQL: which *)
(* terms have an id, where each predicate's rows are, which predicates a   *)
(* shape makes mandatory.  The SQL may run later, from the plan cache, on  *)
(* another state of the store.  Hence two arguments everywhere: the facts  *)
(*   B = [known, src, cat, hints]                                          *)
(* of the time of translation and the database                             *)
(*   D = [quads, promoted]                                                 *)
(* of the time of execution.  C is the context of the walk, the fields     *)
(* graph_filter and variable_graph of Ctx.                                 *)
(*                                                                         *)
(* A Fragment is the set of variables it binds, its from_items (does the   *)
(* item have a column g; does its SQL name a table of a predicate), its    *)
(* rows, each with the graph of every item, and whether PostgreSQL rejects *)
(* the SQL.  A variable an OPTIONAL left unbound is NULL, here None.       *)
(***************************************************************************)
EXTENDS SparqlAlgebra

CONSTANT MaxDepth   \* pg_ripple.max_path_depth; 0 is no limit

ASSUME MaxDepthAssumption == MaxDepth \in Nat

NoCtx == [gf |-> None, vg |-> FALSE]

\* SQL equality that must hold: NULL equals nothing.
Same(a, b) == a # None /\ a = b

NoVars == [v \in {} |-> None]

EmptyFragment ==
    [vars |-> {}, items |-> <<>>, rows |-> {[b |-> NoVars, gs |-> <<>>]}, err |-> FALSE]

\* A fragment with the one condition FALSE, which binds nothing.
FalseFragment == [EmptyFragment EXCEPT !.rows = {}]

\* A fragment of one from_item.
OneItem(vars, hasG, vp, rows, err) ==
    [vars |-> vars, items |-> <<[g |-> hasG, vp |-> vp]>>, rows |-> rows, err |-> err]

NamesTable(f) == \E k \in DOMAIN f.items : f.items[k].vp

----------------------------------------------------------------------------
(* Leaf scans. *)

\* The rows the table expression of a predicate returns: vp_rare has none of
\* a predicate that has been promoted since.
TableExpr(src, p, D) ==
    {q \in D.quads : /\ q.p = p
                     /\ src = (IF p \in D.promoted THEN "dedicated" ELSE "rare")}

\* The UNION ALL over the tables the catalog listed, and vp_rare.
AllPredicates(B, D) ==
    {q \in D.quads : q.p \in D.promoted => B.cat[q.p] = "dedicated"}

Filtered(quads, C) == InGraph(quads, C.gf)

\* One triple pattern: constants without an id match nothing.
ScanTriple(tp, B, D, C) ==
    LET scanned == IF tp.p \in Vars THEN AllPredicates(B, D)
                   ELSE IF tp.p \in B.known THEN TableExpr(B.src[tp.p], tp.p, D)
                   ELSE {}
        terms == {tp[f] : f \in Positions} \ Vars
        found == {q \in Filtered(scanned, C) : terms \subseteq B.known /\ Matches(tp, q)}
    IN  OneItem(VarsOf(tp), TRUE, tp.p \in Vars \/ (tp.p \in B.known /\ B.src[tp.p] # "none"),
                {[b |-> Bindings(tp, q), gs |-> <<q.g>>] : q \in found}, FALSE)

----------------------------------------------------------------------------
(* Fragment::merge: the condition on a shared variable is                  *)
(* existing IS NULL OR existing = col, and the binding COALESCE of both.   *)

MergeCondition(l, r) ==
    \A v \in DOMAIN l.b \cap DOMAIN r.b : l.b[v] = None \/ Same(l.b[v], r.b[v])

Coalesce(l, r) ==
    [v \in DOMAIN l \cup DOMAIN r |->
        IF v \in DOMAIN l /\ (v \notin DOMAIN r \/ l[v] # None) THEN l[v] ELSE r[v]]

Merge(l, r) ==
    [vars |-> l.vars \cup r.vars,
     items |-> l.items \o r.items,
     rows |-> {[b |-> Coalesce(x[1].b, x[2].b), gs |-> x[1].gs \o x[2].gs] :
                  x \in {y \in l.rows \X r.rows : MergeCondition(y[1], y[2])}},
     err |-> l.err \/ r.err]

----------------------------------------------------------------------------
(* Property paths: rows of s, o and, inside GRAPH ?g, g.  A column g that  *)
(* is not there is "-", one that is NULL is None.                          *)

Row(s, o, g) == [s |-> s, o |-> o, g |-> g]

\* The join of two path relations on the middle node and on g.
StepJoin(R, S) ==
    {Row(x[1].s, x[2].o, x[1].g) :
        x \in {y \in R \X S : y[1].o = y[2].s /\ Same(y[1].g, y[2].g)}}

\* WITH RECURSIVE ... CYCLE from an anchor, n more steps deep.
Steps(anchor, R, n) ==
    FoldLeft(LAMBDA A, i : A \cup StepJoin(A, R), anchor, [i \in 1..n |-> i])

Depth(R) == IF MaxDepth = 0 THEN Cardinality(R) + 1 ELSE MaxDepth

\* build_all_nodes_sql: subjects and objects of the active graph.
AllNodes(B, D, C) ==
    LET quads == Filtered(AllPredicates(B, D), C)
        gcol(q) == IF C.vg THEN q.g ELSE "-"
    IN  {Row(q.s, q.s, gcol(q)) : q \in quads} \cup {Row(q.o, q.o, gcol(q)) : q \in quads}

\* The zero-hop rows of p*: the constant start, or all nodes and the constant end.
StarZero(sf, of, B, D, C) ==
    IF sf # None
      THEN IF C.vg THEN {x \in AllNodes(B, D, C) : x.s = sf} ELSE {Row(sf, sf, "-")}
      ELSE AllNodes(B, D, C) \cup
             IF of = None THEN {} ELSE {Row(of, of, IF C.vg THEN None ELSE "-")}

\* The zero-hop rows of p?: a constant end has no graph.
OptZero(sf, of, B, D, C) ==
    LET const == IF sf # None THEN sf ELSE of
    IN  IF const # None THEN {Row(const, const, IF C.vg THEN None ELSE "-")}
        ELSE AllNodes(B, D, C)

RECURSIVE CompilePath(_, _, _, _, _, _)
CompilePath(path, sf, of, B, D, C) ==
    LET gcol(q) == IF C.vg THEN q.g ELSE "-"
        base == CompilePath(path.in, None, None, B, D, C)
        from == {x \in base : sf \in {None, x.s}}
        here ==
            CASE path.op = "pred" ->
                    {Row(q.s, q.o, gcol(q)) :
                        q \in IF path.p \in B.known
                              THEN Filtered(TableExpr(B.cat[path.p], path.p, D), C)
                              ELSE {}}
              [] path.op = "neg" ->
                    {Row(q.s, q.o, "-") :
                        q \in {x \in AllPredicates(B, D) : x.p \notin path.ps \cap B.known}}
              [] path.op = "inv" ->
                    {Row(x.o, x.s, x.g) : x \in CompilePath(path.in, of, sf, B, D, C)}
              [] path.op = "seq" ->
                    StepJoin(CompilePath(path.l, sf, None, B, D, C),
                             CompilePath(path.r, None, of, B, D, C))
              [] path.op = "alt" ->
                    CompilePath(path.l, sf, of, B, D, C)
                        \cup CompilePath(path.r, sf, of, B, D, C)
              [] path.op = "opt" ->
                    CompilePath(path.in, sf, of, B, D, C) \cup OptZero(sf, of, B, D, C)
              [] path.op = "plus" -> Steps(from, base, Depth(base) - 1)
              [] path.op = "star" ->
                    Steps(from, base, Depth(base) - 1)
                        \cup Steps(StarZero(sf, of, B, D, C), base, Depth(base))
    IN  {x \in here : sf \in {None, x.s} /\ of \in {None, x.o}}

\* A negated set reads a union without a column g, which the conditions on the
\* graph refer to.
RECURSIVE HasNegated(_)
HasNegated(path) ==
    CASE path.op = "pred" -> FALSE
      [] path.op = "neg" -> TRUE
      [] path.op \in {"seq", "alt"} -> HasNegated(path.l) \/ HasNegated(path.r)
      [] OTHER -> HasNegated(path.in)

TranslatePath(q, B, D, C) ==
    LET fixed(t) == IF t \in Vars THEN None ELSE t
        found == CompilePath(q.path, fixed(q.s), fixed(q.o), B, D, C)
        ends == {q.s, q.o} \cap Vars
    IN  OneItem(ends, C.vg, TRUE,
                {[b |-> [v \in ends |-> IF v = q.s THEN x.s ELSE x.o], gs |-> <<x.g>>] :
                    x \in {y \in found : q.s = q.o => y.s = y.o}},
                HasNegated(q.path) /\ (C.vg \/ C.gf # None))

----------------------------------------------------------------------------
(* Patterns. *)

\* shacl_right_is_mandatory: every predicate of the block has a shape with
\* sh:minCount 1, whatever the class that shape is about.
ShaclRightIsMandatory(q, B) ==
    /\ q.op = "bgp"
    /\ q.tps # <<>>
    /\ \A k \in DOMAIN q.tps : q.tps[k].p \in B.known \cap B.hints

\* One arm of a UNION ALL: NULL for the variables of the other one.
UnionArm(f, vars, C) ==
    {[b |-> [v \in vars |-> IF v \in f.vars THEN x.b[v] ELSE None],
      gs |-> <<IF C.vg /\ f.items # <<>> THEN x.gs[1] ELSE None>>] : x \in f.rows}

TranslateUnion(l, r, C) ==
    LET vars == l.vars \cup r.vars
        noG(f) == C.vg /\ f.items # <<>> /\ ~ f.items[1].g
    IN  OneItem(vars, C.vg, NamesTable(l) \/ NamesTable(r),
                UnionArm(l, vars, C) \cup UnionArm(r, vars, C),
                l.err \/ r.err \/ noG(l) \/ noG(r))

\* EXCEPT on the shared columns.
ExcludesEqual(x, y, shared) == \A v \in shared : x.b[v] = y.b[v]

\* NOT EXISTS with conditions that know of NULL.
Excludes(x, y, shared) ==
    /\ \E v \in shared : x.b[v] # None /\ y.b[v] # None
    /\ \A v \in shared : x.b[v] = None \/ y.b[v] = None \/ x.b[v] = y.b[v]

TranslateMinus(l, r) ==
    LET shared == l.vars \cap r.vars
        kept == {x \in l.rows : ~ \E y \in r.rows : Excludes(x, y, shared)}
    IN  IF shared = {} THEN l
        ELSE OneItem(l.vars, FALSE, NamesTable(l) \/ NamesTable(r),
                     {[b |-> x.b, gs |-> <<None>>] : x \in kept}, l.err \/ r.err)

\* LEFT JOIN, or INNER JOIN, of two subqueries ON equality of the shared
\* variables; right is the rows of r that pass the expression.
TranslateLeftJoin(l, r, right, inner) ==
    LET shared == l.vars \cap r.vars
        vars == l.vars \cup r.vars
        good(x) == {y \in right : \A v \in shared : Same(x.b[v], y.b[v])}
        combine(x, y) == [v \in vars |-> IF v \in l.vars THEN x.b[v] ELSE y.b[v]]
        alone(x) == [v \in vars |-> IF v \in l.vars THEN x.b[v] ELSE None]
        rows == {combine(x[1], x[2]) :
                    x \in {y \in l.rows \X right : y[2] \in good(y[1])}}
                \cup {alone(x) : x \in {y \in l.rows : ~ inner /\ good(y) = {}}}
    IN  OneItem(vars, FALSE, NamesTable(l) \/ NamesTable(r),
                {[b |-> m, gs |-> <<None>>] : m \in rows}, l.err \/ r.err)

\* GRAPH ?g that binds the graph of the first item and leaves the others alone.
TranslateGraphVarFirstOnly(f, var) ==
    IF f.items = <<>> THEN f
    ELSE IF ~ f.items[1].g
    THEN [f EXCEPT !.err = TRUE, !.rows = {}, !.vars = @ \cup {var}]
    ELSE [f EXCEPT !.vars = @ \cup {var},
                   !.rows = {[b |-> Coalesce(x.b, [v \in {var} |-> x.gs[1]]), gs |-> x.gs] :
                                x \in {y \in f.rows : y.gs[1] \notin {None, Default}}}]

\* GRAPH ?g: the column g of the first item, not 0, and that of every other item
\* that names a table equal to it.  An item without that column is an SQL error.
TranslateGraphVar(f, var) ==
    LET others == {k \in 2..Len(f.items) : f.items[k].vp}
        kept == {x \in f.rows : /\ x.gs[1] \notin {None, Default}
                                /\ \A k \in others : Same(x.gs[k], x.gs[1])
                                /\ var \in f.vars => Same(x.b[var], x.gs[1])}
    IN  IF f.items = <<>> THEN f
        ELSE IF ~ f.items[1].g \/ \E k \in others : ~ f.items[k].g
        THEN [f EXCEPT !.err = TRUE, !.rows = {}, !.vars = @ \cup {var}]
        ELSE [f EXCEPT !.vars = @ \cup {var},
                       !.rows = {[b |-> Coalesce(x.b, [v \in {var} |-> x.gs[1]]),
                                  gs |-> x.gs] : x \in kept}]

\* VALUES: an IRI without an id becomes 0, the id of the default graph.
TranslateValues(q, B) ==
    LET cell(t) == IF t = None \/ t \in B.known THEN t ELSE Default
    IN  IF q.vs = {} \/ q.rows = {} THEN FalseFragment
        ELSE OneItem(q.vs, FALSE, FALSE,
                     {[b |-> [v \in q.vs |-> cell(r[v])], gs |-> <<None>>] : r \in q.rows},
                     FALSE)

\* BIND: an expression that cannot be translated leaves the variable unbound.
TranslateExtend(f, v, t) ==
    IF t \in Vars \ f.vars THEN f
    ELSE [f EXCEPT !.vars = @ \cup {v},
                   !.rows = {[x EXCEPT !.b = [w \in f.vars \cup {v} |->
                                  IF w # v THEN x.b[w] ELSE IF t \in Vars THEN x.b[t] ELSE t]] :
                                x \in f.rows}]

\* Can translate_expr make SQL of an expression?  Every variable must have a column.
RECURSIVE Translatable(_, _)
Translatable(e, vars) ==
    CASE e.op = "eq" -> {e.a, e.b} \cap Vars \subseteq vars
      [] e.op = "bound" -> e.v \in vars
      [] e.op = "not" -> Translatable(e.e, vars)
      [] e.op \in {"and", "or"} -> Translatable(e.a, vars) /\ Translatable(e.b, vars)
      [] e.op = "exists" -> TRUE

RECURSIVE TranslatePattern(_, _, _, _)
RECURSIVE TranslateExpr(_, _, _, _, _)

\* The value of the SQL of a translatable expression on a row; NULL is "E".
TranslateExpr(e, m, B, D, C) ==
    LET col(x) == IF x \in Vars THEN m[x] ELSE x
    IN  CASE e.op = "eq" -> IF None \in {col(e.a), col(e.b)} THEN "E"
                            ELSE Bool3(col(e.a) = col(e.b))
          [] e.op = "bound" -> Bool3(m[e.v] # None)
          [] e.op = "not" -> Not3(TranslateExpr(e.e, m, B, D, C))
          [] e.op = "and" -> And3(TranslateExpr(e.a, m, B, D, C), TranslateExpr(e.b, m, B, D, C))
          [] e.op = "or" -> Or3(TranslateExpr(e.a, m, B, D, C), TranslateExpr(e.b, m, B, D, C))
          [] e.op = "exists" ->
                LET f == TranslatePattern(e.in, B, D, C)
                IN  Bool3(\E x \in f.rows :
                            \A v \in f.vars \cap DOMAIN m : Same(x.b[v], m[v]))

\* Does the SQL of an expression hold a subquery PostgreSQL rejects?
RECURSIVE Rejected(_, _, _, _)
Rejected(e, B, D, C) ==
    CASE e.op = "exists" -> TranslatePattern(e.in, B, D, C).err
      [] e.op = "not" -> Rejected(e.e, B, D, C)
      [] e.op \in {"and", "or"} -> Rejected(e.a, B, D, C) \/ Rejected(e.b, B, D, C)
      [] OTHER -> FALSE

\* A FILTER that cannot be translated is FALSE.
TranslateFilter(f, e, B, D, C) ==
    [f EXCEPT !.rows = {x \in @ : /\ Translatable(e, f.vars)
                                  /\ TranslateExpr(e, x.b, B, D, C) = "T"},
              !.err = @ \/ (Translatable(e, f.vars) /\ Rejected(e, B, D, C))]

TranslatePattern(q, B, D, C) ==
    LET L == TranslatePattern(q.l, B, D, C)
        R == TranslatePattern(q.r, B, D, C)
        In == TranslatePattern(q.in, B, D, C)
    IN  CASE q.op = "bgp" ->
                FoldLeft(LAMBDA f, tp : Merge(f, ScanTriple(tp, B, D, C)), EmptyFragment, q.tps)
          [] q.op = "path" -> TranslatePath(q, B, D, C)
          [] q.op = "join" -> Merge(L, R)
          [] q.op = "leftjoin" ->
                \* The expression is translated over the right bindings; one that
                \* cannot be is dropped.
                LET cond == q.e # None /\ Translatable(q.e, R.vars)
                    right == {y \in R.rows : cond => TranslateExpr(q.e, y.b, B, D, C) = "T"}
                IN  TranslateLeftJoin(L, R, right, ShaclRightIsMandatory(q.r, B))
          [] q.op = "union" -> TranslateUnion(L, R, C)
          [] q.op = "minus" -> TranslateMinus(L, R)
          [] q.op = "filter" -> TranslateFilter(In, q.e, B, D, C)
          [] q.op = "graph" ->
                IF q.name \in Vars
                  THEN TranslateGraphVar(TranslatePattern(q.in, B, D, [C EXCEPT !.vg = TRUE]), q.name)
                ELSE IF q.name \in B.known
                  THEN TranslatePattern(q.in, B, D, [C EXCEPT !.gf = q.name])
                ELSE FalseFragment
          [] q.op = "values" -> TranslateValues(q, B)
          [] q.op = "extend" -> TranslateExtend(In, q.v, q.t)
          [] q.op = "project" ->
                [In EXCEPT !.vars = @ \cap q.vs,
                           !.rows = {[x EXCEPT !.b = [v \in In.vars \cap q.vs |-> x.b[v]]] : x \in @}]

\* extract_modifiers: all projections at the top are peeled off, and the first
\* of them is applied.
RECURSIVE Peel(_)
Peel(q) == IF q.op = "project" THEN Peel(q.in) ELSE q

\* The rows of a SELECT as they are decoded: NULL and the id 0 are no term.
Execute(q, B, D) ==
    LET f == TranslatePattern(Peel(q), B, D, NoCtx)
        out == IF q.op = "project" THEN q.vs \cap f.vars ELSE f.vars
        decoded(m) == [v \in {w \in out : m[w] \notin {None, Default}} |-> m[v]]
    IN  [err |-> f.err, rows |-> IF f.err THEN {} ELSE {decoded(x.b) : x \in f.rows}]
=============================================================================
