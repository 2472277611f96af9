----------------------------- MODULE SparqlProps -----------------------------
(***************************************************************************)
(* What the answers of a session promise.  The translation does not agree  *)
(* with the SPARQL algebra on every pattern: Exact and Positive name the   *)
(* patterns on which it does, and the comments say where it does not.      *)
(***************************************************************************)
EXTENDS SparqlSessions

CONSTANT Queries   \* the patterns the translation is compared on

\* The patterns of the EXISTS in an expression, and the variables it names.
RECURSIVE Nested(_)
Nested(e) ==
    CASE e.op = "exists" -> {e.in}
      [] e.op = "not" -> Nested(e.e)
      [] e.op \in {"and", "or"} -> Nested(e.a) \cup Nested(e.b)
      [] OTHER -> {}

RECURSIVE Mentions(_)
Mentions(e) ==
    CASE e.op = "eq" -> {e.a, e.b}
      [] e.op = "bound" -> {e.v}
      [] e.op = "not" -> Mentions(e.e)
      [] e.op \in {"and", "or"} -> Mentions(e.a) \cup Mentions(e.b)
      [] e.op = "exists" -> {}

RECURSIVE Subpatterns(_)
Subpatterns(q) ==
    LET nested(e) == IF e = None THEN {} ELSE UNION {Subpatterns(x) : x \in Nested(e)}
    IN  {q} \cup
        CASE q.op \in {"bgp", "path", "values"} -> {}
          [] q.op \in {"join", "union", "minus"} -> Subpatterns(q.l) \cup Subpatterns(q.r)
          [] q.op = "leftjoin" -> Subpatterns(q.l) \cup Subpatterns(q.r) \cup nested(q.e)
          [] q.op = "filter" -> Subpatterns(q.in) \cup nested(q.e)
          [] OTHER -> Subpatterns(q.in)

\* The variables a solution may bind, and those every solution does.
RECURSIVE Possible(_)
Possible(q) ==
    CASE q.op = "bgp" -> UNION {VarsOf(q.tps[k]) : k \in DOMAIN q.tps}
      [] q.op = "path" -> {q.s, q.o} \cap Vars
      [] q.op \in {"join", "leftjoin", "union"} -> Possible(q.l) \cup Possible(q.r)
      [] q.op = "minus" -> Possible(q.l)
      [] q.op = "filter" -> Possible(q.in)
      [] q.op = "graph" -> Possible(q.in) \cup ({q.name} \cap Vars)
      [] q.op = "values" -> q.vs
      [] q.op = "extend" -> Possible(q.in) \cup {q.v}
      [] q.op = "project" -> Possible(q.in) \cap q.vs

RECURSIVE Certain(_)
Certain(q) ==
    CASE q.op \in {"bgp", "path"} -> Possible(q)
      [] q.op = "join" -> Certain(q.l) \cup Certain(q.r)
      [] q.op \in {"leftjoin", "minus"} -> Certain(q.l)
      [] q.op = "union" -> Certain(q.l) \cap Certain(q.r)
      [] q.op = "filter" -> Certain(q.in)
      [] q.op = "graph" -> Certain(q.in) \cup ({q.name} \cap Vars)
      [] q.op = "values" -> {v \in q.vs : \A r \in q.rows : r[v] # None}
      [] q.op = "extend" -> Certain(q.in)
      [] q.op = "project" -> Certain(q.in) \cap q.vs

\* One from_item: the graph of that item is the graph of the pattern.
RECURSIVE OneTable(_)
OneTable(q) ==
    \/ q.op = "bgp" /\ Len(q.tps) = 1
    \/ q.op \in {"path", "union"}
    \/ q.op = "filter" /\ OneTable(q.in)

\* What GRAPH ?g may hold.  An OPTIONAL or a MINUS in it is an SQL error, an EXISTS in
\* it looks in all graphs, an arm of a UNION takes the graph of its first triple, and
\* the zero-hop row of a constant end has no graph.
InVariableGraph(q) ==
    CASE q.op = "bgp" -> q.tps # <<>>
      [] q.op = "path" -> q.path.op \in {"star", "opt"} => {q.s, q.o} \subseteq Vars
      [] q.op = "join" -> TRUE
      [] q.op = "union" -> OneTable(q.l) /\ OneTable(q.r)
      [] q.op = "filter" -> Nested(q.e) = {}
      [] OTHER -> FALSE

\* GRAPH clauses are not nested, and hold no negated property set: an SQL error.
GraphsPlain(q) ==
    q.op = "graph" =>
        \A x \in Subpatterns(q.in) :
            /\ x.op # "graph"
            /\ x.op = "path" => ~ HasNegated(x.path)
            /\ q.name \in Vars => InVariableGraph(x)

\* A join never meets an unbound variable on its right side, an OPTIONAL or an EXISTS on
\* neither side; an OPTIONAL's expression speaks of its right side, a FILTER's of
\* columns there are; SELECT is not applied to SELECT.
ColumnsFit(q) ==
    CASE q.op = "join" -> Possible(q.l) \cap Possible(q.r) \subseteq Certain(q.r)
      [] q.op = "leftjoin" ->
            /\ Possible(q.l) \cap Possible(q.r) \subseteq Certain(q.l) \cap Certain(q.r)
            /\ q.e # None => Mentions(q.e) \cap Vars \subseteq Possible(q.r) /\ Nested(q.e) = {}
      [] q.op = "filter" ->
            /\ Mentions(q.e) \cap Vars \subseteq Possible(q.in)
            /\ \A x \in Nested(q.e) :
                Possible(q.in) \cap Possible(x) \subseteq Certain(q.in) \cap Certain(x)
      [] q.op = "extend" -> q.t \in Vars => q.t \in Possible(q.in)
      [] q.op = "values" -> q.vs # {} /\ q.rows # {}
      [] q.op = "project" -> q.in.op # "project"
      [] OTHER -> TRUE

\* A VALUES term without an id reads as unbound, and a negated set forgets a predicate
\* without one.
TermsFit(q, B) ==
    /\ q.op = "values" => {r[v] : r \in q.rows, v \in q.vs} \ {None} \subseteq B.known
    /\ q.op = "path" /\ q.path.op = "neg" => q.path.ps \subseteq B.known

\* An OPTIONAL that a hint makes a join: every left solution has a match, as the
\* shape would have it of the members of its class.
HintsHold(q, B) ==
    q.op = "leftjoin" /\ ShaclRightIsMandatory(q.r, B) =>
        /\ q.e = None
        /\ \A m \in Solutions(q.l, None, quads) :
            \E n \in Solutions(q.r, None, quads) : Compatible(m, n)

\* The patterns whose translation under facts B is exact on the store.
Exact(q, B) ==
    \A x \in Subpatterns(q) :
        /\ GraphsPlain(x)
        /\ ColumnsFit(x)
        /\ TermsFit(x, B)
        /\ HintsHold(x, B)
        /\ x.op = "graph" /\ x.name \notin Vars =>
              /\ x.name \in B.known
              /\ \A y \in Subpatterns(x.in) :
                    y.op = "leftjoin" => ~ ShaclRightIsMandatory(y.r, B)

RECURSIVE Negates(_)
Negates(e) ==
    \/ e.op = "not"
    \/ e.op \in {"and", "or"} /\ (Negates(e.a) \/ Negates(e.b))

\* The patterns that only gain solutions as the store gains quads.
Positive(q, B) ==
    \A x \in Subpatterns(q) :
        /\ x.op \notin {"leftjoin", "minus"}
        /\ x.op = "filter" => ~ Negates(x.e)
        /\ x.op = "project" => x.in.op # "project"
        /\ GraphsPlain(x)
        /\ TermsFit(x, B)

----------------------------------------------------------------------------
\* The translation by sqlgen.rs, of a query no cache knows of, returns what the SPARQL
\* algebra says: joins on unbound variables, MINUS, OPTIONAL with hints, GRAPH ?g over
\* several tables, property paths with their zero-hop rows, filters with their errors.
FreshAnswersExact ==
    (/\ promo = NoPromo
     /\ \A b \in Readers : plans[b] = <<>> /\ asking[b] = None /\ predCache[b] = Uncached)
    => LET B == FactsOf(Uncached)
       IN  \A q \in Queries : Exact(q, B) =>
             Execute(q, B, Database) = [err |-> FALSE, rows |-> Solutions(q, None, quads)]

\* A plan the cache hands out may be stale, since no insert of a new term or predicate
\* advances the schema generation, but it never invents: of a query without negation
\* it returns only solutions of the store as it is now.
StaleNeverInvents ==
    \A b \in Readers : \A k \in Usable(b) :
        LET plan == plans[b][k]
        IN  Positive(plan.q, plan.facts) =>
              Execute(plan.q, plan.facts, Database).rows \subseteq Solutions(plan.q, None, quads)

\* The terms of a query, and its predicates.
RECURSIVE PathPreds(_)
PathPreds(path) ==
    CASE path.op = "pred" -> {path.p}
      [] path.op = "neg" -> path.ps
      [] path.op \in {"seq", "alt"} -> PathPreds(path.l) \cup PathPreds(path.r)
      [] OTHER -> PathPreds(path.in)

ConstantsOf(q) ==
    UNION {CASE x.op = "bgp" ->
                    {x.tps[k][f] : k \in DOMAIN x.tps, f \in Positions} \ Vars
             [] x.op = "path" -> PathPreds(x.path)
             [] OTHER -> {} : x \in Subpatterns(q)}

\* The plan cache returns the right answer after any number of promotions, by this
\* session or another, committed or failed: a plan it hands out is exact, unless it
\* was translated before one of its terms or predicates was stored, or while the
\* promotion that moved the rows was open (the generation advances before the commit).
CachedAnswersExact ==
    \A b \in Readers : \A k \in Usable(b) :
        LET plan == plans[b][k]
            B == plan.facts
        IN  /\ ConstantsOf(plan.q) \subseteq B.known
            /\ \A p \in ConstantsOf(plan.q) \cap Preds : "none" \notin {B.src[p], B.cat[p]}
            /\ plan.racing \cap promoted = {}
            /\ Exact(plan.q, B)
            => Execute(plan.q, B, Database) = [err |-> FALSE, rows |-> Solutions(plan.q, None, quads)]
=============================================================================
