---------------------------- MODULE SparqlAlgebra ----------------------------
(***************************************************************************)
(* What a SPARQL query means: the algebra of SPARQL 1.1, section 18, over  *)
(* sets of solutions (multiplicities are left out).  The translator of     *)
(* src/sparql is compared with it.  A solution is a function on the        *)
(* variables it binds.  The default graph is the union of all graphs, as   *)
(* in this store.                                                          *)
(*                                                                         *)
(* A pattern is a record whose op is one of bgp, path, join, leftjoin,     *)
(* union, minus, filter, graph, values, extend and project; an expression  *)
(* one whose op is eq, bound, not, and, or, exists.                        *)
(***************************************************************************)
EXTENDS Naturals, Sequences, SequencesExt, FiniteSets

CONSTANTS
    Vars,     \* the variables; every other name in a pattern is a term
    Default,  \* the default graph, whose id is 0
    None      \* no term, no graph, no expression

\* Constructors of patterns and expressions.
Bgp(tps) == [op |-> "bgp", tps |-> tps]
PathPat(s, path, o) == [op |-> "path", s |-> s, path |-> path, o |-> o]
Join(l, r) == [op |-> "join", l |-> l, r |-> r]
LeftJoin(l, r, e) == [op |-> "leftjoin", l |-> l, r |-> r, e |-> e]
UnionPat(l, r) == [op |-> "union", l |-> l, r |-> r]
MinusPat(l, r) == [op |-> "minus", l |-> l, r |-> r]
Filter(e, in) == [op |-> "filter", e |-> e, in |-> in]
Graph(name, in) == [op |-> "graph", name |-> name, in |-> in]
Values(vs, rows) == [op |-> "values", vs |-> vs, rows |-> rows]
Extend(in, v, t) == [op |-> "extend", in |-> in, v |-> v, t |-> t]
Project(in, vs) == [op |-> "project", in |-> in, vs |-> vs]

Eq(a, b) == [op |-> "eq", a |-> a, b |-> b]
Bound(v) == [op |-> "bound", v |-> v]
Not(e) == [op |-> "not", e |-> e]
And(a, b) == [op |-> "and", a |-> a, b |-> b]
Or(a, b) == [op |-> "or", a |-> a, b |-> b]
Exists(in) == [op |-> "exists", in |-> in]

Positions == {"s", "p", "o"}

VarsOf(tp) == {tp[f] : f \in Positions} \cap Vars

\* Does a quad match a triple pattern, and what does it bind?
Matches(tp, q) ==
    /\ \A f \in Positions : tp[f] \in Vars \/ tp[f] = q[f]
    /\ \A f, h \in Positions : tp[f] = tp[h] /\ tp[f] \in Vars => q[f] = q[h]

Bindings(tp, q) ==
    [v \in VarsOf(tp) |-> q[CHOOSE f \in Positions : tp[f] = v]]

Compatible(m, n) == \A v \in DOMAIN m \cap DOMAIN n : m[v] = n[v]

\* The union of two compatible solutions.
Plus(m, n) ==
    [v \in DOMAIN m \cup DOMAIN n |-> IF v \in DOMAIN m THEN m[v] ELSE n[v]]

JoinOf(M, N) ==
    {Plus(x[1], x[2]) : x \in {y \in M \X N : Compatible(y[1], y[2])}}

Named(quads) == {q.g : q \in quads} \ {Default}

InGraph(quads, g) == {q \in quads : g = None \/ q.g = g}

NodesOf(quads) == {q.s : q \in quads} \cup {q.o : q \in quads}

----------------------------------------------------------------------------
(* Property paths, section 18.4: the pairs a path joins in a set of quads, *)
(* with its ends fixed to sf and of where those are terms.                 *)

\* The transitive closure of R on S, by repeated squaring.
Closed(R, S) ==
    FoldLeft(LAMBDA A, i : A \cup {x \in S \X S :
                 \E y \in S : <<x[1], y>> \in A /\ <<y, x[2]>> \in A},
             R, [i \in 1..Cardinality(S) |-> i])

RECURSIVE PairsOf(_, _, _, _)
PairsOf(path, sf, of, quads) ==
    LET nodes == NodesOf(quads) \cup ({sf, of} \ {None})
        inner == PairsOf(path.in, None, None, quads)
        here ==
            CASE path.op = "pred" ->
                    {<<q.s, q.o>> : q \in {x \in quads : x.p = path.p}}
              [] path.op = "neg" ->
                    {<<q.s, q.o>> : q \in {x \in quads : x.p \notin path.ps}}
              [] path.op = "inv" ->
                    {<<x[2], x[1]>> : x \in PairsOf(path.in, of, sf, quads)}
              [] path.op = "seq" ->
                    LET L == PairsOf(path.l, sf, None, quads)
                        R == PairsOf(path.r, None, of, quads)
                    IN  {<<x[1][1], x[2][2]>> :
                            x \in {y \in L \X R : y[1][2] = y[2][1]}}
              [] path.op = "alt" ->
                    PairsOf(path.l, sf, of, quads)
                        \cup PairsOf(path.r, sf, of, quads)
              [] path.op = "opt" -> inner \cup {<<n, n>> : n \in nodes}
              [] path.op = "plus" -> Closed(inner, nodes)
              [] path.op = "star" ->
                    Closed(inner, nodes) \cup {<<n, n>> : n \in nodes}
    IN  {x \in here : sf \in {None, x[1]} /\ of \in {None, x[2]}}

----------------------------------------------------------------------------
(* The solutions of a pattern in graph g of quads (None: the union of all  *)
(* graphs), and the value of an expression, where "E" is a type error.     *)

And3(a, b) == IF "F" \in {a, b} THEN "F" ELSE IF "E" \in {a, b} THEN "E" ELSE "T"
Not3(a) == IF a = "T" THEN "F" ELSE IF a = "F" THEN "T" ELSE "E"
Or3(a, b) == Not3(And3(Not3(a), Not3(b)))
Bool3(b) == IF b THEN "T" ELSE "F"

RECURSIVE Solutions(_, _, _)
RECURSIVE Value(_, _, _, _)

Value(e, m, g, quads) ==
    LET val(x) == IF x \notin Vars THEN x ELSE IF x \in DOMAIN m THEN m[x] ELSE None
    IN  CASE e.op = "eq" -> IF None \in {val(e.a), val(e.b)} THEN "E"
                            ELSE Bool3(val(e.a) = val(e.b))
          [] e.op = "bound" -> Bool3(e.v \in DOMAIN m)
          [] e.op = "not" -> Not3(Value(e.e, m, g, quads))
          [] e.op = "and" -> And3(Value(e.a, m, g, quads), Value(e.b, m, g, quads))
          [] e.op = "or" -> Or3(Value(e.a, m, g, quads), Value(e.b, m, g, quads))
          [] e.op = "exists" ->
                Bool3(\E n \in Solutions(e.in, g, quads) : Compatible(m, n))

Solutions(q, g, quads) ==
    LET L == Solutions(q.l, g, quads)
        R == Solutions(q.r, g, quads)
        In == Solutions(q.in, g, quads)
        OneTriple(tp) == {Bindings(tp, x) :
                            x \in {y \in InGraph(quads, g) : Matches(tp, y)}}
    IN  CASE q.op = "bgp" ->
                FoldLeft(LAMBDA acc, tp : JoinOf(acc, OneTriple(tp)),
                         {[v \in {} |-> None]}, q.tps)
          [] q.op = "path" ->
                LET fixed(t) == IF t \in Vars THEN None ELSE t
                    ends == {q.s, q.o} \cap Vars
                IN  {[v \in ends |-> IF v = q.s THEN x[1] ELSE x[2]] :
                        x \in {y \in PairsOf(q.path, fixed(q.s), fixed(q.o),
                                             InGraph(quads, g)) :
                                q.s = q.o => y[1] = y[2]}}
          [] q.op = "join" -> JoinOf(L, R)
          [] q.op = "leftjoin" ->
                LET good(m) == {n \in R : /\ Compatible(m, n)
                                          /\ q.e = None
                                             \/ Value(q.e, Plus(m, n), g, quads) = "T"}
                IN  UNION {IF good(m) = {} THEN {m}
                           ELSE {Plus(m, n) : n \in good(m)} : m \in L}
          [] q.op = "union" -> L \cup R
          [] q.op = "minus" ->
                {m \in L : ~ \E n \in R : /\ Compatible(m, n)
                                          /\ DOMAIN m \cap DOMAIN n # {}}
          [] q.op = "filter" -> {m \in In : Value(q.e, m, g, quads) = "T"}
          [] q.op = "graph" ->
                IF q.name \notin Vars THEN Solutions(q.in, q.name, quads)
                ELSE UNION {JoinOf(Solutions(q.in, n, quads), {[v \in {q.name} |-> n]}) :
                                n \in Named(quads)}
          [] q.op = "values" ->
                {[v \in {w \in q.vs : r[w] # None} |-> r[v]] : r \in q.rows}
          [] q.op = "extend" ->
                {IF q.t \notin Vars \/ q.t \in DOMAIN m
                   THEN Plus(m, [v \in {q.v} |-> IF q.t \in Vars THEN m[q.t] ELSE q.t])
                   ELSE m : m \in In}
          [] q.op = "project" ->
                {[v \in DOMAIN m \cap q.vs |-> m[v]] : m \in In}
=============================================================================
