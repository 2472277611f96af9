------------------------------ MODULE MCSparql ------------------------------
(* Three nodes, two predicates, a named graph and the default graph. *)
EXTENDS SparqlProps

CONSTANTS x, y, z, g, a, b, c, p, q, g1, s1, s2, Shape

MCVars == {x, y, z, g}
MCPreds == {p, q}

Quad(s, pr, o, gr) == [s |-> s, p |-> pr, o |-> o, g |-> gr]

MCFresh == {Quad(b, q, c, Default), Quad(a, p, c, g1)}

Base == {Quad(a, p, b, g1), Quad(b, p, a, Default), Quad(b, q, b, g1), Quad(b, p, c, Default)}

MCStores == {Base, {Quad(a, p, a, g1), Quad(a, p, b, g1)}}

Tp(s, pr, o) == [s |-> s, p |-> pr, o |-> o]
One(s, pr, o) == Bgp(<<Tp(s, pr, o)>>)

Pr(pr) == [op |-> "pred", p |-> pr]
Neg(ps) == [op |-> "neg", ps |-> ps]
Of(op, in) == [op |-> op, in |-> in]
Two(op, l, r) == [op |-> op, l |-> l, r |-> r]

Opt == LeftJoin(One(x, p, y), One(y, q, z), None)
Either == UnionPat(One(x, p, y), One(x, q, z))
InG1 == Values({g}, {[v \in {g} |-> g1]})

\* The queries whose plans the sessions cache.
MCAsked == {One(x, p, y), Opt,
            Graph(g, Bgp(<<Tp(x, p, y), Tp(y, q, z)>>)),
            PathPat(x, Of("star", Two("alt", Pr(p), Pr(q))), c)}

MCQueries == MCAsked \cup
    {One(x, y, z), One(x, y, x), One(a, p, x), One(x, p, c), Bgp(<<>>),
     Bgp(<<Tp(x, p, y), Tp(y, p, z)>>), Bgp(<<Tp(x, y, z), Tp(z, y, x)>>),
     Join(Opt, One(z, p, x)), Join(Either, One(y, p, x)), Join(InG1, Graph(g, One(x, p, y))),
     LeftJoin(One(x, p, y), One(y, q, z), Eq(z, c)),
     LeftJoin(Opt, One(x, q, c), None),
     LeftJoin(One(x, p, y), Bgp(<<Tp(y, q, z), Tp(z, p, x)>>), Not(Eq(z, y))),
     MinusPat(One(x, p, y), One(y, q, z)), MinusPat(Opt, One(z, q, x)),
     MinusPat(Either, One(x, q, z)), MinusPat(One(x, p, y), One(z, q, g)),
     Filter(Not(Bound(z)), Opt), Filter(Not(Eq(z, b)), Opt), Filter(Or(Eq(z, b), Bound(y)), Either),
     Filter(Exists(One(y, q, z)), One(x, p, y)),
     Filter(Not(Exists(One(y, q, z))), One(x, p, y)),
     Filter(And(Eq(x, a), Not(Exists(MinusPat(One(y, p, z), One(z, q, y))))), One(x, p, y)),
     Graph(g1, Opt), Graph(g1, MinusPat(One(x, p, y), One(x, q, y))),
     Graph(g, UnionPat(One(x, p, y), One(x, q, y))),
     Graph(g, Join(One(x, p, y), PathPat(y, Of("plus", Pr(p)), z))),
     Join(Graph(g, One(x, p, y)), Graph(g, One(y, q, z))),
     Join(One(x, p, y), Values({x, y}, {[v \in {x, y} |-> IF v = x THEN a ELSE b],
                                        [v \in {x, y} |-> b]})),
     Extend(Opt, g, z), Filter(Eq(g, b), Extend(One(x, p, y), g, y)),
     Project(Opt, {x, z}), Join(One(x, p, y), Project(Bgp(<<Tp(y, p, z), Tp(z, p, x)>>), {y})),
     PathPat(x, Of("star", Pr(p)), y), PathPat(a, Of("star", Pr(p)), x),
     PathPat(c, Of("star", Pr(q)), c), PathPat(x, Of("opt", Pr(q)), b),
     PathPat(x, Of("plus", Two("seq", Pr(p), Of("inv", Pr(q)))), y),
     PathPat(x, Neg({p}), y), PathPat(x, Two("seq", Of("opt", Pr(p)), Pr(q)), y),
     Graph(g1, PathPat(x, Of("star", Pr(p)), y)), Graph(g, PathPat(x, Of("opt", Pr(q)), y))}
=============================================================================
