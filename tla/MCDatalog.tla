------------------------------ MODULE MCDatalog ------------------------------
(* Rule sets over a base predicate e and derived predicates a and b. *)
EXTENDS Datalog

Lit(p, s, o) == [p |-> p, s |-> s, o |-> o]

Clause(h, b) == [head |-> h, body |-> b]

Copy   == Clause(Lit("a", "x", "y"), <<Lit("e", "x", "y")>>)
Chain  == Clause(Lit("a", "x", "z"), <<Lit("e", "x", "y"), Lit("a", "y", "z")>>)
Trans  == Clause(Lit("a", "x", "z"), <<Lit("a", "x", "y"), Lit("a", "y", "z")>>)
Next1  == Clause(Lit("b", "x", "y"), <<Lit("a", "x", "y")>>)
Turned == Clause(Lit("b", "y", "x"), <<Lit("a", "x", "y")>>)
Twice  == Clause(Lit("b", "x", "z"), <<Lit("a", "x", "y"), Lit("a", "y", "z")>>)
Mixed  == Clause(Lit("b", "x", "z"), <<Lit("e", "x", "y"), Lit("a", "y", "z")>>)
Back   == Clause(Lit("a", "x", "y"), <<Lit("b", "x", "y")>>)

MCPrograms ==
    {<<Copy, Chain>>, <<Copy, Trans>>, <<Copy, Turned, Twice>>,
     <<Copy, Mixed>>, <<Turned, Back>>, <<Copy, Next1, Turned>>, <<Copy, Copy>>}

MCVars == {"x", "y", "z"}
=============================================================================
