---------------------------- MODULE DatalogProofs ----------------------------
(***************************************************************************)
(* Theorems about Datalog, for any programs, nodes, predicates and         *)
(* variables, and any number of facts, writes and calls.                   *)
(*                                                                         *)
(* A call reads the store statement by statement while another session     *)
(* writes.  LInv ties each phase to the facts that stayed (kept) and to    *)
(* those there at some time (seen): all that the call has computed is in   *)
(* every closed set that has seen (SoundInv); rules already seeded have    *)
(* what kept yields in delta or in written (SeedInv); rules already run in *)
(* a round have what delta and kept yield (RoundInv).                      *)
(***************************************************************************)
EXTENDS Datalog, TLAPS

-----------------------------------------------------------------------------
(* The inductive invariant. *)

Phases == {"idle", "seed", "iterate", "materialise", "simple", "done"}

LTypes ==
    /\ program \in Seq(Rule)
    /\ rare \subseteq Facts /\ tables \subseteq Facts
    /\ delta \subseteq Facts /\ deltaNew \subseteq Facts /\ written \subseteq Facts
    /\ kept \subseteq Facts /\ seen \subseteq Facts
    /\ pc \in Nat \ {0} /\ phase \in Phases
    /\ phase \in {"seed", "iterate", "materialise"} => call = "stats"
    /\ phase = "simple" => call = "infer"
    /\ phase # "simple" => written = {}

(* What the history says of the store. *)
HistoryInv ==
    /\ phase # "idle" => kept \subseteq rare \cup tables
    /\ phase \notin {"idle", "done"} => rare \cup tables \subseteq seen

AllPresumed == \A r \in Rules : Presumed(r)

(* All that the call has computed is in every closed set that has seen. *)
SoundInv ==
    phase # "idle" /\ AllPresumed =>
        \A M \in SUBSET Facts : seen \subseteq M /\ Closed(Rules, M) =>
            Readable \cup delta \cup deltaNew \subseteq M

(* A call of infer_with_stats has seeded rule i. *)
Seeded(i) ==
    \/ phase = "seed" /\ i < pc
    \/ phase \in {"iterate", "materialise"}
    \/ phase = "done" /\ call = "stats"

SeedInv ==
    \A i \in Evaluated : AsWritten(program[i]) =>
        /\ Seeded(i) => Query(program[i], kept) \subseteq delta
        /\ phase = "simple" /\ i < pc => Query(program[i], kept) \subseteq written

(* The rounds are over. *)
Rounded == phase = "materialise" \/ (phase = "done" /\ call = "stats")

RoundInv ==
    \A i \in Evaluated :
        /\ phase = "iterate" /\ i < pc => Variants(program[i], Heads(Rules), delta, kept) \subseteq deltaNew
        /\ Rounded => Variants(program[i], Heads(Rules), delta, kept) \subseteq delta

(* The delta tables are of derived predicates, and are stored in the end. *)
DeltaInv ==
    /\ delta \cup deltaNew \subseteq HeadFacts({program[i] : i \in Evaluated})
    /\ phase = "done" /\ call = "stats" => delta \subseteq rare \cup tables

(* What a call that has found nothing new has written was there. *)
QuietInv ==
    /\ phase = "simple" /\ ~fresh => written \subseteq seen
    /\ QuietMeansModel

LInv == LTypes /\ HistoryInv /\ SoundInv /\ SeedInv /\ RoundInv /\ DeltaInv /\ QuietInv

-----------------------------------------------------------------------------
(* Statements. *)

(* Larger sources yield more. *)
LEMMA JoinMonotone ==
    ASSUME NEW r, NEW S, NEW T, \A i \in DOMAIN r.body : S[i] \subseteq T[i]
    PROVE  Join(r, S) \subseteq Join(r, T)
  BY DEF Join

(* So does a statement that reads all atoms from one source. *)
LEMMA QueryMonotone ==
    ASSUME NEW r, NEW F, NEW G, F \subseteq G
    PROVE  Query(r, F) \subseteq Query(r, G)
<1>1. \A i \in DOMAIN r.body :
          [j \in DOMAIN r.body |-> F][i] \subseteq [j \in DOMAIN r.body |-> G][i]
  OBVIOUS
<1> QED BY <1>1, JoinMonotone DEF Query

(* The variants of a rule, for larger deltas and stores. *)
LEMMA VariantsMonotone ==
    ASSUME NEW r, NEW H, NEW D, NEW E, NEW F, NEW G, D \subseteq E, F \subseteq G
    PROVE  Variants(r, H, D, F) \subseteq Variants(r, H, E, G)
<1> DEFINE S(k) == [i \in DOMAIN r.body |-> IF i = k THEN D ELSE F]
           T(k) == [i \in DOMAIN r.body |-> IF i = k THEN E ELSE G]
           N == {n \in DOMAIN r.body : r.body[n].p \in H}
<1>1. ASSUME NEW k PROVE Join(r, S(k)) \subseteq Join(r, T(k))
  <2>1. \A i \in DOMAIN r.body : S(k)[i] \subseteq T(k)[i]
    OBVIOUS
  <2> HIDE DEF S, T
  <2> QED BY <2>1, JoinMonotone
<1>2. Variants(r, H, D, F) = UNION {Join(r, S(k)) : k \in N}
  BY DEF Variants
<1>3. Variants(r, H, E, G) = UNION {Join(r, T(k)) : k \in N}
  BY DEF Variants
<1> HIDE DEF S, T, N
<1> QED BY <1>1, <1>2, <1>3

(* A variant yields no more than a plain query of all it reads. *)
LEMMA VariantsInQuery ==
    ASSUME NEW r, NEW H, NEW D, NEW F, NEW M, D \subseteq M, F \subseteq M
    PROVE  Variants(r, H, D, F) \subseteq Query(r, M)
<1> DEFINE S(k) == [i \in DOMAIN r.body |-> IF i = k THEN D ELSE F]
           T == [i \in DOMAIN r.body |-> M]
           N == {n \in DOMAIN r.body : r.body[n].p \in H}
<1>1. ASSUME NEW k PROVE Join(r, S(k)) \subseteq Join(r, T)
  <2>1. \A i \in DOMAIN r.body : S(k)[i] \subseteq T[i]
    OBVIOUS
  <2> HIDE DEF S, T
  <2> QED BY <2>1, JoinMonotone
<1>2. Variants(r, H, D, F) = UNION {Join(r, S(k)) : k \in N}
  BY DEF Variants
<1>3. Query(r, M) = Join(r, T)
  BY DEF Query
<1> HIDE DEF S, T, N
<1> QED BY <1>1, <1>2, <1>3

(* Statements yield facts of the head's predicate. *)
LEMMA JoinHead ==
    ASSUME NEW r \in Rule, NEW S
    PROVE  Join(r, S) \subseteq {r.head.p} \X Nodes \X Nodes
<1>1. r.head.s \in Vars /\ r.head.o \in Vars
  BY DEF Rule, Atom
<1> QED BY <1>1 DEF Join, Bound

(* They do, whichever form a rule is compiled to. *)
LEMMA StatementHead ==
    ASSUME NEW r \in Rule, NEW H, NEW D, NEW F
    PROVE  /\ Query(r, F) \subseteq {r.head.p} \X Nodes \X Nodes
           /\ SeedQuery(r, F) \subseteq {r.head.p} \X Nodes \X Nodes
           /\ Variants(r, H, D, F) \subseteq {r.head.p} \X Nodes \X Nodes
<1>1. Query(r, F) \subseteq {r.head.p} \X Nodes \X Nodes
  BY JoinHead DEF Query
<1>2. RecursiveQuery(r, F) \subseteq {r.head.p} \X Nodes \X Nodes
  <2>1. \A B, P : Closure(B, P) \subseteq Nodes \X Nodes
    BY DEF Closure
  <2>2. ASSUME NEW C, C \subseteq Nodes \X Nodes
        PROVE  {<<r.head.p, x[1], x[2]>> : x \in C} \subseteq {r.head.p} \X Nodes \X Nodes
    BY <2>2
  <2> QED BY <2>1, <2>2 DEF RecursiveQuery
<1>3. Variants(r, H, D, F) \subseteq {r.head.p} \X Nodes \X Nodes
  <2> DEFINE S(k) == [i \in DOMAIN r.body |-> IF i = k THEN D ELSE F]
  <2>1. \A k : Join(r, S(k)) \subseteq {r.head.p} \X Nodes \X Nodes
    BY JoinHead
  <2>2. Variants(r, H, D, F) = UNION {Join(r, S(k)) : k \in {n \in DOMAIN r.body : r.body[n].p \in H}}
    BY DEF Variants
  <2> HIDE DEF S
  <2> QED BY <2>1, <2>2
<1> QED BY <1>1, <1>2, <1>3 DEF SeedQuery

-----------------------------------------------------------------------------
(* Recursive rules. *)

(* A closure is in every set that has its pairs and is closed. *)
LEMMA ClosureLeast ==
    ASSUME NEW B, NEW P, NEW T, T \subseteq Nodes \X Nodes, P \subseteq T,
           \A v \in B, w \in T : v[2] = w[1] => <<v[1], w[2]>> \in T
    PROVE  Closure(B, P) \subseteq T
  BY DEF Closure

(* It has one step of the recursion. *)
LEMMA ClosureStep ==
    ASSUME NEW B, NEW P, B \subseteq Nodes \X Nodes, P \subseteq Nodes \X Nodes,
           NEW v \in B, NEW w \in P, v[2] = w[1]
    PROVE  <<v[1], w[2]>> \in Closure(B, P)
  BY DEF Closure

(* A rule h(x, z) :- e(x, y), h(y, z), with three variables: what it yields. *)
LEMMA ChainYields ==
    ASSUME NEW r \in Rule, Len(r.body) = 2, NEW F,
           r.body[1].s = r.head.s, r.body[1].o = r.body[2].s, r.body[2].o = r.head.o,
           NEW x \in Nodes, NEW y \in Nodes, NEW z \in Nodes,
           <<r.body[1].p, x, y>> \in F, <<r.body[2].p, y, z>> \in F
    PROVE  <<r.head.p, x, z>> \in Query(r, F)
<1>1. DOMAIN r.body = 1 .. 2 /\ r.body[1] \in Atom /\ r.body[2] \in Atom /\ r.head \in Atom
  BY DEF Rule
<1> DEFINE b == [v \in Vars |-> IF v = r.head.s THEN x ELSE IF v = r.head.o THEN z ELSE y]
<1>2. b \in [Vars -> Nodes]
  OBVIOUS
<1>3. /\ r.head.s \in Vars /\ r.head.o \in Vars /\ r.body[1].o \in Vars
      /\ r.head.s # r.head.o /\ r.head.s # r.body[1].o /\ r.body[1].o # r.head.o
  BY <1>1 DEF Atom
<1>4. b[r.head.s] = x /\ b[r.head.o] = z /\ b[r.body[1].o] = y
  BY <1>3
<1> HIDE DEF b
<1>5. /\ Bound(r.head, b) = <<r.head.p, x, z>>
      /\ Bound(r.body[1], b) = <<r.body[1].p, x, y>>
      /\ Bound(r.body[2], b) = <<r.body[2].p, y, z>>
  BY <1>4 DEF Bound
<1>6. \A i \in DOMAIN r.body : Bound(r.body[i], b) \in [j \in DOMAIN r.body |-> F][i]
  BY <1>1, <1>5
<1> QED BY <1>2, <1>5, <1>6 DEF Query, Join

(* A rule h(x, y) :- e(x, y) copies. *)
LEMMA CopyYields ==
    ASSUME NEW r \in Rule, NEW e, NEW a, IsCopy(r, e, a), NEW F,
           NEW x \in Nodes, NEW y \in Nodes, <<e, x, y>> \in F
    PROVE  <<a, x, y>> \in Query(r, F)
<1>1. DOMAIN r.body = 1 .. 1 /\ r.head \in Atom
  BY DEF Rule, IsCopy
<1> DEFINE b == [v \in Vars |-> IF v = r.head.s THEN x ELSE y]
<1>2. b \in [Vars -> Nodes]
  OBVIOUS
<1>3. r.head.s \in Vars /\ r.head.o \in Vars /\ r.head.s # r.head.o
  BY <1>1 DEF Atom
<1>4. b[r.head.s] = x /\ b[r.head.o] = y
  BY <1>3
<1> HIDE DEF b
<1>5. Bound(r.head, b) = <<a, x, y>> /\ Bound(r.body[1], b) = <<e, x, y>>
  BY <1>4 DEF Bound, IsCopy
<1>6. \A i \in DOMAIN r.body : Bound(r.body[i], b) \in [j \in DOMAIN r.body |-> F][i]
  BY <1>1, <1>5
<1> QED BY <1>2, <1>5, <1>6 DEF Query, Join

(* The pairs of a predicate. *)
LEMMA PairsOf ==
    ASSUME NEW F, F \subseteq Facts, NEW p
    PROVE  /\ Pairs(F, p) \subseteq Nodes \X Nodes
           /\ \A u \in Pairs(F, p) : <<p, u[1], u[2]>> \in F
           /\ \A x, y : <<p, x, y>> \in F => <<x, y>> \in Pairs(F, p)
<1>1. \A f \in F : f \in Preds \X Nodes \X Nodes /\ f = <<f[1], f[2], f[3]>> /\ f[2] \in Nodes /\ f[3] \in Nodes
  BY DEF Facts
<1>2. \A u \in Pairs(F, p) : u \in Nodes \X Nodes /\ <<p, u[1], u[2]>> \in F
  <2> TAKE u \in Pairs(F, p)
  <2>1. PICK f \in F : f[1] = p /\ u = <<f[2], f[3]>>
    BY DEF Pairs
  <2> QED BY <1>1, <2>1
<1>3. \A x, y : <<p, x, y>> \in F => <<x, y>> \in Pairs(F, p)
  BY DEF Pairs
<1> QED BY <1>2, <1>3

(* What compile_recursive_rule makes of transitivity. *)
LEMMA TransitivityShape ==
    ASSUME NEW r \in Rule, IsTransitivity(r), NEW F
    PROVE  /\ r.body[1].p = r.head.p /\ r.body[2].p = r.head.p /\ IsRecursive(r)
           /\ RecursiveQuery(r, F) =
                {<<r.head.p, x[1], x[2]>> : x \in Closure(Pairs(F, r.head.p), Pairs(F, r.head.p))}
<1>1. DOMAIN r.body = 1 .. 2
  BY DEF Rule, IsTransitivity
<1>2. Heads({r}) = {r.head.p}
  BY DEF Heads
<1>3. r.body[1].p = r.head.p /\ r.body[2].p = r.head.p
  BY <1>2 DEF IsTransitivity
<1>4. BaseAtoms(r) = {} /\ BasePred(r) = r.head.p
  BY <1>1, <1>3 DEF BaseAtoms, BasePred
<1>5. UNION {Pairs(F, q) : q \in {r.head.p} \cup {r.body[i].p : i \in {}}} = Pairs(F, r.head.p)
  OBVIOUS
<1>6. IsRecursive(r)
  BY <1>1, <1>3 DEF IsRecursive
<1> QED BY <1>3, <1>4, <1>5, <1>6 DEF RecursiveQuery

(* And of a chain. *)
LEMMA ChainShape ==
    ASSUME NEW r \in Rule, IsChain(r), NEW F
    PROVE  LET e == r.body[1].p
           IN  RecursiveQuery(r, F) =
                   {<<r.head.p, x[1], x[2]>> : x \in Closure(Pairs(F, e), Pairs(F, e))}
<1> DEFINE e == r.body[1].p
<1>1. DOMAIN r.body = 1 .. 2
  BY DEF Rule, IsChain
<1>2. BaseAtoms(r) = {1}
  BY <1>1 DEF IsChain, BaseAtoms
<1>3. BasePred(r) = e
  <2>1. (CHOOSE i \in {1} : \A j \in {1} : i <= j) = 1
    OBVIOUS
  <2> QED BY <1>2, <2>1 DEF BasePred
<1>4. UNION {Pairs(F, q) : q \in {e} \cup {r.body[i].p : i \in {1}}} = Pairs(F, e)
  OBVIOUS
<1> QED BY <1>2, <1>3, <1>4 DEF RecursiveQuery

(* A closed set has what a recursive statement yields, if a fact of base    *)
(* predicate e is one of the head's, and composes with it.                  *)
LEMMA RecursionSound ==
    ASSUME NEW M, M \subseteq Facts, NEW F, F \subseteq M, NEW h, NEW e,
           \A x, y \in Nodes : <<e, x, y>> \in M => <<h, x, y>> \in M,
           \A x, y, z \in Nodes : <<e, x, y>> \in M /\ <<h, y, z>> \in M => <<h, x, z>> \in M
    PROVE  \A u \in Closure(Pairs(F, e), Pairs(F, e)) : <<h, u[1], u[2]>> \in M
<1> DEFINE T == Pairs(M, h)
           B == Pairs(F, e)
<1>1. F \subseteq Facts
  OBVIOUS
<1>2. /\ T \subseteq Nodes \X Nodes /\ \A u \in T : <<h, u[1], u[2]>> \in M
      /\ \A x, y : <<h, x, y>> \in M => <<x, y>> \in T
  BY PairsOf
<1>3. B \subseteq Nodes \X Nodes /\ \A u \in B : <<e, u[1], u[2]>> \in F
  BY <1>1, PairsOf
<1> HIDE DEF T, B
<1>4. \A u \in B : u[1] \in Nodes /\ u[2] \in Nodes /\ u = <<u[1], u[2]>> /\ <<e, u[1], u[2]>> \in M
  BY <1>3
<1>5. \A u \in T : u[1] \in Nodes /\ u[2] \in Nodes
  BY <1>2
<1>6. B \subseteq T
  <2> SUFFICES ASSUME NEW u \in B PROVE u \in T
    OBVIOUS
  <2>1. <<h, u[1], u[2]>> \in M
    BY <1>4
  <2>2. <<u[1], u[2]>> \in T
    BY <1>2, <2>1
  <2> QED BY <1>4, <2>2
<1>7. \A v \in B, w \in T : v[2] = w[1] => <<v[1], w[2]>> \in T
  BY <1>2, <1>4, <1>5
<1>8. Closure(B, B) \subseteq T
  BY <1>2, <1>6, <1>7, ClosureLeast
<1> QED BY <1>2, <1>8 DEF B

(* The statement of a rule of the presumed form yields only what follows. *)
LEMMA SeedSound ==
    ASSUME Rules \subseteq Rule, NEW r \in Rules, Presumed(r),
           NEW M, M \subseteq Facts, Closed(Rules, M), NEW F, F \subseteq M
    PROVE  SeedQuery(r, F) \subseteq M
<1>1. \A s \in Rules : Query(s, M) \subseteq M
  BY DEF Closed
<1>2. CASE ~IsRecursive(r)
  BY <1>1, <1>2, QueryMonotone DEF SeedQuery
<1>3. CASE IsRecursive(r) /\ IsTransitivity(r)
  <2> DEFINE h == r.head.p
  <2>1. \A x, y, z \in Nodes : <<h, x, y>> \in M /\ <<h, y, z>> \in M => <<h, x, z>> \in M
    <3> TAKE x, y, z \in Nodes
    <3> HAVE <<h, x, y>> \in M /\ <<h, y, z>> \in M
    <3>1. r.body[1].p = h /\ r.body[2].p = h
      BY <1>3, TransitivityShape
    <3>2. <<h, x, z>> \in Query(r, M)
      BY <1>3, <3>1, ChainYields DEF IsTransitivity
    <3> QED BY <1>1, <3>2
  <2> HIDE DEF h
  <2>2. \A u \in Closure(Pairs(F, h), Pairs(F, h)) : <<h, u[1], u[2]>> \in M
    BY <2>1, RecursionSound
  <2> QED BY <1>3, <2>2, TransitivityShape DEF SeedQuery, h
<1>4. CASE IsRecursive(r) /\ IsChain(r) /\ \E c \in Rules : IsCopy(c, r.body[1].p, r.head.p)
  <2> DEFINE h == r.head.p
             e == r.body[1].p
  <2>1. \A x, y \in Nodes : <<e, x, y>> \in M => <<h, x, y>> \in M
    <3>1. PICK c \in Rules : IsCopy(c, e, h)
      BY <1>4
    <3> QED BY <1>1, <3>1, CopyYields
  <2>2. \A x, y, z \in Nodes : <<e, x, y>> \in M /\ <<h, y, z>> \in M => <<h, x, z>> \in M
    <3> TAKE x, y, z \in Nodes
    <3> HAVE <<e, x, y>> \in M /\ <<h, y, z>> \in M
    <3>1. <<h, x, z>> \in Query(r, M)
      BY <1>4, ChainYields DEF IsChain
    <3> QED BY <1>1, <3>1
  <2> HIDE DEF h, e
  <2>3. \A u \in Closure(Pairs(F, e), Pairs(F, e)) : <<h, u[1], u[2]>> \in M
    BY <2>1, <2>2, RecursionSound
  <2> QED BY <1>4, <2>3, ChainShape DEF SeedQuery, h, e
<1> QED BY <1>2, <1>3, <1>4 DEF Presumed

(* The statement of a rule compiled as written yields all that facts of the *)
(* store do in one step.                                                    *)
LEMMA SeedCovers ==
    ASSUME NEW r \in Rule, AsWritten(r), NEW F, F \subseteq Facts, NEW K, K \subseteq F
    PROVE  Query(r, K) \subseteq SeedQuery(r, F)
<1>1. CASE ~IsRecursive(r)
  BY <1>1, QueryMonotone DEF SeedQuery
<1>2. CASE IsTransitivity(r)
  <2> DEFINE h == r.head.p
             B == Pairs(F, h)
  <2>1. SeedQuery(r, F) = {<<h, x[1], x[2]>> : x \in Closure(B, B)}
    BY <1>2, TransitivityShape DEF SeedQuery
  <2>2. r.body[1].p = h /\ r.body[2].p = h /\ DOMAIN r.body = 1 .. 2
    BY <1>2, TransitivityShape DEF IsTransitivity, Rule
  <2>3. B \subseteq Nodes \X Nodes /\ \A x, y : <<h, x, y>> \in F => <<x, y>> \in B
    BY PairsOf
  <2> HIDE DEF B
  <2>4. ASSUME NEW f \in Query(r, K)
        PROVE  f \in SeedQuery(r, F)
    <3>1. PICK b \in [Vars -> Nodes] :
              /\ f = Bound(r.head, b)
              /\ \A i \in DOMAIN r.body : Bound(r.body[i], b) \in [j \in DOMAIN r.body |-> K][i]
      BY DEF Query, Join
    <3>2. Bound(r.body[1], b) \in K /\ Bound(r.body[2], b) \in K
      BY <2>2, <3>1
    <3> DEFINE x == b[r.head.s]
               y == b[r.body[1].o]
               z == b[r.head.o]
    <3>3. f = <<h, x, z>> /\ <<h, x, y>> \in F /\ <<h, y, z>> \in F
      BY <1>2, <2>2, <3>1, <3>2 DEF Bound, IsTransitivity
    <3> HIDE DEF x, y, z
    <3>4. <<x, y>> \in B /\ <<y, z>> \in B
      BY <2>3, <3>3
    <3>5. <<x, z>> \in Closure(B, B)
      BY <2>3, <3>4, ClosureStep
    <3> QED BY <2>1, <3>3, <3>5
  <2> QED BY <2>4
<1> QED BY <1>1, <1>2 DEF AsWritten

(* A linear rule yields from facts and derived facts no more than from the  *)
(* facts alone, and from the facts with one derived fact.                   *)
LEMMA LinearSplits ==
    ASSUME NEW r \in Rule, Linear(r), NEW K, NEW D,
           \A f \in D : f[1] \in Heads(Rules),
           Query(r, K) \subseteq D, Variants(r, Heads(Rules), D, K) \subseteq D
    PROVE  Query(r, K \cup D) \subseteq D
<1> SUFFICES ASSUME NEW f \in Query(r, K \cup D)
             PROVE  f \in D
  OBVIOUS
<1>1. PICK b \in [Vars -> Nodes] :
          /\ f = Bound(r.head, b)
          /\ \A i \in DOMAIN r.body : Bound(r.body[i], b) \in [j \in DOMAIN r.body |-> K \cup D][i]
  BY DEF Query, Join
<1>2. \A i \in DOMAIN r.body : Bound(r.body[i], b) \in K \cup D
  BY <1>1
<1>3. CASE \A i \in DOMAIN r.body : Bound(r.body[i], b) \in K
  <2>1. \A i \in DOMAIN r.body : Bound(r.body[i], b) \in [j \in DOMAIN r.body |-> K][i]
    BY <1>3
  <2>2. f \in Query(r, K)
    BY <1>1, <2>1 DEF Query, Join
  <2> QED BY <2>2
<1>4. ASSUME NEW k \in DOMAIN r.body, Bound(r.body[k], b) \notin K
      PROVE  f \in D
  <2> DEFINE S == [i \in DOMAIN r.body |-> IF i = k THEN D ELSE K]
  <2>1. Bound(r.body[k], b) \in D
    BY <1>2, <1>4
  <2>2. \A i \in DOMAIN r.body : Bound(r.body[i], b) \in D => r.body[i].p \in Heads(Rules)
    BY DEF Bound
  <2>3. \A i \in DOMAIN r.body : i # k => Bound(r.body[i], b) \in K
    BY <1>2, <2>1, <2>2 DEF Linear
  <2>4. \A i \in DOMAIN r.body : Bound(r.body[i], b) \in S[i]
    BY <2>1, <2>3
  <2>5. r.body[k].p \in Heads(Rules)
    BY <2>1, <2>2
  <2> HIDE DEF S
  <2>6. f \in Join(r, S)
    BY <1>1, <2>4 DEF Join
  <2>7. Join(r, S) \subseteq Variants(r, Heads(Rules), D, K)
    BY <2>5 DEF Variants, S
  <2> QED BY <2>6, <2>7
<1> QED BY <1>3, <1>4

-----------------------------------------------------------------------------
(* The steps of a call. *)

(* The rules of the program. *)
LEMMA ProgramRules ==
    ASSUME program \in Seq(Rule)
    PROVE  /\ Rules \subseteq Rule /\ Evaluated \subseteq DOMAIN program
           /\ DOMAIN program = 1 .. Len(program) /\ Len(program) \in Nat
           /\ \A i \in DOMAIN program : program[i] \in Rules /\ program[i] \in Rule
<1>1. DOMAIN program = 1 .. Len(program) /\ Len(program) \in Nat
  OBVIOUS
<1>2. \A i \in DOMAIN program : program[i] \in Rule
  BY <1>1
<1> QED BY <1>1, <1>2 DEF Rules, Range, Evaluated, Active

(* What depends on the program does not change with the rest. *)
LEMMA SameProgram ==
    ASSUME program' = program
    PROVE  /\ Rules' = Rules /\ AllPresumed' = AllPresumed
           /\ call' = call => Evaluated' = Evaluated
<1>1. Rules' = Rules
  BY DEF Rules
<1>2. \A r : Presumed(r)' <=> Presumed(r)
  BY <1>1 DEF Presumed
<1> QED BY <1>1, <1>2 DEF AllPresumed, Evaluated

(* What a statement of an evaluated rule yields is of derived predicates. *)
LEMMA StatementFacts ==
    ASSUME program \in Seq(Rule), NEW i \in Evaluated,
           NEW X, X \subseteq {program[i].head.p} \X Nodes \X Nodes
    PROVE  X \subseteq Facts /\ X \subseteq HeadFacts({program[j] : j \in Evaluated})
<1>1. program[i] \in Rule
  BY ProgramRules
<1>2. program[i].head.p \in Preds
  BY <1>1 DEF Rule, Atom
<1>3. program[i].head.p \in Heads({program[j] : j \in Evaluated})
  BY DEF Heads
<1> QED BY <1>2, <1>3 DEF Facts, HeadFacts

(* infer and infer_with_stats begin with empty tables, and a history of what *)
(* is there.                                                                 *)
LEMMA BeginStep ==
    ASSUME LInv, InferWithStats \/ InferOnce
    PROVE  LInv'
<1>1. /\ phase = "idle" /\ pc' = 1
      /\ \/ phase' = "seed" /\ call' = "stats"
         \/ phase' = "simple" /\ call' = "infer"
      /\ delta' = {} /\ deltaNew' = {} /\ written' = {} /\ fresh' = FALSE
      /\ kept' = Readable /\ seen' = Readable
      /\ program' = program /\ rare' = rare /\ tables' = tables
  BY DEF InferWithStats, InferOnce, Begin, store
<1>2. Readable = rare \cup tables /\ Readable' = rare \cup tables
  BY <1>1 DEF LInv, LTypes, Readable
<1>3. LTypes'
  <2>1. rare \subseteq Facts /\ tables \subseteq Facts /\ program \in Seq(Rule)
    BY DEF LInv, LTypes
  <2>2. kept' \subseteq Facts /\ seen' \subseteq Facts
    BY <1>1, <1>2, <2>1
  <2> QED BY <1>1, <2>1, <2>2 DEF LTypes, Phases
<1>4. HistoryInv' /\ SoundInv'
  BY <1>1, <1>2 DEF HistoryInv, SoundInv
<1>5. Evaluated' \subseteq DOMAIN program /\ \A i \in DOMAIN program : ~(i < 1)
  <2>1. Evaluated' \subseteq DOMAIN program
    BY <1>1 DEF Evaluated, Active
  <2>2. DOMAIN program = 1 .. Len(program)
    BY ProgramRules DEF LInv, LTypes
  <2> QED BY <2>1, <2>2
<1>6. SeedInv' /\ RoundInv'
  BY <1>1, <1>5 DEF SeedInv, RoundInv, Seeded, Rounded
<1>7. DeltaInv' /\ QuietInv'
  BY <1>1 DEF DeltaInv, QuietInv, QuietMeansModel
<1> QED BY <1>3, <1>4, <1>6, <1>7 DEF LInv

(* The seed of one rule reads the store as it is, and so has what the facts *)
(* that stay will yield.                                                    *)
LEMMA SeedStep ==
    ASSUME LInv, Seed
    PROVE  LInv'
<1>1. /\ phase = "seed" /\ program' = program /\ call' = call /\ call = "stats"
      /\ rare' = rare /\ tables' = tables /\ deltaNew' = deltaNew /\ written' = written
      /\ fresh' = fresh /\ kept' = kept /\ seen' = seen
  BY DEF Seed, store, history, LInv, LTypes
<1>2. /\ Rules' = Rules /\ AllPresumed' = AllPresumed /\ Evaluated' = Evaluated
      /\ Readable' = Readable
  BY <1>1, SameProgram DEF Readable
<1>3. program \in Seq(Rule) /\ pc \in Nat \ {0} /\ Readable \subseteq Facts /\ kept \subseteq Readable
  BY <1>1 DEF LInv, LTypes, HistoryInv, Readable
<1>4. CASE pc > Len(program)
  <2>1. phase' = "iterate" /\ pc' = 1 /\ delta' = delta
    BY <1>4 DEF Seed
  <2>2. \A i \in Evaluated : i < pc /\ ~(i < 1)
    BY <1>3, <1>4, ProgramRules
  <2>3. SeedInv' /\ RoundInv'
    BY <1>1, <1>2, <2>1, <2>2 DEF LInv, SeedInv, RoundInv, Seeded, Rounded
  <2>4. LTypes' /\ HistoryInv' /\ SoundInv' /\ DeltaInv' /\ QuietInv'
    BY <1>1, <1>2, <2>1 DEF LInv, LTypes, Phases, HistoryInv, SoundInv, DeltaInv, QuietInv, QuietMeansModel
  <2> QED BY <2>3, <2>4 DEF LInv
<1>5. CASE ~(pc > Len(program))
  <2>1. PICK X : X = IF pc \in Evaluated THEN SeedQuery(program[pc], Readable) ELSE {}
    OBVIOUS
  <2>2. delta' = delta \cup X /\ pc' = pc + 1 /\ phase' = phase
    BY <1>5, <2>1 DEF Seed
  <2>3. X \subseteq Facts /\ X \subseteq HeadFacts({program[j] : j \in Evaluated})
    BY <1>3, <2>1, ProgramRules, StatementHead, StatementFacts
  <2>4. LTypes' /\ HistoryInv'
    BY <1>1, <1>3, <2>2, <2>3 DEF LInv, LTypes, HistoryInv
  <2>5. SoundInv'
    <3> SUFFICES ASSUME AllPresumed, NEW M \in SUBSET Facts, seen \subseteq M, Closed(Rules, M)
                 PROVE  Readable \cup delta' \cup deltaNew \subseteq M
      BY <1>1, <1>2 DEF SoundInv
    <3>1. Readable \cup delta \cup deltaNew \subseteq M
      BY <1>1 DEF LInv, SoundInv
    <3>2. ASSUME pc \in Evaluated PROVE SeedQuery(program[pc], Readable) \subseteq M
      <4>1. program[pc] \in Rules /\ Presumed(program[pc]) /\ Rules \subseteq Rule
        BY <1>3, <3>2, ProgramRules DEF AllPresumed
      <4> QED BY <3>1, <4>1, SeedSound
    <3> QED BY <2>1, <2>2, <3>1, <3>2
  <2>6. SeedInv'
    <3>1. ASSUME NEW i \in Evaluated, AsWritten(program[i]), i < pc + 1
          PROVE  Query(program[i], kept) \subseteq delta'
      <4>1. CASE i < pc
        BY <1>1, <2>2, <3>1, <4>1 DEF LInv, SeedInv, Seeded
      <4>2. CASE i = pc
        BY <1>3, <2>1, <2>2, <3>1, <4>2, ProgramRules, SeedCovers
      <4>3. i \in Nat
        BY <1>3, ProgramRules
      <4> QED BY <1>3, <3>1, <4>1, <4>2, <4>3
    <3>2. \A i : AsWritten(program[i])' <=> AsWritten(program[i])
      BY <1>1 DEF AsWritten
    <3> QED BY <1>1, <1>2, <2>2, <3>1, <3>2 DEF SeedInv, Seeded
  <2>7. RoundInv' /\ DeltaInv' /\ QuietInv'
    BY <1>1, <1>2, <2>2, <2>3 DEF LInv, RoundInv, Rounded, DeltaInv, QuietInv, QuietMeansModel
  <2> QED BY <2>4, <2>5, <2>6, <2>7 DEF LInv
<1> QED BY <1>4, <1>5

(* A round's statements for one rule. *)
LEMMA IterateStep ==
    ASSUME LInv, Iterate
    PROVE  LInv'
<1>1. /\ phase = "iterate" /\ phase' = phase /\ program' = program /\ call' = call /\ call = "stats"
      /\ rare' = rare /\ tables' = tables /\ delta' = delta /\ written' = written
      /\ fresh' = fresh /\ kept' = kept /\ seen' = seen /\ pc' = pc + 1
  BY DEF Iterate, store, history, LInv, LTypes
<1>2. /\ Rules' = Rules /\ AllPresumed' = AllPresumed /\ Evaluated' = Evaluated
      /\ Readable' = Readable
  BY <1>1, SameProgram DEF Readable
<1>3. program \in Seq(Rule) /\ pc \in Nat \ {0} /\ kept \subseteq Readable
  BY <1>1 DEF LInv, LTypes, HistoryInv, Readable
<1>4. PICK X : X = IF pc \in Evaluated THEN Variants(program[pc], Heads(Rules), delta, Readable) ELSE {}
  OBVIOUS
<1>5. deltaNew' = deltaNew \cup X
  BY <1>4 DEF Iterate
<1>6. X \subseteq Facts /\ X \subseteq HeadFacts({program[j] : j \in Evaluated})
  <2>1. CASE pc \in Evaluated
    <3>1. program[pc] \in Rule
      BY <1>3, <2>1, ProgramRules
    <3>2. X \subseteq {program[pc].head.p} \X Nodes \X Nodes
      BY <1>4, <2>1, <3>1, StatementHead
    <3> QED BY <1>3, <2>1, <3>2, StatementFacts
  <2>2. CASE pc \notin Evaluated
    BY <1>4, <2>2
  <2> QED BY <2>1, <2>2
<1>7. LTypes' /\ HistoryInv'
  BY <1>1, <1>3, <1>5, <1>6 DEF LInv, LTypes, HistoryInv
<1>8. SoundInv'
  <2> SUFFICES ASSUME AllPresumed, NEW M \in SUBSET Facts, seen \subseteq M, Closed(Rules, M)
               PROVE  Readable \cup delta \cup deltaNew' \subseteq M
    BY <1>1, <1>2 DEF SoundInv
  <2>1. Readable \cup delta \cup deltaNew \subseteq M
    BY <1>1 DEF LInv, SoundInv
  <2>2. ASSUME pc \in Evaluated
        PROVE  Variants(program[pc], Heads(Rules), delta, Readable) \subseteq M
    <3>1. program[pc] \in Rules
      BY <1>3, <2>2, ProgramRules
    <3>2. Variants(program[pc], Heads(Rules), delta, Readable) \subseteq Query(program[pc], M)
      BY <2>1, VariantsInQuery
    <3> QED BY <3>1, <3>2 DEF Closed
  <2> QED BY <1>4, <1>5, <2>1, <2>2
<1>9. SeedInv'
  BY <1>1, <1>2 DEF LInv, SeedInv, Seeded, AsWritten
<1>10. RoundInv'
  <2>1. ASSUME NEW i \in Evaluated, i < pc + 1
        PROVE  Variants(program[i], Heads(Rules), delta, kept) \subseteq deltaNew'
    <3>1. CASE i < pc
      BY <1>1, <1>5, <2>1, <3>1 DEF LInv, RoundInv
    <3>2. CASE i = pc
      BY <1>3, <1>4, <1>5, <2>1, <3>2, VariantsMonotone
    <3>3. i \in Nat
      BY <1>3, ProgramRules
    <3> QED BY <1>3, <2>1, <3>1, <3>2, <3>3
  <2> QED BY <1>1, <1>2, <2>1 DEF RoundInv, Rounded
<1>11. DeltaInv' /\ QuietInv'
  BY <1>1, <1>2, <1>5, <1>6 DEF LInv, DeltaInv, QuietInv, QuietMeansModel
<1> QED BY <1>7, <1>8, <1>9, <1>10, <1>11 DEF LInv

(* The end of a round: when nothing is new, the delta has all that it and   *)
(* the facts that stayed yield.                                             *)
LEMMA EndRoundStep ==
    ASSUME LInv, EndRound
    PROVE  LInv'
<1>1. /\ phase = "iterate" /\ program' = program /\ call' = call /\ call = "stats"
      /\ rare' = rare /\ tables' = tables /\ written' = written
      /\ fresh' = fresh /\ kept' = kept /\ seen' = seen /\ pc' = 1 /\ pc > Len(program)
      /\ delta' = delta \cup deltaNew /\ deltaNew' = {}
      /\ \/ phase' = "materialise" /\ deltaNew \subseteq delta
         \/ phase' = "iterate"
  BY DEF EndRound, NothingNew, store, history, LInv, LTypes
<1>2. /\ Rules' = Rules /\ AllPresumed' = AllPresumed /\ Evaluated' = Evaluated
      /\ Readable' = Readable
  BY <1>1, SameProgram DEF Readable
<1>3. program \in Seq(Rule) /\ pc \in Nat \ {0}
  BY DEF LInv, LTypes
<1>4. \A i \in Evaluated : i < pc /\ ~(i < 1)
  BY <1>1, <1>3, ProgramRules
<1>5. LTypes' /\ HistoryInv'
  BY <1>1 DEF LInv, LTypes, HistoryInv, Phases
<1>6. SoundInv' /\ DeltaInv'
  BY <1>1, <1>2 DEF LInv, SoundInv, DeltaInv
<1>7. SeedInv'
  <2>1. \A i \in Evaluated : AsWritten(program[i]) => Query(program[i], kept) \subseteq delta
    BY <1>1 DEF LInv, SeedInv, Seeded
  <2>2. \A i \in Evaluated : AsWritten(program[i]) => Query(program[i], kept) \subseteq delta'
    BY <1>1, <2>1
  <2> QED BY <1>1, <1>2, <2>2 DEF SeedInv, AsWritten
<1>8. RoundInv'
  <2>1. \A i \in Evaluated : Variants(program[i], Heads(Rules), delta, kept) \subseteq deltaNew
    BY <1>1, <1>4 DEF LInv, RoundInv
  <2>2. CASE phase' = "materialise" /\ deltaNew \subseteq delta
    <3>1. delta' = delta
      BY <1>1, <2>2
    <3> QED BY <1>1, <1>2, <2>1, <2>2, <3>1 DEF RoundInv
  <2>3. CASE phase' = "iterate"
    BY <1>1, <1>2, <1>4, <2>3 DEF RoundInv, Rounded
  <2> QED BY <1>1, <2>2, <2>3
<1>9. QuietInv'
  BY <1>1 DEF QuietInv, QuietMeansModel
<1> QED BY <1>5, <1>6, <1>7, <1>8, <1>9 DEF LInv

(* The delta is stored. *)
LEMMA MaterialiseStep ==
    ASSUME LInv, Materialise
    PROVE  LInv'
<1>1. /\ phase = "materialise" /\ phase' = "done" /\ program' = program /\ call' = call /\ call = "stats"
      /\ rare' = rare \cup delta /\ tables' = tables /\ written' = written /\ written = {}
      /\ kept' = kept /\ seen' = seen /\ pc' = pc /\ delta' = delta /\ deltaNew' = deltaNew
  BY DEF Materialise, history, LInv, LTypes
<1>2. Rules' = Rules /\ AllPresumed' = AllPresumed /\ Evaluated' = Evaluated
  BY <1>1, SameProgram
<1>3. ~fresh' => delta \subseteq Readable
  BY DEF Materialise
<1>4. LTypes' /\ HistoryInv'
  BY <1>1 DEF LInv, LTypes, HistoryInv, Phases
<1>5. SoundInv' /\ DeltaInv'
  <2>1. Readable' \cup delta' \cup deltaNew' = Readable \cup delta \cup deltaNew
    BY <1>1 DEF Readable
  <2>2. SoundInv'
    BY <1>1, <1>2, <2>1 DEF LInv, SoundInv
  <2>3. DeltaInv'
    BY <1>1, <1>2 DEF LInv, DeltaInv
  <2> QED BY <2>2, <2>3
<1>6. SeedInv' /\ RoundInv'
  BY <1>1, <1>2 DEF LInv, SeedInv, RoundInv, Seeded, Rounded, AsWritten
<1>7. QuietInv'
  <2>1. Readable \subseteq seen
    BY <1>1 DEF LInv, HistoryInv, Readable
  <2>2. ~fresh' => \A i \in Evaluated : AsWritten(program[i]) => Query(program[i], kept) \subseteq seen
    BY <1>1, <1>3, <2>1 DEF LInv, SeedInv, Seeded
  <2> QED BY <1>1, <1>2, <2>2 DEF QuietInv, QuietMeansModel, AsWritten
<1> QED BY <1>4, <1>5, <1>6, <1>7 DEF LInv

(* infer runs one rule. *)
LEMMA RunRuleStep ==
    ASSUME LInv, RunRule
    PROVE  LInv'
<1>1. PICK X : X = SeedQuery(program[pc], Readable)
  OBVIOUS
<1>2. /\ phase = "simple" /\ phase' = phase /\ program' = program /\ call' = call /\ call = "infer"
      /\ rare' = rare /\ tables' = tables /\ delta' = delta /\ deltaNew' = deltaNew
      /\ kept' = kept /\ seen' = seen /\ pc' = pc + 1 /\ written' = written \cup X
  BY <1>1 DEF RunRule, store, history, LInv, LTypes
<1>3. ~fresh' => ~fresh /\ X \subseteq Readable
  BY <1>1 DEF RunRule
<1>4. /\ Rules' = Rules /\ AllPresumed' = AllPresumed /\ Evaluated' = Evaluated
      /\ Readable' = Readable \cup X
  BY <1>2, SameProgram DEF Readable
<1>5. /\ program \in Seq(Rule) /\ pc \in Nat \ {0} /\ pc <= Len(program)
      /\ Readable \subseteq Facts /\ kept \subseteq Readable
  BY <1>2 DEF LInv, LTypes, HistoryInv, Readable, RunRule
<1>6. Evaluated = DOMAIN program /\ pc \in DOMAIN program
  BY <1>2, <1>5, ProgramRules DEF Evaluated
<1>7. X \subseteq Facts
  BY <1>1, <1>5, <1>6, ProgramRules, StatementHead, StatementFacts
<1>8. LTypes' /\ HistoryInv'
  BY <1>2, <1>5, <1>7 DEF LInv, LTypes, HistoryInv
<1>9. SoundInv'
  <2> SUFFICES ASSUME AllPresumed, NEW M \in SUBSET Facts, seen \subseteq M, Closed(Rules, M)
               PROVE  (Readable \cup X) \cup delta \cup deltaNew \subseteq M
    BY <1>2, <1>4 DEF SoundInv
  <2>1. Readable \cup delta \cup deltaNew \subseteq M
    BY <1>2 DEF LInv, SoundInv
  <2>2. program[pc] \in Rules /\ Presumed(program[pc]) /\ Rules \subseteq Rule
    BY <1>5, <1>6, ProgramRules DEF AllPresumed
  <2>3. X \subseteq M
    BY <1>1, <2>1, <2>2, SeedSound
  <2> QED BY <2>1, <2>3
<1>10. SeedInv'
  <2>1. ASSUME NEW i \in Evaluated, AsWritten(program[i]), i < pc + 1
        PROVE  Query(program[i], kept) \subseteq written'
    <3>1. CASE i < pc
      BY <1>2, <2>1, <3>1 DEF LInv, SeedInv
    <3>2. CASE i = pc
      BY <1>1, <1>2, <1>5, <1>6, <2>1, <3>2, ProgramRules, SeedCovers
    <3>3. i \in Nat
      BY <1>5, ProgramRules
    <3> QED BY <1>5, <2>1, <3>1, <3>2, <3>3
  <2> QED BY <1>2, <1>4, <2>1 DEF SeedInv, Seeded, AsWritten
<1>11. RoundInv' /\ DeltaInv'
  BY <1>2, <1>4 DEF LInv, RoundInv, Rounded, DeltaInv
<1>12. QuietInv'
  <2>1. ~fresh' => X \subseteq seen
    BY <1>2, <1>3 DEF LInv, QuietInv, HistoryInv, Readable
  <2> QED BY <1>2, <1>3, <2>1 DEF LInv, QuietInv, QuietMeansModel
<1> QED BY <1>8, <1>9, <1>10, <1>11, <1>12 DEF LInv

(* infer commits. *)
LEMMA CommitStep ==
    ASSUME LInv, CommitInfer
    PROVE  LInv'
<1>1. /\ phase = "simple" /\ phase' = "done" /\ program' = program /\ call' = call /\ call = "infer"
      /\ rare' = rare /\ tables' = tables \cup written /\ delta' = delta /\ deltaNew' = deltaNew
      /\ kept' = kept /\ seen' = seen /\ pc' = pc /\ written' = {} /\ fresh' = fresh
      /\ pc > Len(program)
  BY DEF CommitInfer, history, LInv, LTypes
<1>2. /\ Rules' = Rules /\ AllPresumed' = AllPresumed /\ Evaluated' = Evaluated
      /\ Readable' = Readable
  BY <1>1, SameProgram DEF Readable
<1>3. \A i \in Evaluated : i < pc
  BY <1>1, ProgramRules DEF LInv, LTypes
<1>4. LTypes' /\ HistoryInv'
  BY <1>1 DEF LInv, LTypes, HistoryInv, Phases
<1>5. SoundInv'
  BY <1>1, <1>2 DEF LInv, SoundInv
<1>6. SeedInv' /\ RoundInv' /\ DeltaInv'
  BY <1>1, <1>2 DEF LInv, SeedInv, Seeded, RoundInv, Rounded, DeltaInv
<1>7. QuietInv'
  <2>1. ~fresh => \A i \in Evaluated : AsWritten(program[i]) => Query(program[i], kept) \subseteq seen
    BY <1>1, <1>3 DEF LInv, SeedInv, QuietInv
  <2> QED BY <1>1, <1>2, <2>1 DEF QuietInv, QuietMeansModel, AsWritten
<1> QED BY <1>4, <1>5, <1>6, <1>7 DEF LInv

(* The call returns or is rolled back. *)
LEMMA ReturnStep ==
    ASSUME LInv, Return
    PROVE  LInv'
<1>1. /\ phase' = "idle" /\ program' = program /\ call' = "infer" /\ pc' = 1
      /\ rare' = rare /\ tables' = tables /\ delta' = {} /\ deltaNew' = {} /\ written' = {}
      /\ kept' = {} /\ seen' = {}
  BY DEF Return, store
<1>2. LTypes' /\ HistoryInv' /\ SoundInv'
  BY <1>1 DEF LInv, LTypes, HistoryInv, SoundInv, Phases
<1>3. SeedInv' /\ RoundInv' /\ DeltaInv' /\ QuietInv'
  BY <1>1 DEF SeedInv, Seeded, RoundInv, Rounded, DeltaInv, QuietInv, QuietMeansModel
<1> QED BY <1>2, <1>3 DEF LInv

-----------------------------------------------------------------------------
(* The other session. *)

(* An insert adds to what has been seen. *)
LEMMA InsertStep ==
    ASSUME LInv, NEW f \in Writable \X Nodes \X Nodes, InsertFact(f)
    PROVE  LInv'
<1>1. /\ program' = program /\ phase' = phase /\ pc' = pc /\ call' = call
      /\ delta' = delta /\ deltaNew' = deltaNew /\ written' = written /\ fresh' = fresh
      /\ kept' = kept /\ seen' = seen \cup {f} /\ phase \notin {"idle", "done"}
      /\ rare \subseteq rare' /\ tables \subseteq tables'
      /\ rare' \subseteq rare \cup {f} /\ tables' \subseteq tables \cup {f}
  BY DEF InsertFact, Write
<1>2. Rules' = Rules /\ AllPresumed' = AllPresumed /\ Evaluated' = Evaluated
  BY <1>1, SameProgram
<1>3. f \in Facts
  BY DatalogAssumption DEF Facts
<1>4. LTypes'
  <2>1. rare' \subseteq Facts /\ tables' \subseteq Facts /\ seen' \subseteq Facts
    BY <1>1, <1>3 DEF LInv, LTypes
  <2> QED BY <1>1, <2>1 DEF LInv, LTypes
<1>5. HistoryInv'
  BY <1>1 DEF LInv, HistoryInv
<1>6. SoundInv'
  <2>1. Readable' \subseteq Readable \cup {f}
    BY <1>1 DEF Readable
  <2> QED BY <1>1, <1>2, <2>1 DEF LInv, SoundInv
<1>7. SeedInv' /\ RoundInv'
  BY <1>1, <1>2 DEF LInv, SeedInv, Seeded, RoundInv, Rounded, AsWritten
<1>8. DeltaInv' /\ QuietInv'
  BY <1>1, <1>2 DEF LInv, DeltaInv, QuietInv, QuietMeansModel
<1> QED BY <1>4, <1>5, <1>6, <1>7, <1>8 DEF LInv

(* A delete takes from what is kept, and rules yield less from less. *)
LEMMA DeleteStep ==
    ASSUME LInv, NEW f, DeleteFact(f)
    PROVE  LInv'
<1>1. /\ program' = program /\ phase' = phase /\ pc' = pc /\ call' = call
      /\ delta' = delta /\ deltaNew' = deltaNew /\ written' = written /\ fresh' = fresh
      /\ kept' = kept \ {f} /\ seen' = seen /\ phase \notin {"idle", "done"}
      /\ rare' = rare \ {f} /\ tables' = tables \ {f}
  BY DEF DeleteFact, Write
<1>2. Rules' = Rules /\ AllPresumed' = AllPresumed /\ Evaluated' = Evaluated
  BY <1>1, SameProgram
<1>3. LTypes' /\ HistoryInv'
  BY <1>1 DEF LInv, LTypes, HistoryInv
<1>4. SoundInv'
  <2>1. Readable' \subseteq Readable
    BY <1>1 DEF Readable
  <2> QED BY <1>1, <1>2, <2>1 DEF LInv, SoundInv
<1>5. \A i : /\ Query(program[i], kept') \subseteq Query(program[i], kept)
             /\ Variants(program[i], Heads(Rules), delta, kept') \subseteq
                    Variants(program[i], Heads(Rules), delta, kept)
  BY <1>1, QueryMonotone, VariantsMonotone
<1>6. SeedInv'
  <2>1. \A i \in Evaluated : AsWritten(program[i]) =>
            /\ Seeded(i) => Query(program[i], kept') \subseteq delta
            /\ phase = "simple" /\ i < pc => Query(program[i], kept') \subseteq written
    BY <1>5 DEF LInv, SeedInv
  <2>2. \A i : Seeded(i)' <=> Seeded(i)
    BY <1>1 DEF Seeded
  <2> QED BY <1>1, <1>2, <2>1, <2>2 DEF SeedInv, AsWritten
<1>7. RoundInv'
  <2>1. \A i \in Evaluated :
            /\ phase = "iterate" /\ i < pc => Variants(program[i], Heads(Rules), delta, kept') \subseteq deltaNew
            /\ Rounded => Variants(program[i], Heads(Rules), delta, kept') \subseteq delta
    BY <1>5 DEF LInv, RoundInv
  <2> QED BY <1>1, <1>2, <2>1 DEF RoundInv, Rounded
<1>8. DeltaInv' /\ QuietInv'
  BY <1>1, <1>2 DEF LInv, DeltaInv, QuietInv, QuietMeansModel
<1> QED BY <1>3, <1>4, <1>6, <1>7, <1>8 DEF LInv

-----------------------------------------------------------------------------
(* The invariant, and the properties. *)

(* A stratified program is a sequence of the rules loaded. *)
LEMMA StratifiedType ==
    ASSUME NEW prog \in Programs, NEW ord \in Stratified(prog)
    PROVE  ord \in Seq(Rule)
<1>1. prog \in Seq(Rule)
  BY DatalogAssumption
<1>2. DOMAIN prog = 1 .. Len(prog) /\ Len(prog) \in Nat
  BY <1>1
<1>3. PICK f \in Bijection(DOMAIN prog, DOMAIN prog) : ord = [i \in DOMAIN prog |-> prog[f[i]]]
  BY DEF Stratified
<1>4. f \in [DOMAIN prog -> DOMAIN prog]
  BY DEF Bijection, Injection
<1>5. ASSUME NEW i \in DOMAIN prog
      PROVE  prog[f[i]] \in Rule
  BY <1>1, <1>4
<1> QED BY <1>2, <1>3, <1>5

(* The invariant holds before the first call. *)
LEMMA InitLInv == Init => LInv
<1> SUFFICES ASSUME Init PROVE LInv
  OBVIOUS
<1>1. program \in Seq(Rule)
  BY StratifiedType DEF Init
<1>2. rare \subseteq Facts
  BY DatalogAssumption DEF Init, Given, Facts
<1>3. LTypes /\ HistoryInv /\ SoundInv
  BY <1>1, <1>2 DEF Init, LTypes, HistoryInv, SoundInv, Phases
<1>4. SeedInv /\ RoundInv /\ DeltaInv /\ QuietInv
  BY DEF Init, SeedInv, Seeded, RoundInv, Rounded, DeltaInv, QuietInv, QuietMeansModel
<1> QED BY <1>3, <1>4 DEF LInv

(* Every statement of a call and every write of the other session keeps it. *)
LEMMA NextLInv == LInv /\ [Next]_vars => LInv'
<1> SUFFICES ASSUME LInv, [Next]_vars PROVE LInv'
  OBVIOUS
<1>1. CASE InferWithStats \/ InferOnce
  BY <1>1, BeginStep
<1>2. CASE Inference
  BY <1>2, SeedStep, IterateStep, EndRoundStep, MaterialiseStep, RunRuleStep, CommitStep, ReturnStep
     DEF Inference
<1>3. CASE \E f \in Writable \X Nodes \X Nodes : InsertFact(f)
  BY <1>3, InsertStep
<1>4. CASE \E f \in rare \cup tables : DeleteFact(f)
  BY <1>4, DeleteStep
<1>5. CASE UNCHANGED vars
  <2>1. /\ program' = program /\ phase' = phase /\ pc' = pc /\ call' = call
        /\ delta' = delta /\ deltaNew' = deltaNew /\ written' = written /\ fresh' = fresh
        /\ kept' = kept /\ seen' = seen /\ rare' = rare /\ tables' = tables
    BY <1>5 DEF vars, store, history
  <2>2. Rules' = Rules /\ AllPresumed' = AllPresumed /\ Evaluated' = Evaluated
    BY <2>1, SameProgram
  <2>3. LTypes' /\ HistoryInv' /\ SoundInv'
    BY <2>1, <2>2 DEF LInv, LTypes, HistoryInv, SoundInv, Readable
  <2>4. SeedInv' /\ RoundInv'
    BY <2>1, <2>2 DEF LInv, SeedInv, Seeded, RoundInv, Rounded, AsWritten
  <2>5. DeltaInv' /\ QuietInv'
    BY <2>1, <2>2 DEF LInv, DeltaInv, QuietInv, QuietMeansModel, AsWritten
  <2> QED BY <2>3, <2>4, <2>5 DEF LInv
<1> QED BY <1>1, <1>2, <1>3, <1>4, <1>5 DEF Next

(* What a call has computed, between any two of its statements. *)
THEOREM CallInvariant == Spec => []LInv
<1> QED BY InitLInv, NextLInv, PTL DEF Spec

(* Whatever is written between its statements, a call of infer or           *)
(* infer_with_stats stores only what follows from facts that were there,    *)
(* recursive rules of the presumed form included.                           *)
THEOREM CallsAreSound == Spec => []Sound
<1>1. LInv => Sound
  <2> SUFFICES ASSUME LInv, phase = "done", AllPresumed
               PROVE  rare \cup tables \subseteq Model(Rules, seen)
    BY DEF Sound, AllPresumed
  <2> DEFINE H == HeadFacts(Rules)
  <2>1. program \in Seq(Rule) /\ seen \subseteq Facts
    BY DEF LInv, LTypes
  <2>2. Rules \subseteq Rule
    BY <2>1, ProgramRules
  <2>3. H \subseteq Facts
    <3>1. \A r \in Rules : r.head.p \in Preds
      BY <2>2 DEF Rule, Atom
    <3>2. Heads(Rules) \subseteq Preds
      BY <3>1 DEF Heads
    <3> QED BY <3>2 DEF HeadFacts, Facts
  <2>4. ASSUME NEW D \in SUBSET (H \ seen), Closed(Rules, seen \cup D)
        PROVE  rare \cup tables \subseteq seen \cup D
    <3>1. seen \cup D \in SUBSET Facts /\ seen \subseteq seen \cup D
      BY <2>1, <2>3
    <3> QED BY <2>4, <3>1 DEF LInv, SoundInv, Readable
  <2>5. Closed(Rules, seen \cup (H \ seen))
    <3> SUFFICES ASSUME NEW r \in Rules
                 PROVE  Query(r, seen \cup (H \ seen)) \subseteq H
      BY DEF Closed
    <3>1. Query(r, seen \cup (H \ seen)) \subseteq {r.head.p} \X Nodes \X Nodes
      BY <2>2, StatementHead
    <3>2. r.head.p \in Heads(Rules)
      BY DEF Heads
    <3> QED BY <3>1, <3>2 DEF HeadFacts
  <2> HIDE DEF H
  <2>6. rare \cup tables \subseteq seen \cup (H \ seen)
    BY <2>4, <2>5
  <2>7. rare \cup tables \subseteq seen \cup H
    BY <2>6
  <2> QED BY <2>4, <2>7 DEF Model, H
<1> QED BY <1>1, CallInvariant, PTL

(* A call that stores nothing new leaves nothing to derive in one step, by  *)
(* the rules it ran that are compiled as written, from the facts that       *)
(* stayed: repeating calls until nothing is stored finds a model.           *)
THEOREM QuietCallsFindAModel == Spec => []QuietMeansModel
<1>1. LInv => QuietMeansModel
  BY DEF LInv, QuietInv
<1> QED BY <1>1, CallInvariant, PTL

(* One call of infer_with_stats is enough for rules with at most one        *)
(* derived atom, although all other atoms are read from a store to which    *)
(* nothing is added before the end.                                         *)
THEOREM OneCallIsComplete == Spec => []OneCallComplete
<1>1. LInv => OneCallComplete
  <2> SUFFICES ASSUME LInv, phase = "done", call = "stats", \A i \in Evaluated : Linear(program[i])
               PROVE  Model({program[i] : i \in Evaluated}, kept) \subseteq rare \cup tables
    BY DEF OneCallComplete
  <2> DEFINE R == {program[i] : i \in Evaluated}
  <2>1. kept \subseteq rare \cup tables /\ delta \subseteq rare \cup tables /\ delta \subseteq HeadFacts(R)
    BY DEF LInv, HistoryInv, DeltaInv
  <2>2. program \in Seq(Rule)
    BY DEF LInv, LTypes
  <2>3. \A f \in delta : f[1] \in Heads(Rules)
    <3>1. R \subseteq Rules
      BY <2>2, ProgramRules
    <3>2. Heads(R) \subseteq Heads(Rules)
      BY <3>1 DEF Heads
    <3>3. \A f \in delta : f[1] \in Heads(R)
      BY <2>1 DEF HeadFacts
    <3> QED BY <3>2, <3>3
  <2>4. ASSUME NEW i \in Evaluated
        PROVE  Query(program[i], kept \cup delta) \subseteq delta
    <3>1. program[i] \in Rule /\ Linear(program[i])
      BY <2>2, ProgramRules
    <3>2. Query(program[i], kept) \subseteq delta
      BY <3>1 DEF LInv, SeedInv, Seeded, AsWritten, Linear
    <3>3. Variants(program[i], Heads(Rules), delta, kept) \subseteq delta
      BY DEF LInv, RoundInv, Rounded
    <3> QED BY <2>3, <3>1, <3>2, <3>3, LinearSplits
  <2>5. Closed(R, kept \cup delta)
    BY <2>4 DEF Closed
  <2> HIDE DEF R
  <2>6. kept \cup (delta \ kept) = kept \cup delta /\ delta \ kept \in SUBSET (HeadFacts(R) \ kept)
    BY <2>1
  <2>7. Model(R, kept) \subseteq kept \cup delta
    BY <2>5, <2>6 DEF Model
  <2> QED BY <2>1, <2>7 DEF R
<1> QED BY <1>1, CallInvariant, PTL
=============================================================================
