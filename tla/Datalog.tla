------------------------------- MODULE Datalog -------------------------------
(***************************************************************************)
(* Inference over a loaded rule set: infer() and infer_with_stats()        *)
(* (src/src/datalog/seminaive.rs, stratify.rs and compiler/).              *)
(*                                                                         *)
(* A rule has a head and positive body atoms, whose predicates are         *)
(* constants and whose subject and object are two different variables; one *)
(* graph.  Each rule is compiled to SQL, each statement reads what is      *)
(* committed when it starts, and another session inserts and deletes facts *)
(* in between.  Negation, aggregates, guards and variable predicates are   *)
(* left out; no CONSTRUCT rule is registered, so the flush of the journal  *)
(* that ends a call changes nothing.                                       *)
(***************************************************************************)
EXTENDS Naturals, FiniteSets, Sequences, Functions

CONSTANTS
    Nodes,      \* subjects and objects
    Preds,      \* predicates
    Programs,   \* rule sets that may be loaded, each a sequence of rules
    Vars,       \* variables of rules
    Writable,   \* predicates the other session writes
    MaxGiven,   \* bound on the facts there from the beginning,
    MaxWrites,  \* on the writes of the other session,
    MaxCalls    \* and on calls

Atom == {a \in [p : Preds, s : Vars, o : Vars] : a.s # a.o}

Rule == [head : Atom, body : Seq(Atom)]

ASSUME DatalogAssumption ==
    /\ MaxGiven \in Nat /\ MaxWrites \in Nat /\ MaxCalls \in Nat
    /\ Writable \subseteq Preds
    /\ Programs \subseteq Seq(Rule)

VARIABLES
    program,    \* _pg_ripple.rules of the set, ORDER BY stratum, id
    rare,       \* facts in vp_rare
    tables,     \* facts in the tables of their predicate
    dedicated,  \* predicates that have tables
    phase, pc,  \* where the call is: the rule its next statement is for
    call,       \* "infer" or "stats"
    delta,      \* _dl_delta_{p}, for every p
    deltaNew,   \* _dl_delta_new_{p}
    written,    \* rows the call's transaction has written
    fresh,      \* has the call stored a fact that was not there?
    kept,       \* history: facts there since the call began,
    seen,       \* and facts that were there, or came from outside, since
    writes, calls

store   == <<rare, tables, dedicated>>
history == <<kept, seen>>
vars    == <<program, store, phase, pc, call, delta, deltaNew, written, fresh, history, writes, calls>>

Rules == Range(program)

Heads(rules) == {r.head.p : r \in rules}

Facts == Preds \X Nodes \X Nodes

(* vp_read_expr: the view of the tables, and what vp_rare still holds. *)
Readable == rare \cup tables \cup written

(* What a SPARQL query reads. *)
Visible == {f \in rare \cup tables : IF f[1] \in dedicated THEN f \in tables ELSE f \in rare}

-----------------------------------------------------------------------------
(* Loading rules: stratify. *)

DependsOn(rules, p) == UNION {{a.p : a \in Range(r.body)} : r \in {x \in rules : x.head.p = p}}

(* The predicates in every set that has S and what its members depend on. *)
ReachFrom(rules, S) ==
    {q \in Preds : \A T \in SUBSET Preds :
        S \subseteq T /\ (\A p \in T : DependsOn(rules, p) \subseteq T) => q \in T}

Reaches(rules, p, q) == q \in ReachFrom(rules, DependsOn(rules, p))

(* Edges lead from a head to its body, and strata are numbered along them:  *)
(* a head comes before what it depends on.  Components that do not depend   *)
(* on each other come in any order.                                         *)
Stratified(prog) ==
    {ord \in {[i \in DOMAIN prog |-> prog[f[i]]] : f \in Bijection(DOMAIN prog, DOMAIN prog)} :
        \A i, j \in DOMAIN ord :
            LET p == ord[i].head.p
                q == ord[j].head.p
            IN  i < j /\ Reaches(Range(prog), q, p) => Reaches(Range(prog), p, q)}

BodyPreds(r) == [i \in DOMAIN r.body |-> r.body[i].p]

Occurrences(s, p) == Cardinality({i \in DOMAIN s : s[i] = p})

(* is_multiset_subset. *)
Within(s, t) == \A p \in Range(s) : Occurrences(s, p) <= Occurrences(t, p)

(* check_subsumption: by the predicates of head and body alone. *)
Subsumed(prog, j) ==
    \E i \in DOMAIN prog \ {j} :
        LET b1 == BodyPreds(prog[i])
            b2 == BodyPreds(prog[j])
        IN  /\ prog[i].head.p = prog[j].head.p
            /\ Within(b1, b2)
            /\ Len(b1) < Len(b2) \/ (i < j /\ Len(b1) = Len(b2))

(* active_rules, by their places in the program.  They are dropped by their *)
(* text: of two equal rules neither stays.                                  *)
Active(prog) == {j \in DOMAIN prog : \A i \in DOMAIN prog : prog[i] = prog[j] => ~Subsumed(prog, i)}

-----------------------------------------------------------------------------
(* The statements rules are compiled to. *)

Bound(a, b) == <<a.p, b[a.s], b[a.o]>>

(* The join of the body, the i-th atom read from source[i]. *)
Join(r, source) ==
    {Bound(r.head, b) : b \in {x \in [Vars -> Nodes] :
        \A i \in DOMAIN r.body : Bound(r.body[i], x) \in source[i]}}

Query(r, F) == Join(r, [i \in DOMAIN r.body |-> F])

IsRecursive(r) == \E i \in DOMAIN r.body : r.body[i].p = r.head.p

(* WITH RECURSIVE: the least set that has the pairs, and with (y, z) every  *)
(* (x, z) for which (x, y) is in the base.                                  *)
Closure(base, pairs) ==
    {u \in Nodes \X Nodes : \A P \in SUBSET (Nodes \X Nodes) :
        pairs \subseteq P /\ (\A v \in base, w \in P : v[2] = w[1] => <<v[1], w[2]>> \in P) => u \in P}

(* Mutant: the predicate is not compared. *)
PairsOfAll(F, p) == {<<f[2], f[3]>> : f \in F}

Pairs(F, p) == {<<f[2], f[3]>> : f \in {x \in F : x[1] = p}}

(* base_atoms: the atoms of other predicates than the head's. *)
BaseAtoms(r) == {i \in DOMAIN r.body : r.body[i].p # r.head.p}

(* base_pred: the first of them, or the head's. *)
BasePred(r) ==
    IF BaseAtoms(r) = {} THEN r.head.p
    ELSE r.body[CHOOSE i \in BaseAtoms(r) : \A j \in BaseAtoms(r) : i <= j].p

(* compile_recursive_rule: the rows of the base predicates closed under the *)
(* first of them.                                                           *)
RecursiveQuery(r, F) ==
    LET start == UNION {Pairs(F, p) : p \in {BasePred(r)} \cup {r.body[i].p : i \in BaseAtoms(r)}}
    IN  {<<r.head.p, x[1], x[2]>> : x \in Closure(Pairs(F, BasePred(r)), start)}

(* compile_single_rule_to. *)
SeedQuery(r, F) == IF IsRecursive(r) THEN RecursiveQuery(r, F) ELSE Query(r, F)

(* Mutant: no variant for the first atom of a body. *)
VariantsButFirst(r, derived, D, F) ==
    UNION {Join(r, [i \in DOMAIN r.body |-> IF i = k THEN D ELSE F]) : k \in DOMAIN r.body \ {1}}

(* compile_rule_delta_variants_to: one atom of a derived predicate is read  *)
(* from the delta tables, and all others from the store.                    *)
Variants(r, derived, D, F) ==
    UNION {Join(r, [i \in DOMAIN r.body |-> IF i = k THEN D ELSE F]) :
              k \in {n \in DOMAIN r.body : r.body[n].p \in derived}}

-----------------------------------------------------------------------------
Given == {F \in SUBSET (Writable \X Nodes \X Nodes) : Cardinality(F) <= MaxGiven}

Init ==
    /\ program \in UNION {Stratified(prog) : prog \in Programs}
    /\ rare \in Given /\ tables = {} /\ dedicated = {}
    /\ phase = "idle" /\ pc = 1 /\ call = "infer"
    /\ delta = {} /\ deltaNew = {} /\ written = {} /\ fresh = FALSE
    /\ kept = {} /\ seen = {} /\ writes = 0 /\ calls = 0

(* The rules that the call evaluates, by their places. *)
Evaluated == IF call = "stats" THEN Active(program) ELSE DOMAIN program

Begin(c, ph) ==
    /\ phase = "idle" /\ calls < MaxCalls
    /\ calls' = calls + 1
    /\ phase' = ph /\ call' = c /\ pc' = 1
    /\ delta' = {} /\ deltaNew' = {} /\ written' = {} /\ fresh' = FALSE
    /\ kept' = Readable /\ seen' = Readable
    /\ UNCHANGED <<program, store, writes>>

(* infer_with_stats. *)
InferWithStats == Begin("stats", "seed")

Seed ==
    /\ phase = "seed"
    /\ IF pc > Len(program)
       THEN phase' = "iterate" /\ pc' = 1 /\ UNCHANGED delta
       ELSE /\ delta' = delta \cup IF pc \in Evaluated THEN SeedQuery(program[pc], Readable) ELSE {}
            /\ pc' = pc + 1 /\ UNCHANGED phase
    /\ UNCHANGED <<program, store, call, deltaNew, written, fresh, history, writes, calls>>

Iterate ==
    /\ phase = "iterate" /\ pc <= Len(program)
    /\ deltaNew' = deltaNew \cup IF pc \in Evaluated THEN Variants(program[pc], Heads(Rules), delta, Readable) ELSE {}
    /\ pc' = pc + 1
    /\ UNCHANGED <<program, store, phase, call, delta, written, fresh, history, writes, calls>>

(* Mutant: the rows of the round are counted, and not the new ones. *)
NothingDerived == deltaNew = {}

NothingNew == deltaNew \subseteq delta

(* The end of a round: max_iterations is far above what a round can add. *)
EndRound ==
    /\ phase = "iterate" /\ pc > Len(program)
    /\ delta' = delta \cup deltaNew /\ deltaNew' = {}
    /\ phase' = IF NothingNew THEN "materialise" ELSE "iterate"
    /\ pc' = 1
    /\ UNCHANGED <<program, store, call, written, fresh, history, writes, calls>>

(* Everything goes to vp_rare, and the transaction commits. *)
Materialise ==
    /\ phase = "materialise"
    /\ rare' = rare \cup delta
    /\ fresh' = ~(delta \subseteq Readable)
    /\ phase' = "done"
    /\ UNCHANGED <<program, tables, dedicated, pc, call, delta, deltaNew, written, history, writes, calls>>

(* infer: the statements of all rules, once, in the order of their strata.  *)
InferOnce == Begin("infer", "simple")

(* Mutant: recursive rules are left to infer_with_stats. *)
RunRuleNonrecursive ==
    /\ phase = "simple" /\ pc <= Len(program)
    /\ LET rows == IF IsRecursive(program[pc]) THEN {} ELSE SeedQuery(program[pc], Readable)
       IN  written' = written \cup rows /\ fresh' = (fresh \/ ~(rows \subseteq Readable))
    /\ pc' = pc + 1
    /\ UNCHANGED <<program, store, phase, call, delta, deltaNew, history, writes, calls>>

RunRule ==
    /\ phase = "simple" /\ pc <= Len(program)
    /\ LET rows == SeedQuery(program[pc], Readable)
       IN  written' = written \cup rows /\ fresh' = (fresh \/ ~(rows \subseteq Readable))
    /\ pc' = pc + 1
    /\ UNCHANGED <<program, store, phase, call, delta, deltaNew, history, writes, calls>>

(* compile_single_rule has made tables for every head (ensure_htap_tables); *)
(* what vp_rare held stays there.                                           *)
CommitInfer ==
    /\ phase = "simple" /\ pc > Len(program)
    /\ tables' = tables \cup written /\ written' = {}
    /\ dedicated' = dedicated \cup Heads(Rules)
    /\ phase' = "done"
    /\ UNCHANGED <<program, rare, pc, call, delta, deltaNew, fresh, history, writes, calls>>

(* The call returns, or its transaction is rolled back. *)
Return ==
    /\ phase # "idle"
    /\ phase' = "idle" /\ pc' = 1
    /\ delta' = {} /\ deltaNew' = {} /\ written' = {} /\ fresh' = FALSE /\ call' = "infer"
    /\ kept' = {} /\ seen' = {}
    /\ UNCHANGED <<program, store, writes, calls>>

-----------------------------------------------------------------------------
(* The other session.  While infer is open it holds the predicates rows of  *)
(* the heads it has made tables for, which an insert into them updates.     *)
Locked(p) == phase = "simple" /\ p \in Heads(Rules) \ dedicated

(* It writes while a call runs: what it writes before one is Given. *)
Write == phase \notin {"idle", "done"} /\ writes < MaxWrites /\ writes' = writes + 1 /\ UNCHANGED calls

InsertFact(f) ==
    /\ Write /\ f \notin rare \cup tables /\ ~Locked(f[1])
    /\ rare' = IF f[1] \in dedicated THEN rare ELSE rare \cup {f}
    /\ tables' = IF f[1] \in dedicated THEN tables \cup {f} ELSE tables
    /\ seen' = seen \cup {f}
    /\ UNCHANGED <<program, dedicated, phase, pc, call, delta, deltaNew, written, fresh, kept>>

DeleteFact(f) ==
    /\ Write /\ f \in rare \cup tables
    /\ rare' = rare \ {f} /\ tables' = tables \ {f}
    /\ kept' = kept \ {f}
    /\ UNCHANGED <<program, dedicated, phase, pc, call, delta, deltaNew, written, fresh, seen>>

Inference == Seed \/ Iterate \/ EndRound \/ Materialise \/ RunRule \/ CommitInfer \/ Return

Next ==
    \/ InferWithStats \/ InferOnce
    \/ Inference
    \/ \E f \in Writable \X Nodes \X Nodes : InsertFact(f)
    \/ \E f \in rare \cup tables : DeleteFact(f)

(* A backend executes the statements of a call one after the other. *)
Progress == Seed \/ Iterate \/ EndRound \/ Materialise \/ RunRule \/ CommitInfer

Spec == Init /\ [][Next]_vars /\ WF_vars(Progress)

-----------------------------------------------------------------------------
Closed(rules, M) == \A r \in rules : Query(r, M) \subseteq M

HeadFacts(rules) == Heads(rules) \X Nodes \X Nodes

(* The least model of rules over F: the facts of all its closed extensions. *)
Model(rules, F) ==
    {f \in F \cup HeadFacts(rules) : \A D \in SUBSET (HeadFacts(rules) \ F) :
        f \in F \cup D \/ ~Closed(rules, F \cup D)}

(* a(x, z) :- a(x, y), a(y, z) *)
IsTransitivity(r) ==
    /\ Len(r.body) = 2 /\ Heads({r}) = {r.body[1].p, r.body[2].p}
    /\ r.body[1].s = r.head.s /\ r.body[1].o = r.body[2].s /\ r.body[2].o = r.head.o

(* a(x, z) :- e(x, y), a(y, z) *)
IsChain(r) ==
    /\ Len(r.body) = 2 /\ r.body[2].p = r.head.p /\ r.body[1].p # r.head.p
    /\ r.body[1].s = r.head.s /\ r.body[1].o = r.body[2].s /\ r.body[2].o = r.head.o

IsCopy(r, e, a) ==
    Len(r.body) = 1 /\ r.head.p = a /\ r.body[1].p = e /\ r.body[1].s = r.head.s /\ r.body[1].o = r.head.o

(* Recursive rules of the form the compiler presumes. *)
Presumed(r) ==
    IsRecursive(r) => IsTransitivity(r)
        \/ (IsChain(r) /\ \E c \in Rules : IsCopy(c, r.body[1].p, r.head.p))

(* Whatever is written between the statements of a call, it stores only     *)
(* what follows from facts that were there at some time since it began, if  *)
(* the recursive rules have the form compile_recursive_rule presumes.       *)
Sound == phase = "done" /\ (\A r \in Rules : Presumed(r)) => rare \cup tables \subseteq Model(Rules, seen)

AsWritten(r) == ~IsRecursive(r) \/ IsTransitivity(r)

(* When a call stores nothing new, the rules it ran yield nothing from the  *)
(* facts that stayed which was not there, as far as they are compiled as    *)
(* written: calls can be repeated until nothing is derived                  *)
(* (run_inference_seminaive, run_inference).                                *)
QuietMeansModel ==
    phase = "done" /\ ~fresh =>
        \A i \in Evaluated : AsWritten(program[i]) => Query(program[i], kept) \subseteq seen

(* At most one atom of the body has a derived predicate. *)
Linear(r) ==
    /\ ~IsRecursive(r)
    /\ \A i, j \in DOMAIN r.body : {r.body[i].p, r.body[j].p} \subseteq Heads(Rules) => i = j

(* One call of infer_with_stats is enough when no body joins two derived    *)
(* predicates: all that follows from facts that stayed is there, although   *)
(* nothing is materialised before the end (run_inference_seminaive).        *)
OneCallComplete ==
    phase = "done" /\ call = "stats" /\ (\A i \in Evaluated : Linear(program[i])) =>
        Model({program[i] : i \in Evaluated}, kept) \subseteq rare \cup tables

(* The rounds of a call end (new_this_iter). *)
CallsEnd == phase # "idle" ~> phase \in {"done", "idle"}

(* "Full (infer()): complete; all derived facts available"                  *)
(* (docs/src/features/reasoning-and-inference.md).                          *)
AllDerivedAvailable ==
    phase = "done" /\ call = "infer" /\ kept = seen => Model(Rules, kept) \subseteq Visible
=============================================================================
