---------------------------- MODULE ConstructRules ----------------------------
(***************************************************************************)
(* CONSTRUCT writeback rules and the mutation journal that fires them      *)
(* (src/src/construct_rules/, src/src/storage/mutation_journal.rs, the     *)
(* write functions of src/src/dict_api.rs and src/src/views_api.rs, and    *)
(* SPARQL Update in src/src/sparql/execute/update.rs).                     *)
(*                                                                         *)
(* A rule reads source graphs and writes what its query yields into a      *)
(* target graph.  A write records its graph in a journal; the journal is   *)
(* flushed before the call returns, and runs the rules that read the graph *)
(* in the order of (rule_order, name): one step for the write, one for     *)
(* each graph of the journal and one for each rule.  Rows are of vp_rare,  *)
(* whose key is a triple and its graph; the column source tells the rows a *)
(* user asserted (0) from the ones a rule derived (1).  A call begins when *)
(* the one before has returned: what two concurrent sessions do to each    *)
(* other is left out here.                                                 *)
(***************************************************************************)
EXTENDS Integers, FiniteSets

CONSTANTS
    Graphs, Facts,   \* named graphs, and triples
    Names,           \* names of rules, numbers: they are compared
    Queries          \* what rules may say: [reads, minus, tgt]

ASSUME ConstructAssumption ==
    /\ Names \subseteq Nat
    /\ Queries \subseteq [reads : SUBSET Graphs, minus : SUBSET Graphs, tgt : Graphs]

Keys == Graphs \X Facts

VARIABLES
    asserted, derived, \* the rows of vp_rare, by their source column
    prov,              \* _pg_ripple.construct_rule_triples: <<rule, key>>
    rules,             \* _pg_ripple.construct_rules: name -> [query, ord]
    delGraphs,         \* delete_graphs and insert_graphs of the flush: the
    insGraphs,         \* graphs that have not had their turn
    kind, todo,        \* the graph whose turn it is: "delete" or "write", and
                       \* the affected rules that have not run yet
    mine,              \* history: keys a user has put there, and not removed
    abandoned,         \* history: rows of a rule dropped without retraction
    missing, surplus   \* history: rules that need not have every fact, or may
                       \* have too many, for a reason given below

tables  == <<asserted, derived, prov>>
history == <<mine, abandoned, missing, surplus>>
flush   == <<delGraphs, insGraphs, kind, todo>>
vars    == <<tables, rules, flush, history>>

Init ==
    /\ asserted = {} /\ derived = {} /\ prov = {}
    /\ rules = [r \in {} |-> 0]
    /\ delGraphs = {} /\ insGraphs = {} /\ kind = "write" /\ todo = {}
    /\ mine = {} /\ abandoned = {} /\ missing = {} /\ surplus = {}

Registered == DOMAIN rules

Query(r) == rules[r].query

(* source_graphs, as collect_source_graphs finds them: MINUS is walked too. *)
Sources(q) == q.reads \cup q.minus

InGraph(K, g) == {k \in K : k[1] = g}

-----------------------------------------------------------------------------
(* Running rules, as functions of the tables t. *)

Tables == [asserted |-> asserted, derived |-> derived, prov |-> prov]

Visible(t) == t.asserted \cup t.derived

(* What the compiled query selects from the rows V: here the union of the   *)
(* graphs it reads, less the graphs it subtracts.                           *)
Derivable(q, V) ==
    {k \in InGraph(Keys, q.tgt) :
        /\ \E g \in q.reads : <<g, k[2]>> \in V
        /\ \A g \in q.minus : <<g, k[2]>> \notin V}

(* Mutant: only the rows this run has inserted get provenance. *)
RecordInserted(r, q, t) ==
    LET new == Derivable(q, Visible(t)) \ Visible(t)
    IN  [t EXCEPT !.derived = @ \cup new, !.prov = @ \cup {<<r, k>> : k \in new}]

(* run_full_recompute: INSERT ... ON CONFLICT DO NOTHING, then provenance   *)
(* for every yielded row that is there as a derived one, whoever put it.    *)
Recompute(r, q, t) ==
    LET yield == Derivable(q, Visible(t))
        new   == yield \ Visible(t)
    IN  [t EXCEPT !.derived = @ \cup new,
                  !.prov = @ \cup {<<r, k>> : k \in yield \cap (t.derived \cup new)}]

Owners(k, P) == {r \in Names : <<r, k>> \in P}

(* Mutant: retraction does not look at the source column. *)
RetractAnyRow(r, t) ==
    LET exclusive == {k \in Keys : Owners(k, t.prov) = {r}}
    IN  [t EXCEPT !.derived = @ \ exclusive, !.asserted = @ \ exclusive]

(* retract_exclusive_triples: the derived rows that only this rule owns. *)
Retract(r, t) == [t EXCEPT !.derived = @ \ {k \in Keys : Owners(k, t.prov) = {r}}]

Forget(r, t) == [t EXCEPT !.prov = {p \in @ : p[1] # r}]

(* Mutant: provenance is cleared before it is used to retract. *)
ForgetFirst(r, q, t) == Recompute(r, q, Retract(r, Forget(r, t)))

Rederive(r, q, t) == Recompute(r, q, Forget(r, Retract(r, t)))

Affected(g) == {r \in Registered : g \in Sources(Query(r))}

(* Mutant: rules run by name. *)
BeforeByName(r, s) == r < s

(* ORDER BY rule_order, name. *)
Before(r, s) == rules[r].ord < rules[s].ord \/ (rules[r].ord = rules[s].ord /\ r < s)

(* The tables after a call; rows left without a rule stay so until a rule   *)
(* takes them over.                                                         *)
SetTables(t, left) ==
    /\ asserted' = t.asserted /\ derived' = t.derived /\ prov' = t.prov
    /\ abandoned' = {k \in left : k \in t.derived /\ Owners(k, t.prov) = {}}

-----------------------------------------------------------------------------
(* Why a rule need not agree with its sources.  Rules that write a graph    *)
(* change it without the journal, so the rules that read it do not run,     *)
(* unless they read the graph that was written as well and come later.  A   *)
(* run after a write adds and never retracts, so that facts subtracted by   *)
(* MINUS stay.                                                              *)

Readers(G) == {r \in Registered : Sources(Query(r)) \cap G # {}}

Subtractors(G) == {r \in Registered : Query(r).minus \cap G # {}}

Writers(G) == {r \in Registered : Query(r).tgt \in G}

(* Precedes is what the order promises: smaller rule_order, then name. *)
Precedes(s, r) ==
    IF rules[s].ord = rules[r].ord THEN s < r ELSE rules[s].ord < rules[r].ord

(* The rules that some rule of R feeds after they have run, or alone. *)
Fed(R) ==
    {r \in Registered : \E s \in R :
        /\ Query(s).tgt \in Sources(Query(r))
        /\ r \notin R \/ ~Precedes(s, r)}

Targets(R) == {Query(s).tgt : s \in R}

Marks == [missing |-> missing, surplus |-> surplus]

(* A change of G that fires nothing. *)
MarkSilent(G, m) == [missing |-> m.missing \cup Readers(G), surplus |-> m.surplus \cup Readers(G)]

(* Rows of G removed by a user: rules that write G may miss them. *)
MarkRemoved(G, m) == [m EXCEPT !.missing = @ \cup Writers(G)]

MarkWrite(g, m) ==
    LET R == Affected(g)
    IN  [missing |-> (m.missing \ R) \cup Fed(R),
         surplus |-> m.surplus \cup Fed(R) \cup Subtractors({g} \cup Targets(R))]

MarkDelete(g, m) ==
    LET R == Affected(g)
    IN  [missing |-> (m.missing \ R) \cup Fed(R), surplus |-> (m.surplus \ R) \cup Fed(R)]

SetMarks(m) == missing' = m.missing /\ surplus' = m.surplus

-----------------------------------------------------------------------------
(* The flush of the journal. *)

(* No call is open. *)
Quiet == delGraphs = {} /\ insGraphs = {} /\ todo = {}

(* flush: the graphs deleted from have their turn before the graphs         *)
(* written, each group in the order of the writes, which may be any.        *)
Flush(del, ins) == delGraphs' = del /\ insGraphs' = ins /\ UNCHANGED <<kind, todo>>

(* on_graph_delete loads the affected rules. *)
OnGraphDelete(g) ==
    /\ todo = {} /\ g \in delGraphs
    /\ delGraphs' = delGraphs \ {g}
    /\ kind' = "delete" /\ todo' = Affected(g)
    /\ SetMarks(MarkDelete(g, Marks))
    /\ UNCHANGED <<tables, rules, insGraphs, mine, abandoned>>

(* on_graph_write does. *)
OnGraphWrite(g) ==
    /\ todo = {} /\ delGraphs = {} /\ g \in insGraphs
    /\ insGraphs' = insGraphs \ {g}
    /\ kind' = "write" /\ todo' = Affected(g)
    /\ SetMarks(MarkWrite(g, Marks))
    /\ UNCHANGED <<tables, rules, delGraphs, mine, abandoned>>

(* Their loops: the next rule in the order. *)
RunRule(r) ==
    /\ r \in todo /\ \A s \in todo \ {r} : Before(r, s)
    /\ SetTables(IF kind = "delete" THEN Rederive(r, Query(r), Tables)
                                   ELSE Recompute(r, Query(r), Tables), abandoned)
    /\ todo' = todo \ {r}
    /\ UNCHANGED <<rules, delGraphs, insGraphs, kind, mine, missing, surplus>>

-----------------------------------------------------------------------------
(* Writes that the journal sees. *)

(* A write of the keys gone and come, journalled; the flush follows.        *)
Journalled(gone, come, del, ins) ==
    LET absent == come \ (Visible(Tables) \ gone)
        t == [Tables EXCEPT !.asserted = (@ \ gone) \cup absent, !.derived = @ \ gone]
    IN  /\ Quiet
        /\ SetTables(t, abandoned)
        /\ SetMarks(MarkRemoved({k[1] : k \in gone}, Marks))
        /\ mine' = (mine \ gone) \cup absent
        /\ Flush(del, ins)
        /\ UNCHANGED rules

(* insert_triple: journalled when a row was inserted. *)
InsertTriple(k) ==
    /\ k \notin Visible(Tables)
    /\ Journalled({}, {k}, {}, {k[1]})

(* delete_triple_from_graph: journalled when a row was deleted. *)
DeleteTripleFromGraph(k) ==
    /\ k \in Visible(Tables)
    /\ Journalled({k}, {}, {k[1]}, {})

(* INSERT DATA / DELETE DATA / DELETE INSERT WHERE with one solution, by    *)
(* delete_triple_by_ids and insert_triple_by_ids: the insertion is          *)
(* journalled even when the row is there.                                   *)
SparqlUpdate(dels, inss) ==
    LET gone == dels \cap Visible(Tables)
    IN  Journalled(gone, inss, {k[1] : k \in gone}, {k[1] : k \in inss})

-----------------------------------------------------------------------------
(* Writes that it does not see: no rule runs. *)

Silent(gone, come, G) ==
    LET absent == come \ (Visible(Tables) \ gone)
        m == MarkRemoved({k[1] : k \in gone}, Marks)
        t == [Tables EXCEPT !.asserted = (@ \ gone) \cup absent, !.derived = @ \ gone]
    IN  /\ Quiet
        /\ SetTables(t, abandoned)
        /\ SetMarks(MarkSilent(G, m))
        /\ mine' = (mine \ gone) \cup absent
        /\ UNCHANGED <<rules, flush>>

(* insert_triples: storage::insert_triple does not record. *)
InsertTriples(K) == Silent({}, K, {k[1] : k \in K})

(* clear_graph, CLEAR, DROP: clear_graph_by_id does not record. *)
ClearGraph(g) == Silent(InGraph(Visible(Tables), g), {}, {g})

Copied(g, h) == {<<h, k[2]>> : k \in InGraph(Visible(Tables), g)}

(* ADD g TO h. *)
Add(g, h) == Silent({}, Copied(g, h), {h})

(* COPY g TO h: h is cleared first, so that a graph copied to itself is     *)
(* empty afterwards.                                                        *)
Copy(g, h) ==
    Silent(InGraph(Visible(Tables), h), IF g = h THEN {} ELSE Copied(g, h), {h})

(* MOVE g TO h. *)
Move(g, h) ==
    LET all == Visible(Tables)
    IN  Silent(InGraph(all, g) \cup InGraph(all, h), IF g = h THEN {} ELSE Copied(g, h), {g, h})

-----------------------------------------------------------------------------
(* Rules. *)

(* The map writer_of: the writer of a graph, the last one in rule_order, or *)
(* the new rule.                                                            *)
IsWriterOf(w, g, new, q) ==
    IF q.tgt = g THEN w = new
    ELSE /\ w \in Writers({g})
         /\ \A s \in Writers({g}) : rules[s].ord <= rules[w].ord

(* compute_rule_order: the positions Kahn's algorithm can give the new      *)
(* rule; none when what it looks at has a cycle.  Rules become ready when   *)
(* their last predecessor is placed and are placed in the order in which    *)
(* they become ready.                                                       *)
RuleOrders(new, q) ==
    LET all     == Registered \cup {new}
        src(r)  == IF r = new THEN Sources(q) ELSE Sources(Query(r))
        Places  == 1 .. Cardinality(all)
        Ready(o, pred, r) == {o[p] : p \in pred[r]}
        Later(A, B) == \E b \in B : \A a \in A : a < b
        Maps    == {w \in [Graphs -> all \cup {new}] :
                        \A g \in Graphs : IsWriterOf(w[g], g, new, q) \/ (Writers({g}) = {} /\ q.tgt # g /\ w[g] = new)}
        Preds(w) == [r \in all |-> {w[g] : g \in {h \in src(r) : h = q.tgt \/ Writers({h}) # {}}} \ {r}]
    IN  {o[new] - 1 : o \in {x \in [all -> Places] :
            \E w \in Maps : LET pred == Preds(w) IN
               /\ \A r, s \in all : r # s => x[r] # x[s]
               /\ \A r \in all : \A p \in pred[r] : x[p] < x[r]
               /\ \A r, s \in all : Later(Ready(x, pred, r), Ready(x, pred, s)) => x[r] < x[s]}}

(* create_construct_rule.  A name that is taken is counted twice by the     *)
(* sort, which then reports a cycle.                                        *)
CreateConstructRule(r, q) ==
    /\ Quiet /\ r \notin Registered
    /\ q.tgt \notin Sources(q)
    /\ \E ord \in RuleOrders(r, q) :
           rules' = [s \in Registered \cup {r} |-> IF s = r THEN [query |-> q, ord |-> ord] ELSE rules[s]]
    /\ SetTables(Recompute(r, q, Tables), abandoned)
    /\ SetMarks([missing |-> (missing \ {r}) \cup Readers({q.tgt}),
                 surplus |-> (surplus \ {r}) \cup Readers({q.tgt})])
    /\ UNCHANGED <<flush, mine>>

(* drop_construct_rule. *)
DropConstructRule(r, retract) ==
    /\ Quiet /\ r \in Registered
    /\ SetTables(Forget(r, IF retract THEN Retract(r, Tables) ELSE Tables),
                 IF retract THEN abandoned ELSE derived)
    /\ rules' = [s \in Registered \ {r} |-> rules[s]]
    /\ SetMarks([missing |-> (missing \cup (IF retract THEN Readers({Query(r).tgt}) ELSE {})) \ {r},
                 surplus |-> (surplus \cup (IF retract THEN Readers({Query(r).tgt}) ELSE {})) \ {r}])
    /\ UNCHANGED <<flush, mine>>

(* refresh_construct_rule. *)
RefreshConstructRule(r) ==
    /\ Quiet /\ r \in Registered
    /\ SetTables(Rederive(r, Query(r), Tables), abandoned)
    /\ SetMarks([missing |-> (missing \ {r}) \cup Readers({Query(r).tgt}),
                 surplus |-> (surplus \ {r}) \cup Readers({Query(r).tgt})])
    /\ UNCHANGED <<rules, flush, mine>>

(* apply_for_graph: on_graph_write by hand. *)
ApplyForGraph(g) ==
    /\ Quiet
    /\ Flush({}, {g})
    /\ UNCHANGED <<tables, rules, history>>

Next ==
    \/ \E k \in Keys : InsertTriple(k)
    \/ \E k \in Keys : DeleteTripleFromGraph(k)
    \/ \E k, l \in Keys : SparqlUpdate({k}, {l})
    \/ \E k \in Keys : SparqlUpdate({k}, {}) \/ SparqlUpdate({}, {k})
    \/ \E k \in Keys : InsertTriples({k})
    \/ \E g \in Graphs : ClearGraph(g)
    \/ \E g, h \in Graphs : Add(g, h)
    \/ \E g, h \in Graphs : Copy(g, h)
    \/ \E g, h \in Graphs : Move(g, h)
    \/ \E r \in Names, q \in Queries : CreateConstructRule(r, q)
    \/ \E r \in Names, b \in BOOLEAN : DropConstructRule(r, b)
    \/ \E r \in Names : RefreshConstructRule(r)
    \/ \E g \in Graphs : ApplyForGraph(g)
    \/ \E g \in Graphs : OnGraphDelete(g) \/ OnGraphWrite(g)
    \/ \E r \in Names : RunRule(r)

Spec == Init /\ [][Next]_vars

-----------------------------------------------------------------------------
(* Between two calls a rule has in its target every fact its sources yield, *)
(* after any sequence of calls, except for the reasons above: the runs that *)
(* the journal fires, in their order, are enough (on_graph_write,           *)
(* on_graph_delete, flush).                                                 *)
RulesComplete ==
    Quiet => \A r \in Registered \ missing :
                 Derivable(Query(r), Visible(Tables)) \subseteq Visible(Tables)

(* Between two calls a rule keeps no fact its sources do not yield any      *)
(* more, except for the reasons above: deletes fire a rederivation          *)
(* (on_graph_delete).                                                       *)
ProvenanceSupported ==
    Quiet => \A p \in prov :
                 p[1] \notin surplus => p[2] \in Derivable(Query(p[1]), Visible(Tables))

(* A derived row has a rule that answers for it and will retract it,        *)
(* whatever rules shared it and were dropped or rederived, in the middle of *)
(* a flush too (retract_exclusive_triples, construct_rule_triples).         *)
DerivedOwned == \A k \in derived \ abandoned : Owners(k, prov) # {}

(* A fact that a user put where there was none stays until a user removes   *)
(* it, although a rule may own a provenance row of the same key             *)
(* (retract_exclusive_triples and its source = 1).                          *)
UserFactsKept == mine \subseteq Visible(Tables)

(* No rule keeps a fact its sources do not yield, when no rule feeds        *)
(* another: what a SPARQL Update deletes, its CLEAR included, is recorded   *)
(* in the journal (update.rs, execute_clear).                               *)
DeletesFollowed ==
    Quiet => \A p \in prov :
                 Query(p[1]).minus = {} => p[2] \in Derivable(Query(p[1]), Visible(Tables))
=============================================================================
