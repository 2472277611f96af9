------------------------- MODULE ConstructRulesProofs -------------------------
(***************************************************************************)
(* Theorems about ConstructRules, for any graphs, facts, names and         *)
(* queries, any number of rules and any sequence of calls.                 *)
(*                                                                         *)
(* The properties are about the time between two calls.  CInv is what      *)
(* holds at every step of a flush: a rule has what its sources yield       *)
(* unless it is marked, is still to run in this turn, or reads a graph     *)
(* whose turn is to come (CompleteInv); what it has is supported unless    *)
(* it is marked, is to be rederived, or reads such a graph (SupportedInv). *)
(* FeedInv is why one run after another does not undo this: a rule that    *)
(* reads what a rule still to run will write is marked, or runs later.     *)
(***************************************************************************)
EXTENDS ConstructRules, TLAPS

Rows == asserted \cup derived

(* Types; a rule never reads its own target; provenance rows name a rule    *)
(* that exists and a key of its target.                                     *)
CTypes ==
    /\ asserted \subseteq Keys /\ derived \subseteq Keys
    /\ asserted \cap derived = {}
    /\ prov \subseteq Names \X Keys
    /\ Registered \subseteq Names
    /\ \A r \in Registered :
           /\ Query(r) \in Queries /\ rules[r].ord \in Int
           /\ Query(r).tgt \notin Sources(Query(r))
    /\ \A p \in prov : p[1] \in Registered /\ p[2][1] = Query(p[1]).tgt

FlushTypes ==
    /\ delGraphs \subseteq Graphs /\ insGraphs \subseteq Graphs
    /\ kind \in {"delete", "write"} /\ todo \subseteq Registered

(* Rule r has every fact its sources yield, and answers for the derived ones. *)
HasAll(r) ==
    \A k \in Derivable(Query(r), Rows) : k \in Rows /\ (k \in derived => <<r, k>> \in prov)

(* Rules that a turn to come, or this one, will run. *)
Awaited == todo \cup Readers(delGraphs \cup insGraphs)

CompleteInv == \A r \in Registered : r \in missing \cup Awaited \/ HasAll(r)

(* Rules that may have too many facts until their turn. *)
Doubted ==
    Readers(delGraphs) \cup Subtractors(insGraphs) \cup (IF kind = "delete" THEN todo ELSE {})

SupportedInv ==
    \A p \in prov : p[1] \in surplus \cup Doubted \/ p[2] \in Derivable(Query(p[1]), Rows)

FeedInv ==
    \A s \in todo, r \in Registered : Query(s).tgt \in Sources(Query(r)) =>
        /\ \/ r \in missing /\ r \in surplus
           \/ r \in todo /\ Precedes(s, r)
        /\ kind = "write" /\ Query(s).tgt \in Query(r).minus => r \in surplus

(* The inductive invariant. *)
CInv ==
    /\ CTypes /\ FlushTypes
    /\ CompleteInv /\ SupportedInv /\ FeedInv
    /\ DerivedOwned
    /\ mine \subseteq asserted

-----------------------------------------------------------------------------
(* What a run of a rule does to the tables. *)

(* The tables are t after the step. *)
Holds(t) ==
    /\ asserted' = t.asserted /\ derived' = t.derived /\ prov' = t.prov

(* What a run of rule r with query q leaves behind, whichever kind of run.  *)
(* Only rows of its target change; only its own rows go, and only when no   *)
(* other rule owns them; the rule has everything afterwards.                *)
Ran(r, q) ==
    /\ asserted' = asserted
    /\ derived' \subseteq Keys /\ asserted \cap derived' = {}
    /\ prov' \subseteq Names \X Keys
    /\ \A k \in derived \ derived' : k[1] = q.tgt /\ Owners(k, prov) = {r}
    /\ \A k \in derived' \ derived : k[1] = q.tgt /\ <<r, k>> \in prov'
    /\ \A p \in prov' : p[1] # r => p \in prov
    /\ \A p \in prov : p[1] # r => p \in prov'
    /\ \A p \in prov' : p[1] = r => p[2][1] = q.tgt
    /\ \A k \in Derivable(q, Rows') : k \in Rows' /\ (k \in derived' => <<r, k>> \in prov')
    /\ \A k \in derived' \cap derived : Owners(k, prov) # {} => Owners(k, prov') # {}

(* A rule's query depends on its sources only. *)
LEMMA DerivableLocal ==
    ASSUME NEW q \in Queries, NEW V, NEW W,
           \A k \in Keys : k[1] \in Sources(q) => (k \in V <=> k \in W)
    PROVE  Derivable(q, V) = Derivable(q, W)
<1>1. \A g \in Sources(q), k \in Keys : <<g, k[2]>> \in V <=> <<g, k[2]>> \in W
  BY ConstructAssumption DEF Keys, Sources
<1> QED BY <1>1 DEF Derivable, InGraph, Sources

(* More rows yield more, when none is in a graph the query subtracts. *)
LEMMA DerivableGrows ==
    ASSUME NEW q \in Queries, NEW V, NEW W, V \subseteq W,
           \A k \in Keys : k[1] \in q.minus /\ k \in W => k \in V
    PROVE  Derivable(q, V) \subseteq Derivable(q, W)
<1>1. \A g \in q.minus, k \in Keys : <<g, k[2]>> \in W => <<g, k[2]>> \in V
  BY ConstructAssumption DEF Keys
<1> QED BY <1>1 DEF Derivable, InGraph

(* run_full_recompute. *)
LEMMA RecomputeRuns ==
    ASSUME NEW r \in Names, NEW q \in Queries, q.tgt \notin Sources(q),
           asserted \subseteq Keys, derived \subseteq Keys, asserted \cap derived = {},
           prov \subseteq Names \X Keys,
           \A p \in prov : p[1] = r => p[2][1] = q.tgt,
           NEW t, t = Recompute(r, q, Tables), Holds(t)
    PROVE  /\ Ran(r, q)
           /\ derived \subseteq derived' /\ prov \subseteq prov'
           /\ \A k : <<r, k>> \in prov' => <<r, k>> \in prov \/ k \in Derivable(q, Rows')
<1> DEFINE Y == Derivable(q, Rows)
           New == Y \ Rows
           P == {<<r, k>> : k \in Y \cap (derived \cup New)}
<1>1. asserted' = asserted /\ derived' = derived \cup New /\ prov' = prov \cup P
  BY DEF Recompute, Visible, Tables, Rows, Holds
<1>2. \A k \in Y : k \in Keys /\ k[1] = q.tgt
  BY DEF Derivable, InGraph
<1>3. Derivable(q, Rows') = Y
  <2>1. \A k \in Keys : k[1] \in Sources(q) => (k \in Rows' <=> k \in Rows)
    BY <1>1, <1>2 DEF Rows
  <2> QED BY <2>1, DerivableLocal
<1>4. \A p \in P : p[1] = r /\ p[2] \in Y /\ p \in Names \X Keys
  BY <1>2
<1>5. \A k \in Y : k \in derived \cup New => <<r, k>> \in P
  OBVIOUS
<1>6. Rows' = Rows \cup New
  BY <1>1 DEF Rows
<1> HIDE DEF Y, P
<1>7. /\ derived' \subseteq Keys /\ asserted \cap derived' = {}
      /\ prov' \subseteq Names \X Keys
  BY <1>1, <1>2, <1>4 DEF Rows
<1>8. \A k \in derived' \ derived : k[1] = q.tgt /\ <<r, k>> \in prov'
  BY <1>1, <1>2, <1>5
<1>9. \A p \in prov' : /\ p[1] # r => p \in prov
                       /\ p[1] = r => p[2][1] = q.tgt
  BY <1>1, <1>2, <1>4
<1>10. \A k \in Derivable(q, Rows') : k \in Rows' /\ (k \in derived' => <<r, k>> \in prov')
  BY <1>1, <1>3, <1>5, <1>6
<1>11. \A k : Owners(k, prov) # {} => Owners(k, prov') # {}
  BY <1>1 DEF Owners
<1>12. \A k : <<r, k>> \in prov' => <<r, k>> \in prov \/ k \in Derivable(q, Rows')
  BY <1>1, <1>3, <1>4
<1> QED BY <1>1, <1>7, <1>8, <1>9, <1>10, <1>11, <1>12 DEF Ran

(* on_graph_delete's three steps. *)
LEMMA RederiveRuns ==
    ASSUME NEW r \in Names, NEW q \in Queries, q.tgt \notin Sources(q),
           asserted \subseteq Keys, derived \subseteq Keys, asserted \cap derived = {},
           prov \subseteq Names \X Keys,
           \A p \in prov : p[1] = r => p[2][1] = q.tgt,
           NEW t, t = Rederive(r, q, Tables), Holds(t)
    PROVE  /\ Ran(r, q)
           /\ \A k : <<r, k>> \in prov' => k \in Derivable(q, Rows')
<1> DEFINE X == {k \in Keys : Owners(k, prov) = {r}}
           D == derived \ X
           Q == {p \in prov : p[1] # r}
           V == asserted \cup D
           Y == Derivable(q, V)
           New == Y \ V
           P == {<<r, k>> : k \in Y \cap (D \cup New)}
<1>1. asserted' = asserted /\ derived' = D \cup New /\ prov' = Q \cup P
  BY DEF Rederive, Forget, Retract, Recompute, Visible, Tables, Holds
<1>2. \A k \in Y : k \in Keys /\ k[1] = q.tgt
  BY DEF Derivable, InGraph
<1>3. \A k \in X : k[1] = q.tgt
  <2> TAKE k \in X
  <2>1. <<r, k>> \in prov
    BY DEF Owners
  <2> QED BY <2>1
<1>4. Derivable(q, Rows') = Y
  <2>1. \A k \in Keys : k[1] \in Sources(q) => (k \in Rows' <=> k \in V)
    BY <1>1, <1>2 DEF Rows
  <2> QED BY <2>1, DerivableLocal
<1>5. \A p \in P : p[1] = r /\ p[2] \in Y /\ p \in Names \X Keys
  BY <1>2
<1>6. \A k \in Y : k \in D \cup New => <<r, k>> \in P
  OBVIOUS
<1>7. Rows' = V \cup New
  BY <1>1 DEF Rows
<1>8. \A k \in D : Owners(k, prov) # {} => Owners(k, Q) # {}
  BY DEF Owners
<1> HIDE DEF Y, P
<1>9. /\ derived' \subseteq Keys /\ asserted \cap derived' = {}
      /\ prov' \subseteq Names \X Keys
  BY <1>1, <1>2, <1>5
<1>10. \A k \in derived \ derived' : k[1] = q.tgt /\ Owners(k, prov) = {r}
  BY <1>1, <1>3
<1>11. \A k \in derived' \ derived : k[1] = q.tgt /\ <<r, k>> \in prov'
  BY <1>1, <1>2, <1>6
<1>12. \A p \in prov' : /\ p[1] # r => p \in prov
                        /\ p[1] = r => p[2][1] = q.tgt
  BY <1>1, <1>2, <1>5
<1>13. \A p \in prov : p[1] # r => p \in prov'
  BY <1>1
<1>14. \A k \in Derivable(q, Rows') : k \in Rows' /\ (k \in derived' => <<r, k>> \in prov')
  BY <1>1, <1>4, <1>6, <1>7
<1>15. \A k \in derived' \cap derived : Owners(k, prov) # {} => Owners(k, prov') # {}
  <2> TAKE k \in derived' \cap derived
  <2>1. CASE k \in D
    <3>1. Owners(k, Q) \subseteq Owners(k, prov')
      BY <1>1 DEF Owners
    <3> QED BY <1>8, <2>1, <3>1
  <2>2. CASE k \notin D
    <3>1. <<r, k>> \in prov'
      BY <1>1, <1>6, <2>2
    <3> QED BY <3>1 DEF Owners
  <2> QED BY <2>1, <2>2
<1>16. \A k : <<r, k>> \in prov' => k \in Derivable(q, Rows')
  BY <1>1, <1>4, <1>5
<1> QED BY <1>1, <1>9, <1>10, <1>11, <1>12, <1>13, <1>14, <1>15, <1>16 DEF Ran

-----------------------------------------------------------------------------
(* What a run leaves alone. *)

(* A run keeps another rule complete that does not read the target: rows    *)
(* that the rule needs are its own too, so that they are not retracted.     *)
LEMMA RunKeepsComplete ==
    ASSUME CTypes, NEW r \in Names, NEW q \in Queries, Ran(r, q),
           NEW s \in Registered, s # r, Query(s)' = Query(s),
           q.tgt \notin Sources(Query(s)), HasAll(s)
    PROVE  HasAll(s)'
<1>1. Query(s) \in Queries /\ s \in Names
  BY DEF CTypes
<1>2. \A k \in Keys : k[1] \in Sources(Query(s)) => (k \in Rows' <=> k \in Rows)
  BY DEF Ran, Rows
<1>3. Derivable(Query(s), Rows') = Derivable(Query(s), Rows)
  BY <1>1, <1>2, DerivableLocal
<1>4. ASSUME NEW k \in Derivable(Query(s), Rows)
      PROVE  k \in Rows' /\ (k \in derived' => <<s, k>> \in prov')
  <2>1. k \in Rows /\ (k \in derived => <<s, k>> \in prov)
    BY DEF HasAll
  <2>2. CASE k \in asserted
    BY <2>2 DEF Ran, Rows
  <2>3. CASE k \in derived
    <3>1. <<s, k>> \in prov /\ <<s, k>> \in prov'
      BY <2>1, <2>3 DEF Ran
    <3>2. s \in Owners(k, prov)
      BY <1>1, <3>1 DEF Owners
    <3>3. k \in derived'
      BY <2>3, <3>2 DEF Ran
    <3> QED BY <3>1, <3>3 DEF Rows
  <2> QED BY <2>1, <2>2, <2>3 DEF Rows
<1> QED BY <1>3, <1>4 DEF HasAll

(* It keeps what another rule has supported. *)
LEMMA RunKeepsSupported ==
    ASSUME CTypes, NEW r \in Names, NEW q \in Queries, Ran(r, q),
           NEW s \in Registered,
           \/ q.tgt \notin Sources(Query(s))
           \/ derived \subseteq derived' /\ q.tgt \notin Query(s).minus,
           NEW k \in Derivable(Query(s), Rows)
    PROVE  k \in Derivable(Query(s), Rows')
<1>1. Query(s) \in Queries
  BY DEF CTypes
<1>2. CASE q.tgt \notin Sources(Query(s))
  <2>1. \A l \in Keys : l[1] \in Sources(Query(s)) => (l \in Rows' <=> l \in Rows)
    BY <1>2 DEF Ran, Rows
  <2> QED BY <1>1, <2>1, DerivableLocal
<1>3. CASE derived \subseteq derived' /\ q.tgt \notin Query(s).minus
  <2>1. Rows \subseteq Rows'
    BY <1>3 DEF Ran, Rows
  <2>2. \A l \in Keys : l[1] \in Query(s).minus /\ l \in Rows' => l \in Rows
    BY <1>3 DEF Ran, Rows
  <2> QED BY <1>1, <2>1, <2>2, DerivableGrows
<1> QED BY <1>2, <1>3

(* A run leaves derived rows with an owner. *)
LEMMA RunKeepsOwned ==
    ASSUME CTypes, NEW r \in Names, NEW q, Ran(r, q), DerivedOwned,
           abandoned' = {k \in abandoned : k \in derived' /\ Owners(k, prov') = {}}
    PROVE  DerivedOwned'
<1> SUFFICES ASSUME NEW k \in derived', k \notin abandoned'
             PROVE  Owners(k, prov') # {}
  BY DEF DerivedOwned
<1>1. CASE k \in abandoned
  BY <1>1
<1>2. CASE k \notin abandoned /\ k \in derived
  BY <1>2 DEF DerivedOwned, Ran
<1>3. CASE k \notin derived
  <2>1. <<r, k>> \in prov'
    BY <1>3 DEF Ran
  <2> QED BY <2>1 DEF Owners
<1> QED BY <1>1, <1>2, <1>3

(* Types after a run of a rule that is registered. *)
LEMMA RunKeepsTypes ==
    ASSUME CTypes, NEW r \in Registered, Ran(r, Query(r)), rules' = rules
    PROVE  CTypes'
<1>1. \A s \in Registered : Query(s)' = Query(s)
  BY DEF Query
<1>2. Registered' = Registered
  BY DEF Registered
<1>3. \A p \in prov' : p[1] \in Registered /\ p[2][1] = Query(p[1]).tgt
  BY DEF CTypes, Ran
<1>4. \A p \in prov' : p[1] \in Registered' /\ p[2][1] = Query(p[1])'.tgt
  BY <1>1, <1>2, <1>3
<1>5. \A s \in Registered' :
          /\ Query(s)' \in Queries /\ rules'[s].ord \in Int
          /\ Query(s)'.tgt \notin Sources(Query(s)')
  BY <1>1, <1>2 DEF CTypes
<1>6. \A p \in prov' : Query(p[1])' = rules'[p[1]].query
  BY DEF Query
<1> QED BY <1>2, <1>4, <1>5, <1>6 DEF CTypes, Ran, Query

-----------------------------------------------------------------------------
(* What a user's write does to the tables: the keys gone are removed and    *)
(* those of come that are not there are inserted.                           *)

Edited(gone, come) ==
    LET absent == come \ (Rows \ gone)
    IN  /\ asserted' = (asserted \ gone) \cup absent
        /\ derived' = derived \ gone /\ prov' = prov
        /\ abandoned' = {k \in abandoned : k \in derived' /\ Owners(k, prov') = {}}
        /\ mine' = (mine \ gone) \cup absent
        /\ rules' = rules

(* It keeps the tables in order, derived rows owned, and user facts there. *)
LEMMA EditKeeps ==
    ASSUME CTypes, DerivedOwned, mine \subseteq asserted,
           NEW gone, NEW come, come \subseteq Keys, Edited(gone, come)
    PROVE  CTypes' /\ DerivedOwned' /\ mine' \subseteq asserted'
<1>1. /\ asserted' \subseteq Keys /\ derived' \subseteq Keys
      /\ asserted' \cap derived' = {}
  BY DEF CTypes, Edited, Rows
<1>2. CTypes'
  BY <1>1 DEF CTypes, Edited, Registered, Query
<1>3. DerivedOwned'
  BY DEF DerivedOwned, Edited
<1>4. mine' \subseteq asserted'
  BY DEF Edited
<1> QED BY <1>2, <1>3, <1>4

(* A rule stays complete whose sources and target are not touched. *)
LEMMA EditKeepsComplete ==
    ASSUME CTypes, NEW gone \in SUBSET Keys, NEW come \in SUBSET Keys, Edited(gone, come),
           NEW r \in Registered, HasAll(r),
           \A k \in gone : k[1] # Query(r).tgt,
           \A k \in gone \cup come : k[1] \notin Sources(Query(r))
    PROVE  HasAll(r)'
<1>1. Query(r) \in Queries /\ Query(r)' = Query(r)
  BY DEF CTypes, Edited, Query
<1>2. \A k \in Keys : k[1] \in Sources(Query(r)) => (k \in Rows' <=> k \in Rows)
  BY DEF Edited, Rows
<1>3. Derivable(Query(r), Rows') = Derivable(Query(r), Rows)
  BY <1>1, <1>2, DerivableLocal
<1>4. \A k \in Derivable(Query(r), Rows) : k \notin gone
  BY DEF Derivable, InGraph
<1>5. \A k \in Rows : k \notin gone => k \in Rows' /\ (k \in derived' => k \in derived)
  BY DEF Edited, Rows
<1>6. prov' = prov
  BY DEF Edited
<1> QED BY <1>1, <1>3, <1>4, <1>5, <1>6 DEF HasAll

(* What a rule has stays supported, if nothing it reads is removed and      *)
(* nothing it subtracts is inserted.                                        *)
LEMMA EditKeepsSupported ==
    ASSUME CTypes, NEW gone \in SUBSET Keys, NEW come \in SUBSET Keys, Edited(gone, come),
           NEW r \in Registered, NEW k \in Derivable(Query(r), Rows),
           \A l \in gone : l[1] \notin Sources(Query(r)),
           \A l \in come : l[1] \notin Query(r).minus
    PROVE  k \in Derivable(Query(r), Rows')
<1>1. Query(r) \in Queries
  BY DEF CTypes
<1> DEFINE W == Rows \cup Rows'
<1>2. \A l \in Keys : l[1] \in Sources(Query(r)) => (l \in W <=> l \in Rows')
  BY DEF Edited, Rows
<1>3. \A l \in Keys : l[1] \in Query(r).minus /\ l \in W => l \in Rows
  BY DEF Edited, Rows
<1> HIDE DEF W
<1>4. Derivable(Query(r), Rows') = Derivable(Query(r), W)
  BY <1>1, <1>2, DerivableLocal
<1>5. Rows \subseteq W
  BY DEF W
<1>6. Derivable(Query(r), Rows) \subseteq Derivable(Query(r), W)
  BY <1>1, <1>3, <1>5, DerivableGrows
<1> QED BY <1>4, <1>6

-----------------------------------------------------------------------------
(* The calls of a user. *)

(* Between two calls no rule is awaited or in doubt. *)
LEMMA QuietRules ==
    ASSUME CInv, Quiet
    PROVE  /\ \A r \in Registered : r \in missing \/ HasAll(r)
           /\ \A p \in prov : p[1] \in surplus \/ p[2] \in Derivable(Query(p[1]), Rows)
<1>1. Awaited = {} /\ Doubted = {}
  BY DEF Quiet, Awaited, Doubted, Readers, Subtractors
<1> QED BY <1>1 DEF CInv, CompleteInv, SupportedInv

(* A journalled write keeps the invariant, when the journal has the graph   *)
(* of every key that goes or comes.                                         *)
LEMMA JournalledStep ==
    ASSUME CInv, NEW gone \in SUBSET Keys, NEW come \in SUBSET Keys,
           NEW del \in SUBSET Graphs, NEW ins \in SUBSET Graphs,
           \A k \in gone : k[1] \in del, \A k \in come : k[1] \in ins,
           Journalled(gone, come, del, ins)
    PROVE  CInv'
<1>1. Edited(gone, come)
  BY DEF Journalled, Edited, SetTables, Visible, Tables, Rows
<1>2. /\ missing' = missing \cup Writers({k[1] : k \in gone}) /\ surplus' = surplus
      /\ delGraphs' = del /\ insGraphs' = ins /\ kind' = kind /\ todo' = todo /\ todo = {}
      /\ rules' = rules /\ prov' = prov /\ Quiet
  BY DEF Journalled, SetMarks, MarkRemoved, Marks, Flush, Quiet, SetTables, Tables
<1>3. CTypes' /\ DerivedOwned' /\ mine' \subseteq asserted'
  BY <1>1, EditKeeps DEF CInv
<1>4. Registered' = Registered /\ \A r \in Registered : Query(r)' = Query(r)
  BY <1>2 DEF Registered, Query
<1>5. FlushTypes' /\ FeedInv'
  BY <1>2, <1>4 DEF CInv, FlushTypes, FeedInv
<1>6. CompleteInv'
  <2> SUFFICES ASSUME NEW r \in Registered, r \notin missing', r \notin Awaited'
               PROVE  HasAll(r)'
    BY <1>4 DEF CompleteInv
  <2>1. HasAll(r)
    BY <1>2, QuietRules
  <2>2. \A k \in gone : k[1] # Query(r).tgt
    BY <1>2 DEF Writers
  <2>3. \A k \in gone \cup come : k[1] \notin Sources(Query(r))
    BY <1>2, <1>4 DEF Awaited, Readers
  <2> QED BY <1>1, <2>1, <2>2, <2>3, EditKeepsComplete DEF CInv
<1>7. SupportedInv'
  <2> SUFFICES ASSUME NEW p \in prov, p[1] \notin surplus', p[1] \notin Doubted'
               PROVE  p[2] \in Derivable(Query(p[1]), Rows')
    BY <1>2 DEF SupportedInv, Query
  <2> DEFINE r == p[1]
  <2>1. r \in Registered /\ p[2] \in Derivable(Query(r), Rows)
    BY <1>2, QuietRules DEF CInv, CTypes
  <2>2. Query(r)' = Query(r)
    BY <1>4, <2>1
  <2>3. \A k \in gone : k[1] \notin Sources(Query(r))
    BY <1>2, <1>4, <2>1, <2>2 DEF Doubted, Readers
  <2>4. \A k \in come : k[1] \notin Query(r).minus
    BY <1>2, <1>4, <2>1, <2>2 DEF Doubted, Subtractors
  <2> QED BY <1>1, <2>1, <2>3, <2>4, EditKeepsSupported DEF CInv
<1> QED BY <1>3, <1>5, <1>6, <1>7 DEF CInv

(* A write that the journal does not see keeps it: its readers are marked. *)
LEMMA SilentStep ==
    ASSUME CInv, NEW gone \in SUBSET Keys, NEW come \in SUBSET Keys, NEW G,
           \A k \in gone \cup come : k[1] \in G,
           Silent(gone, come, G)
    PROVE  CInv'
<1>1. Edited(gone, come)
  BY DEF Silent, Edited, SetTables, Visible, Tables, Rows
<1>2. /\ missing' = (missing \cup Writers({k[1] : k \in gone})) \cup Readers(G)
      /\ surplus' = surplus \cup Readers(G)
      /\ delGraphs' = delGraphs /\ insGraphs' = insGraphs /\ kind' = kind /\ todo' = todo
      /\ rules' = rules /\ prov' = prov /\ Quiet
  BY DEF Silent, SetMarks, MarkRemoved, MarkSilent, Marks, flush, SetTables, Tables
<1>3. CTypes' /\ DerivedOwned' /\ mine' \subseteq asserted'
  BY <1>1, EditKeeps DEF CInv
<1>4. Registered' = Registered /\ \A r \in Registered : Query(r)' = Query(r)
  BY <1>2 DEF Registered, Query
<1>5. FlushTypes' /\ FeedInv'
  BY <1>2, <1>4 DEF CInv, FlushTypes, FeedInv, Quiet
<1>6. CompleteInv'
  <2> SUFFICES ASSUME NEW r \in Registered, r \notin missing'
               PROVE  HasAll(r)'
    BY <1>4 DEF CompleteInv
  <2>1. HasAll(r)
    BY <1>2, QuietRules
  <2>2. \A k \in gone : k[1] # Query(r).tgt
    BY <1>2 DEF Writers
  <2>3. \A k \in gone \cup come : k[1] \notin Sources(Query(r))
    BY <1>2 DEF Readers
  <2> QED BY <1>1, <2>1, <2>2, <2>3, EditKeepsComplete DEF CInv
<1>7. SupportedInv'
  <2> SUFFICES ASSUME NEW p \in prov, p[1] \notin surplus'
               PROVE  p[2] \in Derivable(Query(p[1]), Rows')
    BY <1>2 DEF SupportedInv, Query
  <2>1. p[1] \in Registered /\ p[2] \in Derivable(Query(p[1]), Rows)
    BY <1>2, QuietRules DEF CInv, CTypes
  <2>2. \A k \in gone \cup come : k[1] \notin Sources(Query(p[1]))
    BY <1>2, <2>1 DEF Readers
  <2> QED BY <1>1, <2>1, <2>2, EditKeepsSupported DEF CInv, Sources
<1> QED BY <1>3, <1>5, <1>6, <1>7 DEF CInv

(* The graph of a key. *)
LEMMA KeyType == ASSUME NEW k \in Keys PROVE k[1] \in Graphs /\ k[2] \in Facts
  BY DEF Keys

(* insert_triple, delete_triple_from_graph and SPARQL Update record each    *)
(* graph they change.                                                       *)
LEMMA JournalledCalls ==
    ASSUME CInv,
           \/ \E k \in Keys : InsertTriple(k)
           \/ \E k \in Keys : DeleteTripleFromGraph(k)
           \/ \E k, l \in Keys : SparqlUpdate({k}, {l})
           \/ \E k \in Keys : SparqlUpdate({k}, {}) \/ SparqlUpdate({}, {k})
    PROVE  CInv'
<1>1. ASSUME NEW k \in Keys, InsertTriple(k) PROVE CInv'
  BY <1>1, KeyType, JournalledStep DEF InsertTriple
<1>2. ASSUME NEW k \in Keys, DeleteTripleFromGraph(k) PROVE CInv'
  BY <1>2, KeyType, JournalledStep DEF DeleteTripleFromGraph
<1>3. ASSUME NEW K \in SUBSET Keys, NEW L \in SUBSET Keys, SparqlUpdate(K, L) PROVE CInv'
  <2>1. PICK S : S = K \cap Visible(Tables)
    OBVIOUS
  <2>2. Journalled(S, L, {k[1] : k \in S}, {k[1] : k \in L})
    BY <1>3, <2>1 DEF SparqlUpdate
  <2>3. S \subseteq Keys /\ {k[1] : k \in S} \subseteq Graphs /\ {k[1] : k \in L} \subseteq Graphs
    BY <2>1, KeyType
  <2> QED BY <2>2, <2>3, JournalledStep
<1> QED BY <1>1, <1>2, <1>3

(* insert_triples, CLEAR, ADD, COPY and MOVE do not; their graphs are the   *)
(* ones that are marked.                                                    *)
LEMMA SilentCalls ==
    ASSUME CInv,
           \/ \E k \in Keys : InsertTriples({k})
           \/ \E g \in Graphs : ClearGraph(g)
           \/ \E g, h \in Graphs : Add(g, h)
           \/ \E g, h \in Graphs : Copy(g, h)
           \/ \E g, h \in Graphs : Move(g, h)
    PROVE  CInv'
<1>1. ASSUME NEW k \in Keys, InsertTriples({k}) PROVE CInv'
  BY <1>1, SilentStep DEF InsertTriples
<1>2. \A g : /\ InGraph(Visible(Tables), g) \subseteq Keys
             /\ \A k \in InGraph(Visible(Tables), g) : k[1] = g
  BY DEF CInv, CTypes, Visible, Tables, InGraph
<1>3. \A g : \A h \in Graphs : /\ Copied(g, h) \subseteq Keys
                               /\ \A k \in Copied(g, h) : k[1] = h
  <2> TAKE g
  <2> TAKE h \in Graphs
  <2>1. \A k \in InGraph(Visible(Tables), g) : k[2] \in Facts
    BY <1>2, KeyType
  <2> QED BY <2>1 DEF Copied, Keys
<1>4. ASSUME NEW g \in Graphs, ClearGraph(g) PROVE CInv'
  <2>1. PICK S : S = InGraph(Visible(Tables), g)
    OBVIOUS
  <2>2. Silent(S, {}, {g})
    BY <1>4, <2>1 DEF ClearGraph
  <2>3. S \subseteq Keys /\ \A k \in S \cup {} : k[1] \in {g}
    BY <1>2, <2>1
  <2> QED BY <2>2, <2>3, SilentStep
<1>5. ASSUME NEW g \in Graphs, NEW h \in Graphs, Add(g, h) PROVE CInv'
  <2>1. PICK C : C = Copied(g, h)
    OBVIOUS
  <2>2. Silent({}, C, {h})
    BY <1>5, <2>1 DEF Add
  <2>3. C \subseteq Keys /\ \A k \in {} \cup C : k[1] \in {h}
    BY <1>3, <2>1
  <2> QED BY <2>2, <2>3, SilentStep
<1>6. ASSUME NEW g \in Graphs, NEW h \in Graphs, Copy(g, h) PROVE CInv'
  <2>1. PICK S, C : S = InGraph(Visible(Tables), h) /\ C = IF g = h THEN {} ELSE Copied(g, h)
    OBVIOUS
  <2>2. Silent(S, C, {h})
    BY <1>6, <2>1 DEF Copy
  <2>3. S \subseteq Keys /\ C \subseteq Keys /\ \A k \in S \cup C : k[1] \in {h}
    BY <1>2, <1>3, <2>1
  <2> QED BY <2>2, <2>3, SilentStep
<1>7. ASSUME NEW g \in Graphs, NEW h \in Graphs, Move(g, h) PROVE CInv'
  <2>1. PICK S, C : /\ S = InGraph(Visible(Tables), g) \cup InGraph(Visible(Tables), h)
                    /\ C = IF g = h THEN {} ELSE Copied(g, h)
    OBVIOUS
  <2>2. Silent(S, C, {g, h})
    BY <1>7, <2>1 DEF Move
  <2>3. S \subseteq Keys /\ C \subseteq Keys /\ \A k \in S \cup C : k[1] \in {g, h}
    BY <1>2, <1>3, <2>1
  <2> QED BY <2>2, <2>3, SilentStep
<1> QED BY <1>1, <1>4, <1>5, <1>6, <1>7

-----------------------------------------------------------------------------
(* The flush. *)

(* The rules of a turn: those that read what a rule of the turn writes are  *)
(* marked, unless they run later in the turn.                               *)
LEMMA TurnFeeds ==
    ASSUME NEW R, R \subseteq Registered, NEW s \in R, NEW r \in Registered,
           Query(s).tgt \in Sources(Query(r))
    PROVE  r \in Fed(R) \/ (r \in R /\ Precedes(s, r))
  BY DEF Fed

(* on_graph_delete and on_graph_write begin the turn of a graph. *)
LEMMA DeleteTurn ==
    ASSUME CInv, NEW g \in Graphs, OnGraphDelete(g)
    PROVE  CInv'
<1> DEFINE R == Affected(g)
<1>1. /\ missing' = (missing \ R) \cup Fed(R) /\ surplus' = (surplus \ R) \cup Fed(R)
      /\ delGraphs' = delGraphs \ {g} /\ insGraphs' = insGraphs
      /\ kind' = "delete" /\ todo' = R /\ todo = {} /\ g \in delGraphs
  BY DEF OnGraphDelete, SetMarks, MarkDelete, Marks
<1>2. /\ asserted' = asserted /\ derived' = derived /\ prov' = prov /\ rules' = rules
      /\ mine' = mine /\ abandoned' = abandoned
  BY DEF OnGraphDelete, tables
<1>3. Registered' = Registered /\ R \subseteq Registered
  BY <1>2 DEF Registered, Affected
<1>4. CTypes' /\ DerivedOwned' /\ mine' \subseteq asserted'
  BY <1>2 DEF CInv, CTypes, DerivedOwned, Registered, Query
<1>5. FlushTypes'
  BY <1>1, <1>3 DEF CInv, FlushTypes
<1>6. \A r \in Registered : g \in Sources(Query(r)) => r \in R
  BY DEF Affected
<1> HIDE DEF R
<1>7. CompleteInv'
  <2>1. \A r : HasAll(r)' <=> HasAll(r)
    BY <1>2 DEF HasAll, Rows, Query
  <2>2. \A r \in Registered : r \notin Awaited' => r \notin Awaited
    BY <1>1, <1>2, <1>3, <1>6 DEF Awaited, Readers, Query
  <2>3. \A r \in Registered : r \notin missing' /\ r \notin Awaited' => r \notin missing
    BY <1>1 DEF Awaited
  <2> QED BY <1>3, <2>1, <2>2, <2>3 DEF CInv, CompleteInv
<1>8. SupportedInv'
  <2> SUFFICES ASSUME NEW p \in prov, p[1] \notin surplus', p[1] \notin Doubted'
               PROVE  p[2] \in Derivable(Query(p[1]), Rows)
    BY <1>2 DEF SupportedInv, Query, Rows
  <2>1. p[1] \in Registered /\ p[1] \notin R
    BY <1>1 DEF CInv, CTypes, Doubted
  <2>2. p[1] \notin surplus /\ p[1] \notin Doubted
    BY <1>1, <1>2, <1>3, <1>6, <2>1 DEF Doubted, Readers, Subtractors, Query
  <2> QED BY <2>2 DEF CInv, SupportedInv
<1>9. FeedInv'
  <2>1. \A s \in R, r \in Registered : Query(s).tgt \in Sources(Query(r)) =>
            r \in Fed(R) \/ (r \in R /\ Precedes(s, r))
    BY <1>3, TurnFeeds
  <2>2. \A s \in R, r \in Registered : Precedes(s, r)' <=> Precedes(s, r)
    BY <1>2 DEF Precedes
  <2>3. \A r \in Registered : Query(r)' = Query(r)
    BY <1>2 DEF Query
  <2> QED BY <1>1, <1>3, <2>1, <2>2, <2>3 DEF FeedInv
<1> QED BY <1>4, <1>5, <1>7, <1>8, <1>9 DEF CInv

(* A rule that subtracts the graph, or what the turn writes, is marked. *)
LEMMA WriteTurn ==
    ASSUME CInv, NEW g \in Graphs, OnGraphWrite(g)
    PROVE  CInv'
<1> DEFINE R == Affected(g)
<1>1. /\ missing' = (missing \ R) \cup Fed(R)
      /\ surplus' = (surplus \cup Fed(R)) \cup Subtractors({g} \cup Targets(R))
      /\ delGraphs' = {} /\ delGraphs = {} /\ insGraphs' = insGraphs \ {g}
      /\ kind' = "write" /\ todo' = R /\ todo = {} /\ g \in insGraphs
  BY DEF OnGraphWrite, SetMarks, MarkWrite, Marks
<1>2. /\ asserted' = asserted /\ derived' = derived /\ prov' = prov /\ rules' = rules
      /\ mine' = mine /\ abandoned' = abandoned
  BY DEF OnGraphWrite, tables
<1>3. Registered' = Registered /\ R \subseteq Registered
  BY <1>2 DEF Registered, Affected
<1>4. CTypes' /\ DerivedOwned' /\ mine' \subseteq asserted'
  BY <1>2 DEF CInv, CTypes, DerivedOwned, Registered, Query
<1>5. FlushTypes'
  BY <1>1, <1>3 DEF CInv, FlushTypes
<1>6. \A r \in Registered : g \in Sources(Query(r)) => r \in R
  BY DEF Affected
<1> HIDE DEF R
<1>7. CompleteInv'
  <2>1. \A r : HasAll(r)' <=> HasAll(r)
    BY <1>2 DEF HasAll, Rows, Query
  <2>2. \A r \in Registered : r \notin Awaited' => r \notin Awaited
    BY <1>1, <1>2, <1>3, <1>6 DEF Awaited, Readers, Query
  <2>3. \A r \in Registered : r \notin missing' /\ r \notin Awaited' => r \notin missing
    BY <1>1 DEF Awaited
  <2> QED BY <1>3, <2>1, <2>2, <2>3 DEF CInv, CompleteInv
<1>8. SupportedInv'
  <2> SUFFICES ASSUME NEW p \in prov, p[1] \notin surplus', p[1] \notin Doubted'
               PROVE  p[2] \in Derivable(Query(p[1]), Rows)
    BY <1>2 DEF SupportedInv, Query, Rows
  <2>1. p[1] \in Registered
    BY DEF CInv, CTypes
  <2>2. g \notin Query(p[1]).minus /\ p[1] \notin surplus
    BY <1>1, <2>1 DEF Subtractors
  <2>3. p[1] \notin Doubted
    BY <1>1, <1>2, <1>3, <2>1, <2>2 DEF Doubted, Readers, Subtractors, Query
  <2> QED BY <2>2, <2>3 DEF CInv, SupportedInv
<1>9. FeedInv'
  <2>1. \A s \in R, r \in Registered : Query(s).tgt \in Sources(Query(r)) =>
            r \in Fed(R) \/ (r \in R /\ Precedes(s, r))
    BY <1>3, TurnFeeds
  <2>2. \A s \in R, r \in Registered : Precedes(s, r)' <=> Precedes(s, r)
    BY <1>2 DEF Precedes
  <2>3. \A r \in Registered : Query(r)' = Query(r)
    BY <1>2 DEF Query
  <2>4. \A s \in R, r \in Registered : Query(s).tgt \in Query(r).minus => r \in surplus'
    BY <1>1 DEF Subtractors, Targets
  <2> QED BY <1>1, <1>3, <2>1, <2>2, <2>3, <2>4 DEF FeedInv
<1> QED BY <1>4, <1>5, <1>7, <1>8, <1>9 DEF CInv

(* The two runs of a registered rule. *)
LEMMA TurnRuns ==
    ASSUME CInv, NEW r \in Registered, NEW q, q = Query(r), NEW left,
           NEW t, t \in {Recompute(r, q, Tables), Rederive(r, q, Tables)},
           SetTables(t, left)
    PROVE  /\ r \in Names /\ q \in Queries /\ q.tgt \notin Sources(q) /\ Ran(r, q)
           /\ t = Recompute(r, q, Tables) =>
                /\ derived \subseteq derived' /\ prov \subseteq prov'
                /\ \A k : <<r, k>> \in prov' => <<r, k>> \in prov \/ k \in Derivable(q, Rows')
           /\ t = Rederive(r, q, Tables) =>
                \A k : <<r, k>> \in prov' => k \in Derivable(q, Rows')
<1>1. r \in Names /\ q \in Queries /\ q.tgt \notin Sources(q)
  BY DEF CInv, CTypes
<1>2. Holds(t)
  BY DEF SetTables, Holds
<1>3. /\ asserted \subseteq Keys /\ derived \subseteq Keys /\ asserted \cap derived = {}
      /\ prov \subseteq Names \X Keys
      /\ \A p \in prov : p[1] = r => p[2][1] = q.tgt
  BY DEF CInv, CTypes
<1>4. CASE t = Recompute(r, q, Tables)
  <2>1. /\ Ran(r, q)
        /\ derived \subseteq derived' /\ prov \subseteq prov'
        /\ \A k : <<r, k>> \in prov' => <<r, k>> \in prov \/ k \in Derivable(q, Rows')
    BY <1>1, <1>2, <1>3, <1>4, RecomputeRuns
  <2>2. t = Rederive(r, q, Tables) => \A k : <<r, k>> \in prov' => k \in Derivable(q, Rows')
    BY <1>1, <1>2, <1>3, RederiveRuns
  <2> QED BY <1>1, <2>1, <2>2
<1>5. CASE t # Recompute(r, q, Tables)
  <2>1. t = Rederive(r, q, Tables)
    BY <1>5
  <2>2. Ran(r, q) /\ \A k : <<r, k>> \in prov' => k \in Derivable(q, Rows')
    BY <1>1, <1>2, <1>3, <2>1, RederiveRuns
  <2> QED BY <1>1, <1>5, <2>2
<1> QED BY <1>4, <1>5

(* A rule runs when its turn has come: rules that read what it writes are   *)
(* marked or still to run, and no rule still to run feeds it unmarked.      *)
LEMMA RunRuleStep ==
    ASSUME CInv, NEW r \in Names, RunRule(r)
    PROVE  CInv'
<1> DEFINE del == kind = "delete"
<1>1. /\ r \in todo /\ todo' = todo \ {r} /\ rules' = rules
      /\ delGraphs' = delGraphs /\ insGraphs' = insGraphs /\ kind' = kind
      /\ mine' = mine /\ missing' = missing /\ surplus' = surplus
  BY DEF RunRule
<1>2. r \in Registered /\ todo \subseteq Registered
  BY <1>1 DEF CInv, FlushTypes
<1>3. PICK q : q = Query(r)
  OBVIOUS
<1>4. PICK t : t = IF del THEN Rederive(r, q, Tables) ELSE Recompute(r, q, Tables)
  OBVIOUS
<1>5. SetTables(t, abandoned)
  BY <1>3, <1>4 DEF RunRule
<1>6. t \in {Recompute(r, q, Tables), Rederive(r, q, Tables)}
  BY <1>4
<1>7. /\ q \in Queries /\ q.tgt \notin Sources(q) /\ Ran(r, q)
      /\ ~del => /\ derived \subseteq derived'
                 /\ \A k : <<r, k>> \in prov' => <<r, k>> \in prov \/ k \in Derivable(q, Rows')
      /\ del => \A k : <<r, k>> \in prov' => k \in Derivable(q, Rows')
  BY <1>2, <1>3, <1>4, <1>5, <1>6, TurnRuns
<1>8. Registered' = Registered /\ \A s \in Registered : Query(s)' = Query(s)
  BY <1>1 DEF Registered, Query
<1>9. CTypes'
  BY <1>1, <1>2, <1>3, <1>7, RunKeepsTypes DEF CInv
<1>10. DerivedOwned'
  <2>1. abandoned' = {k \in abandoned : k \in derived' /\ Owners(k, prov') = {}}
    BY <1>5 DEF SetTables
  <2> QED BY <1>7, <2>1, RunKeepsOwned DEF CInv
<1>11. FlushTypes' /\ mine' \subseteq asserted'
  BY <1>1, <1>7, <1>8 DEF CInv, FlushTypes, Ran
<1>12. \A s \in todo : s # r => ~Precedes(s, r)
  <2> TAKE s \in todo
  <2>1. s # r => Before(r, s)
    BY DEF RunRule
  <2>2. rules[s].ord \in Int /\ rules[r].ord \in Int /\ s \in Int /\ r \in Int
    BY <1>2, ConstructAssumption DEF CInv, CTypes
  <2> QED BY <2>1, <2>2 DEF Before, Precedes
<1>13. \A s \in Registered : q.tgt \in Sources(Query(s)) =>
           /\ \/ s \in missing /\ s \in surplus
              \/ s \in todo \ {r}
           /\ ~del /\ q.tgt \in Query(s).minus => s \in surplus
  BY <1>1, <1>3, <1>7 DEF CInv, FeedInv, FlushTypes
<1> HIDE DEF del
<1>14. CompleteInv'
  <2> SUFFICES ASSUME NEW s \in Registered, s \notin missing', s \notin Awaited'
               PROVE  HasAll(s)'
    BY <1>8 DEF CompleteInv
  <2>1. CASE s = r
    BY <1>2, <1>3, <1>7, <1>8, <2>1 DEF Ran, HasAll
  <2>2. CASE s # r
    <3>1. s \notin Awaited
      BY <1>1, <1>8, <2>2 DEF Awaited, Readers
    <3>2. HasAll(s)
      BY <1>1, <3>1 DEF CInv, CompleteInv
    <3>3. q.tgt \notin Sources(Query(s))
      BY <1>1, <1>13, <3>1 DEF Awaited
    <3> QED BY <1>7, <1>8, <2>2, <3>2, <3>3, RunKeepsComplete DEF CInv
  <2> QED BY <2>1, <2>2
<1>15. SupportedInv'
  <2> SUFFICES ASSUME NEW p \in prov', p[1] \notin surplus', p[1] \notin Doubted'
               PROVE  p[2] \in Derivable(Query(p[1]), Rows')
    BY <1>1 DEF SupportedInv, Query
  <2>1. p = <<p[1], p[2]>> /\ p[1] \in Registered
    BY <1>8, <1>9 DEF CTypes
  <2>2. CASE p[1] = r /\ p \notin prov
    BY <1>3, <1>7, <2>1, <2>2
  <2>3. CASE p[1] = r /\ del
    BY <1>3, <1>7, <2>1, <2>3
  <2>4. CASE p \in prov /\ (p[1] = r => ~del)
    <3>1. p[1] \notin Doubted
      BY <1>1, <1>8, <2>1, <2>4 DEF Doubted, Readers, Subtractors, del
    <3>2. p[2] \in Derivable(Query(p[1]), Rows)
      BY <1>1, <2>4, <3>1 DEF CInv, SupportedInv
    <3>3. \/ q.tgt \notin Sources(Query(p[1]))
          \/ derived \subseteq derived' /\ q.tgt \notin Query(p[1]).minus
      BY <1>1, <1>7, <1>13, <2>1, <3>1 DEF Doubted, del
    <3> QED BY <1>7, <2>1, <3>2, <3>3, RunKeepsSupported DEF CInv
  <2> QED BY <1>7, <2>2, <2>3, <2>4 DEF Ran
<1>16. FeedInv'
  <2> SUFFICES ASSUME NEW s \in todo', NEW u \in Registered,
                      Query(s).tgt \in Sources(Query(u))
               PROVE  /\ \/ u \in missing /\ u \in surplus
                         \/ u \in todo' /\ Precedes(s, u)
                      /\ kind = "write" /\ Query(s).tgt \in Query(u).minus => u \in surplus
    <3>1. \A s \in todo, u \in Registered : Precedes(s, u)' <=> Precedes(s, u)
      BY <1>1 DEF Precedes
    <3> QED BY <1>1, <1>2, <1>8, <3>1 DEF FeedInv
  <2> QED BY <1>1, <1>12 DEF CInv, FeedInv
<1> QED BY <1>9, <1>10, <1>11, <1>14, <1>15, <1>16 DEF CInv

-----------------------------------------------------------------------------
(* The calls that manage rules. *)

(* compute_rule_order gives a number. *)
LEMMA RuleOrderType ==
    ASSUME NEW r, NEW q, NEW o \in RuleOrders(r, q)
    PROVE  o \in Int
  BY DEF RuleOrders

(* create_construct_rule runs the new rule once; its readers are marked. *)
LEMMA CreateStep ==
    ASSUME CInv, NEW r \in Names, NEW q \in Queries, CreateConstructRule(r, q)
    PROVE  CInv'
<1>1. /\ Quiet /\ r \notin Registered /\ q.tgt \notin Sources(q)
      /\ missing' = (missing \ {r}) \cup Readers({q.tgt})
      /\ surplus' = (surplus \ {r}) \cup Readers({q.tgt})
      /\ delGraphs' = delGraphs /\ insGraphs' = insGraphs /\ kind' = kind /\ todo' = todo
      /\ mine' = mine
  BY DEF CreateConstructRule, SetMarks, flush
<1>2. PICK o \in RuleOrders(r, q) :
          rules' = [s \in Registered \cup {r} |-> IF s = r THEN [query |-> q, ord |-> o] ELSE rules[s]]
  BY DEF CreateConstructRule
<1>3. /\ Registered' = Registered \cup {r}
      /\ Query(r)' = q /\ rules'[r].ord = o
      /\ \A s \in Registered : s # r /\ Query(s)' = Query(s) /\ rules'[s].ord = rules[s].ord
  BY <1>1, <1>2 DEF Registered, Query
<1>4. o \in Int
  BY RuleOrderType
<1>5. PICK t : t = Recompute(r, q, Tables)
  OBVIOUS
<1>6. SetTables(t, abandoned)
  BY <1>5 DEF CreateConstructRule
<1>7. \A p \in prov : p[1] # r
  BY <1>1 DEF CInv, CTypes
<1>8. Holds(t) /\ abandoned' = {k \in abandoned : k \in derived' /\ Owners(k, prov') = {}}
  BY <1>6 DEF SetTables, Holds
<1>9. /\ Ran(r, q)
      /\ \A k : <<r, k>> \in prov' => <<r, k>> \in prov \/ k \in Derivable(q, Rows')
  BY <1>1, <1>5, <1>7, <1>8, RecomputeRuns DEF CInv, CTypes
<1>10. CTypes'
  <2>1. \A p \in prov' : p[1] \in Registered' /\ p[2][1] = Query(p[1])'.tgt
    <3> TAKE p \in prov'
    <3>1. CASE p[1] = r
      BY <1>3, <1>9, <3>1 DEF Ran
    <3>2. CASE p[1] # r
      <4>1. p \in prov /\ p[1] \in Registered /\ p[2][1] = Query(p[1]).tgt
        BY <1>9, <3>2 DEF Ran, CInv, CTypes
      <4> QED BY <1>3, <4>1
    <3> QED BY <3>1, <3>2
  <2>2. \A s \in Registered' :
            /\ Query(s)' \in Queries /\ rules'[s].ord \in Int
            /\ Query(s)'.tgt \notin Sources(Query(s)')
    BY <1>1, <1>3, <1>4 DEF CInv, CTypes
  <2>3. \A p \in prov' : Query(p[1])' = rules'[p[1]].query
    BY DEF Query
  <2> QED BY <1>3, <1>9, <2>1, <2>2, <2>3 DEF CInv, CTypes, Ran, Query
<1>11. DerivedOwned'
  BY <1>8, <1>9, RunKeepsOwned DEF CInv
<1>12. FlushTypes' /\ FeedInv' /\ mine' \subseteq asserted'
  BY <1>1, <1>3, <1>9 DEF CInv, FlushTypes, FeedInv, Quiet, Ran
<1>13. CompleteInv'
  <2> SUFFICES ASSUME NEW s \in Registered', s \notin missing'
               PROVE  HasAll(s)'
    BY DEF CompleteInv
  <2>1. CASE s = r
    BY <1>3, <1>9, <2>1 DEF Ran, HasAll
  <2>2. CASE s # r
    <3>1. s \in Registered /\ Query(s)' = Query(s) /\ HasAll(s) /\ q.tgt \notin Sources(Query(s))
      BY <1>1, <1>3, <2>2, QuietRules DEF Readers
    <3> QED BY <1>9, <2>2, <3>1, RunKeepsComplete DEF CInv
  <2> QED BY <2>1, <2>2
<1>14. SupportedInv'
  <2> SUFFICES ASSUME NEW p \in prov', p[1] \notin surplus'
               PROVE  p[2] \in Derivable(Query(p[1])', Rows')
    BY DEF SupportedInv, Query
  <2>1. CASE p[1] = r
    <3>1. p = <<r, p[2]>> /\ p \notin prov
      BY <1>7, <1>9, <2>1 DEF Ran
    <3> QED BY <1>3, <1>9, <2>1, <3>1
  <2>2. CASE p[1] # r
    <3>1. p \in prov /\ p[1] \in Registered
      BY <1>9, <2>2 DEF Ran, CInv, CTypes
    <3>2. q.tgt \notin Sources(Query(p[1])) /\ p[2] \in Derivable(Query(p[1]), Rows)
      BY <1>1, <2>2, <3>1, QuietRules DEF Readers
    <3>3. p[2] \in Derivable(Query(p[1]), Rows')
      BY <1>9, <3>1, <3>2, RunKeepsSupported DEF CInv
    <3> QED BY <1>3, <3>1, <3>3
  <2> QED BY <2>1, <2>2
<1> QED BY <1>10, <1>11, <1>12, <1>13, <1>14 DEF CInv

(* refresh_construct_rule rederives the rule; its readers are marked. *)
LEMMA RefreshStep ==
    ASSUME CInv, NEW r \in Names, RefreshConstructRule(r)
    PROVE  CInv'
<1>1. PICK q : q = Query(r)
  OBVIOUS
<1>2. /\ Quiet /\ r \in Registered
      /\ missing' = (missing \ {r}) \cup Readers({q.tgt})
      /\ surplus' = (surplus \ {r}) \cup Readers({q.tgt})
      /\ delGraphs' = delGraphs /\ insGraphs' = insGraphs /\ kind' = kind /\ todo' = todo
      /\ mine' = mine /\ rules' = rules
  BY <1>1 DEF RefreshConstructRule, SetMarks, flush
<1>3. PICK t : t = Rederive(r, q, Tables)
  OBVIOUS
<1>4. SetTables(t, abandoned)
  BY <1>1, <1>3 DEF RefreshConstructRule
<1>5. /\ q \in Queries /\ Ran(r, q)
      /\ \A k : <<r, k>> \in prov' => k \in Derivable(q, Rows')
  BY <1>1, <1>2, <1>3, <1>4, TurnRuns
<1>6. Registered' = Registered /\ \A s \in Registered : Query(s)' = Query(s)
  BY <1>2 DEF Registered, Query
<1>7. CTypes'
  BY <1>1, <1>2, <1>5, RunKeepsTypes DEF CInv
<1>8. DerivedOwned'
  <2>1. abandoned' = {k \in abandoned : k \in derived' /\ Owners(k, prov') = {}}
    BY <1>4 DEF SetTables
  <2> QED BY <1>5, <2>1, RunKeepsOwned DEF CInv
<1>9. FlushTypes' /\ FeedInv' /\ mine' \subseteq asserted'
  BY <1>2, <1>5, <1>6 DEF CInv, FlushTypes, FeedInv, Quiet, Ran
<1>10. CompleteInv'
  <2> SUFFICES ASSUME NEW s \in Registered, s \notin missing'
               PROVE  HasAll(s)'
    BY <1>6 DEF CompleteInv
  <2>1. CASE s = r
    BY <1>1, <1>5, <1>6, <2>1 DEF Ran, HasAll
  <2>2. CASE s # r
    <3>1. HasAll(s) /\ q.tgt \notin Sources(Query(s))
      BY <1>2, <2>2, QuietRules DEF Readers
    <3> QED BY <1>5, <1>6, <2>2, <3>1, RunKeepsComplete DEF CInv
  <2> QED BY <2>1, <2>2
<1>11. SupportedInv'
  <2> SUFFICES ASSUME NEW p \in prov', p[1] \notin surplus'
               PROVE  p[2] \in Derivable(Query(p[1]), Rows')
    BY <1>2 DEF SupportedInv, Query
  <2>1. CASE p[1] = r
    <3>1. p = <<r, p[2]>>
      BY <2>1, <1>5 DEF Ran
    <3> QED BY <1>1, <1>5, <2>1, <3>1
  <2>2. CASE p[1] # r
    <3>1. p \in prov /\ p[1] \in Registered
      BY <1>5, <2>2 DEF Ran, CInv, CTypes
    <3>2. q.tgt \notin Sources(Query(p[1])) /\ p[2] \in Derivable(Query(p[1]), Rows)
      BY <1>2, <2>2, <3>1, QuietRules DEF Readers
    <3> QED BY <1>5, <3>1, <3>2, RunKeepsSupported DEF CInv
  <2> QED BY <2>1, <2>2
<1> QED BY <1>7, <1>8, <1>9, <1>10, <1>11 DEF CInv

(* drop_construct_rule retracts only what no other rule answers for. *)
LEMMA DropStep ==
    ASSUME CInv, NEW r \in Names, NEW b \in BOOLEAN, DropConstructRule(r, b)
    PROVE  CInv'
<1> DEFINE X == IF b THEN {k \in Keys : Owners(k, prov) = {r}} ELSE {}
           G == IF b THEN {Query(r).tgt} ELSE {}
<1>1. /\ Quiet /\ r \in Registered
      /\ missing' = (missing \cup Readers(G)) \ {r}
      /\ surplus' = (surplus \cup Readers(G)) \ {r}
      /\ delGraphs' = delGraphs /\ insGraphs' = insGraphs /\ kind' = kind /\ todo' = todo
      /\ mine' = mine /\ rules' = [s \in Registered \ {r} |-> rules[s]]
  BY DEF DropConstructRule, SetMarks, flush, Readers
<1>2. /\ asserted' = asserted /\ derived' = derived \ X
      /\ prov' = {p \in prov : p[1] # r}
      /\ abandoned' = {k \in IF b THEN abandoned ELSE derived :
                           k \in derived' /\ Owners(k, prov') = {}}
  BY DEF DropConstructRule, SetTables, Forget, Retract, Tables
<1>3. \A k \in X : k \in Keys /\ Owners(k, prov) = {r} /\ k[1] \in G
  <2> TAKE k \in X
  <2>1. b /\ k \in Keys /\ Owners(k, prov) = {r}
    OBVIOUS
  <2>2. <<r, k>> \in prov
    BY <2>1 DEF Owners
  <2>3. k[1] = Query(r).tgt
    BY <2>2 DEF CInv, CTypes
  <2> QED BY <2>1, <2>3
<1>4. ~b => X = {}
  OBVIOUS
<1>5. \A k \in derived : k \notin X /\ b /\ Owners(k, prov) # {} => Owners(k, prov') # {}
  BY <1>2 DEF Owners, CInv, CTypes
<1> HIDE DEF X, G
<1>6. /\ Registered' = Registered \ {r}
      /\ \A s \in Registered' : Query(s)' = Query(s) /\ rules'[s].ord = rules[s].ord
  BY <1>1 DEF Registered, Query
<1>7. CTypes'
  <2>1. \A p \in prov' : p[1] \in Registered' /\ p[2][1] = Query(p[1])'.tgt
    BY <1>2, <1>6 DEF CInv, CTypes
  <2>2. \A s \in Registered' :
            /\ Query(s)' \in Queries /\ rules'[s].ord \in Int
            /\ Query(s)'.tgt \notin Sources(Query(s)')
    BY <1>6 DEF CInv, CTypes
  <2>3. \A p \in prov' : Query(p[1])' = rules'[p[1]].query
    BY DEF Query
  <2> QED BY <1>2, <1>6, <2>1, <2>2, <2>3 DEF CInv, CTypes, Query
<1>8. DerivedOwned'
  <2> SUFFICES ASSUME NEW k \in derived', k \notin abandoned'
               PROVE  Owners(k, prov') # {}
    BY DEF DerivedOwned
  <2>1. CASE ~b \/ k \in abandoned
    BY <1>2, <2>1
  <2>2. CASE b /\ k \notin abandoned
    BY <1>2, <1>5, <2>2 DEF CInv, DerivedOwned
  <2> QED BY <2>1, <2>2
<1>9. FlushTypes' /\ FeedInv' /\ mine' \subseteq asserted'
  BY <1>1, <1>2, <1>6 DEF CInv, FlushTypes, FeedInv, Quiet
<1>10. \A s \in Registered' : Sources(Query(s)) \cap G = {} =>
           Derivable(Query(s), Rows') = Derivable(Query(s), Rows)
  <2> SUFFICES ASSUME NEW s \in Registered', Sources(Query(s)) \cap G = {}
               PROVE  Derivable(Query(s), Rows') = Derivable(Query(s), Rows)
    OBVIOUS
  <2>1. \A k \in Keys : k[1] \in Sources(Query(s)) => (k \in Rows' <=> k \in Rows)
    BY <1>2, <1>3 DEF Rows
  <2>2. Query(s) \in Queries
    BY <1>6 DEF CInv, CTypes
  <2> QED BY <2>1, <2>2, DerivableLocal
<1>11. CompleteInv'
  <2> SUFFICES ASSUME NEW s \in Registered', s \notin missing'
               PROVE  HasAll(s)'
    BY DEF CompleteInv
  <2>1. s \in Registered /\ s # r /\ s \in Names /\ HasAll(s) /\ Sources(Query(s)) \cap G = {}
    BY <1>1, <1>6, QuietRules DEF Readers, CInv, CTypes
  <2>2. ASSUME NEW k \in Derivable(Query(s), Rows)
        PROVE  k \in Rows' /\ (k \in derived' => <<s, k>> \in prov')
    <3>1. k \in Rows /\ (k \in derived => <<s, k>> \in prov)
      BY <2>1 DEF HasAll
    <3>2. <<s, k>> \in prov => s \in Owners(k, prov) /\ k \notin X
      BY <1>3, <2>1 DEF Owners
    <3> QED BY <1>2, <2>1, <3>1, <3>2 DEF Rows
  <2> QED BY <1>6, <1>10, <2>1, <2>2 DEF HasAll
<1>12. SupportedInv'
  <2> SUFFICES ASSUME NEW p \in prov', p[1] \notin surplus'
               PROVE  p[2] \in Derivable(Query(p[1])', Rows')
    BY DEF SupportedInv, Query
  <2>1. p \in prov /\ p[1] # r /\ p[1] \in Registered'
    BY <1>2, <1>6 DEF CInv, CTypes
  <2>2. p[1] \notin surplus /\ Sources(Query(p[1])) \cap G = {}
    BY <1>1, <1>6, <2>1 DEF Readers
  <2>3. p[2] \in Derivable(Query(p[1]), Rows)
    BY <1>1, <2>1, <2>2, QuietRules
  <2> QED BY <1>6, <1>10, <2>1, <2>2, <2>3
<1> QED BY <1>7, <1>8, <1>9, <1>11, <1>12 DEF CInv

(* apply_for_graph only starts a flush. *)
LEMMA ApplyStep ==
    ASSUME CInv, NEW g \in Graphs, ApplyForGraph(g)
    PROVE  CInv'
<1>1. /\ Quiet /\ delGraphs' = {} /\ insGraphs' = {g} /\ kind' = kind /\ todo' = todo
      /\ asserted' = asserted /\ derived' = derived /\ prov' = prov /\ rules' = rules
      /\ mine' = mine /\ abandoned' = abandoned /\ missing' = missing /\ surplus' = surplus
  BY DEF ApplyForGraph, Flush, tables, history
<1>2. CTypes' /\ DerivedOwned' /\ mine' \subseteq asserted'
  BY <1>1 DEF CInv, CTypes, DerivedOwned, Registered, Query
<1>3. FlushTypes' /\ FeedInv'
  BY <1>1 DEF CInv, FlushTypes, FeedInv, Quiet, Registered
<1>4. CompleteInv'
  <2>1. \A r : HasAll(r)' <=> HasAll(r)
    BY <1>1 DEF HasAll, Rows, Query
  <2>2. Registered' = Registered
    BY <1>1 DEF Registered
  <2> QED BY <1>1, <2>1, <2>2, QuietRules DEF CompleteInv
<1>5. SupportedInv'
  BY <1>1, QuietRules DEF SupportedInv, Query, Rows
<1> QED BY <1>2, <1>3, <1>4, <1>5 DEF CInv

-----------------------------------------------------------------------------
(* The invariant, and the properties. *)

(* Init gives the invariant: no rows and no rules. *)
LEMMA InitCInv == Init => CInv
<1> SUFFICES ASSUME Init PROVE CInv
  OBVIOUS
<1>1. Registered = {}
  BY DEF Init, Registered
<1> QED BY <1>1 DEF Init, CInv, CTypes, FlushTypes, CompleteInv, SupportedInv, FeedInv, DerivedOwned

(* Every call, and every step of a flush, keeps the invariant. *)
LEMMA NextCInv == CInv /\ [Next]_vars => CInv'
<1> SUFFICES ASSUME CInv, [Next]_vars PROVE CInv'
  OBVIOUS
<1>1. CASE \/ \E k \in Keys : InsertTriple(k)
           \/ \E k \in Keys : DeleteTripleFromGraph(k)
           \/ \E k, l \in Keys : SparqlUpdate({k}, {l})
           \/ \E k \in Keys : SparqlUpdate({k}, {}) \/ SparqlUpdate({}, {k})
  BY <1>1, JournalledCalls
<1>2. CASE \/ \E k \in Keys : InsertTriples({k})
           \/ \E g \in Graphs : ClearGraph(g)
           \/ \E g, h \in Graphs : Add(g, h)
           \/ \E g, h \in Graphs : Copy(g, h)
           \/ \E g, h \in Graphs : Move(g, h)
  BY <1>2, SilentCalls
<1>3. CASE \E r \in Names, q \in Queries : CreateConstructRule(r, q)
  BY <1>3, CreateStep
<1>4. CASE \E r \in Names, b \in BOOLEAN : DropConstructRule(r, b)
  BY <1>4, DropStep
<1>5. CASE \E r \in Names : RefreshConstructRule(r)
  BY <1>5, RefreshStep
<1>6. CASE \E g \in Graphs : ApplyForGraph(g)
  BY <1>6, ApplyStep
<1>7. CASE \E g \in Graphs : OnGraphDelete(g) \/ OnGraphWrite(g)
  BY <1>7, DeleteTurn, WriteTurn
<1>8. CASE \E r \in Names : RunRule(r)
  BY <1>8, RunRuleStep
<1>9. CASE UNCHANGED vars
  <2>1. /\ asserted' = asserted /\ derived' = derived /\ prov' = prov /\ rules' = rules
        /\ delGraphs' = delGraphs /\ insGraphs' = insGraphs /\ kind' = kind /\ todo' = todo
        /\ mine' = mine /\ abandoned' = abandoned /\ missing' = missing /\ surplus' = surplus
    BY <1>9 DEF vars, tables, flush, history
  <2>2. CTypes' /\ FlushTypes' /\ DerivedOwned' /\ mine' \subseteq asserted'
    BY <2>1 DEF CInv, CTypes, FlushTypes, DerivedOwned, Registered, Query
  <2>3. \A r : HasAll(r)' <=> HasAll(r)
    BY <2>1 DEF HasAll, Rows, Query
  <2>4. CompleteInv'
    BY <2>1, <2>3 DEF CInv, CompleteInv, Awaited, Readers, Registered, Query
  <2>5. SupportedInv'
    BY <2>1 DEF CInv, SupportedInv, Doubted, Readers, Subtractors, Registered, Rows, Query
  <2>6. FeedInv'
    BY <2>1 DEF CInv, FeedInv, Registered, Query, Precedes
  <2> QED BY <2>2, <2>4, <2>5, <2>6 DEF CInv
<1> QED BY <1>1, <1>2, <1>3, <1>4, <1>5, <1>6, <1>7, <1>8, <1>9 DEF Next

(* At every step of every flush the rules that are not marked, and whose    *)
(* turn is over, agree with their sources (on_graph_write, on_graph_delete, *)
(* flush).                                                                  *)
THEOREM RulesInvariant == Spec => []CInv
<1> QED BY InitCInv, NextCInv, PTL DEF Spec

(* Between two calls a rule has every fact its sources yield, whatever the  *)
(* rules, the graphs they share and the calls before: one run of each rule  *)
(* that reads a changed graph, in the order of rule_order, is enough.       *)
THEOREM RulesCompleteThm == Spec => []RulesComplete
<1>1. CInv => RulesComplete
  <2> SUFFICES ASSUME CInv, Quiet, NEW r \in Registered, r \notin missing
               PROVE  Derivable(Query(r), Visible(Tables)) \subseteq Visible(Tables)
    BY DEF RulesComplete
  <2> QED BY QuietRules DEF HasAll, Rows, Visible, Tables
<1> QED BY <1>1, RulesInvariant, PTL

(* Between two calls a rule keeps no fact its sources do not yield: a       *)
(* delete rederives every rule that read the row (on_graph_delete).         *)
THEOREM ProvenanceSupportedThm == Spec => []ProvenanceSupported
<1>1. CInv => ProvenanceSupported
  <2> SUFFICES ASSUME CInv, Quiet, NEW p \in prov, p[1] \notin surplus
               PROVE  p[2] \in Derivable(Query(p[1]), Visible(Tables))
    BY DEF ProvenanceSupported
  <2> QED BY QuietRules DEF Rows, Visible, Tables
<1> QED BY <1>1, RulesInvariant, PTL

(* A derived row has a rule that will retract it, in a flush too            *)
(* (retract_exclusive_triples).                                             *)
THEOREM DerivedOwnedThm == Spec => []DerivedOwned
<1>1. CInv => DerivedOwned
  BY DEF CInv
<1> QED BY <1>1, RulesInvariant, PTL

(* No rule removes a fact that a user put there (retract_exclusive_triples  *)
(* and its source = 1).                                                     *)
THEOREM UserFactsKeptThm == Spec => []UserFactsKept
<1>1. CInv => UserFactsKept
  BY DEF CInv, UserFactsKept, Visible, Tables
<1> QED BY <1>1, RulesInvariant, PTL
=============================================================================
