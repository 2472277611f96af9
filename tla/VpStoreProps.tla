---------------------------- MODULE VpStoreProps ----------------------------
(***************************************************************************)
(* The properties of VpStore.                                              *)
(***************************************************************************)
EXTENDS VpStore

(* Type invariant of the tables and catalog rows of every predicate. *)
TypeOK ==
    /\ seq \in 0 .. MaxSid
    /\ ret \in Nat
    /\ silent \subseteq Preds
    /\ DOMAIN part = Preds
    /\ \A p \in Preds :
          /\ part[p].dedicated \in BOOLEAN /\ part[p].skip \in BOOLEAN
          /\ part[p].rare \cup part[p].delta \cup part[p].main \cup part[p].tombs
                 \subseteq Row(Quads, Sids)
          /\ part[p].tombCount \in Nat /\ part[p].count \in Nat
          /\ part[p].range \in [lo : 0 .. MaxSid, hi : 0 .. MaxSid]

(* A promoted predicate has no row left in vp_rare, where SPARQL would not  *)
(* look for it, whatever calls came in between.                             *)
NothingStranded == \A p \in Preds : part[p].dedicated => part[p].rare = {}

(* get_statement_by_sid answers with the one statement that carries the     *)
(* identifier, and with nothing when no readable row does, although the     *)
(* ranges of the SID catalog overlap between predicates and grow stale.     *)
LookupExact ==
    \A sid \in Sids :
        LET owners == UNION {{<<p, r.q>> :
                         r \in {x \in ViewOf(part[p]) \cup part[p].rare : x.i = sid}}
                         : p \in Preds}
        IN  GetStatementBySid(sid) = owners /\ Cardinality(owners) <= 1

(* After CLEAR GRAPH (clear_graph_by_id) no quad of the graph is readable,  *)
(* in whichever of the four tables it was and whatever the view's form.     *)
ClearGraphClears ==
    [][\A g \in Graphs : ClearGraph(g) =>
          \A p \in Preds : \A q \in Readable(p)' : q.g # g]_vars

(* Merging, compacting and promoting reorganise the tables and change       *)
(* nothing a reader sees, except where drop_graph or deduplicate left a     *)
(* tombstone uncounted.                                                     *)
ReorganiseKeepsReadable ==
    [][(Compact \/ PromoteRare \/ \E p \in Preds : MergePredicate(p)) =>
          \A p \in Preds \ silent : Readable(p)' = Readable(p)]_vars

(* A deleted quad stays readable only when a second row of it, in main,     *)
(* stood behind the delta row the delete removed.                           *)
DeleteHides ==
    [][\A p \in Preds, q \in Quads :
          DeleteTriple(p, q) /\ q \in Readable(p)' =>
              q \in QuadsOf(part[p].delta) \cap QuadsOf(part[p].main)]_vars

(* The view of a predicate consults the tombstone table whenever it has     *)
(* rows, unless drop_graph or deduplicate wrote them.                       *)
TombstonesCounted ==
    \A p \in Preds \ silent :
        part[p].tombs # {} => ~part[p].skip /\ part[p].tombCount > 0

-----------------------------------------------------------------------------
(* What comments in the code say.                                           *)

(* ops/scan.rs, drop_graph: the tombstones suppress the graph's main rows   *)
(* from the view.                                                           *)
DropGraphClears ==
    [][\A g \in Graphs : DropGraph(g) =>
          \A p \in Preds : \A q \in Readable(p)' : q.g # g]_vars

(* ops/dedup.rs, deduplicate_predicate tombstones `all but the minimum-SID  *)
(* row': every quad keeps a readable row.                                   *)
DedupKeepsQuads ==
    [][\A p \in Preds : Deduplicate(p) => Readable(p) \subseteq Readable(p)']_vars
=============================================================================
