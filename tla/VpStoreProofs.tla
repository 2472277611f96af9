---------------------------- MODULE VpStoreProofs ----------------------------
(***************************************************************************)
(* Theorems about VpStore, for any number of predicates, terms and graphs  *)
(* and any promotion threshold.                                            *)
(*                                                                         *)
(* SInv is the inductive invariant.  Sound says of one predicate's tables  *)
(* that a rare one has no HTAP rows, a dedicated one no rare rows, that a  *)
(* view with a counted tombstone consults the tombstones, and that every   *)
(* tombstone is counted but for the silent ones.  UniqueSids says that no  *)
(* two rows of the store, of whatever predicates, share a statement        *)
(* identifier: that, and not the ranges of the SID catalog, makes the      *)
(* lookup by identifier exact.                                             *)
(***************************************************************************)
EXTENDS VpStoreProps, FiniteSetTheorems, WellFoundedInduction, TLAPS

-----------------------------------------------------------------------------
(* Facts about the operators of HtapTables. *)

(* DISTINCT ON (s, o, g) ... ORDER BY i keeps a row: among the rows of a    *)
(* quad there is one with the smallest statement identifier.                *)
LEMMA OldestExists ==
    ASSUME NEW Q, NEW rows, rows \subseteq Row(Q, Nat), NEW r \in rows
    PROVE  \E m \in rows : /\ m.q = r.q
                           /\ \A x \in rows : x.q = r.q => m.i <= x.i
<1> DEFINE T == {x.i : x \in {y \in rows : y.q = r.q}}
           L == {p \in Nat \X Nat : p[1] < p[2]}
<1>1. T \subseteq Nat /\ T # {}
  BY DEF Row
<1>2. IsWellFoundedOn(L, Nat)
  BY NatLessThanWellFounded DEF OpToRel
<1>3. PICK k \in T : \A y \in T : ~(<<y, k>> \in L)
  <2> HIDE DEF T, L
  <2> QED BY <1>1, <1>2, WFMin, Zenon
<1>4. ASSUME NEW y \in T
      PROVE  k <= y
  <2>1. k \in Nat /\ y \in Nat
    BY <1>1
  <2>2. <<y, k>> \notin L
    BY <1>3
  <2>3. ~(y < k)
    BY <2>1, <2>2
  <2> QED BY <2>1, <2>3
<1>5. PICK m \in rows : m.q = r.q /\ m.i = k
  OBVIOUS
<1>6. ASSUME NEW x \in rows, x.q = r.q
      PROVE  m.i <= x.i
  <2>1. x.i \in T
    BY <1>6
  <2> QED BY <1>4, <1>5, <2>1
<1> QED BY <1>5, <1>6

(* DISTINCT ON drops rows and never a quad. *)
LEMMA OldestKeepsQuads ==
    ASSUME NEW Q, NEW rows, rows \subseteq Row(Q, Nat)
    PROVE  QuadsOf(OldestPerQuad(rows)) = QuadsOf(rows)
<1>1. QuadsOf(OldestPerQuad(rows)) \subseteq QuadsOf(rows)
  BY DEF QuadsOf, OldestPerQuad
<1>2. ASSUME NEW q \in QuadsOf(rows)
      PROVE  q \in QuadsOf(OldestPerQuad(rows))
  <2>1. PICK r \in rows : r.q = q
    BY <1>2 DEF QuadsOf
  <2>2. PICK m \in rows : m.q = r.q /\ \A x \in rows : x.q = r.q => m.i <= x.i
    BY OldestExists
  <2>3. m \in OldestPerQuad(rows)
    BY <2>2 DEF OldestPerQuad
  <2> QED BY <2>1, <2>2, <2>3 DEF QuadsOf
<1> QED BY <1>1, <1>2

(* What the view shows, quad by quad: the delta, and main where no          *)
(* tombstone is consulted or none matches.                                  *)
LEMMA VisibleCharacterised ==
    ASSUME NEW Q, NEW M, NEW D, NEW T, NEW sk,
           M \subseteq Row(Q, Nat), D \subseteq Row(Q, Nat)
    PROVE  VisibleQuads(M, D, T, sk) =
             QuadsOf(D) \cup
             (IF sk THEN QuadsOf(M) ELSE QuadsOf(M) \ QuadsOf(T))
<1> DEFINE src == ViewSource(M, D, T, sk)
<1>1. src \subseteq Row(Q, Nat)
  BY DEF ViewSource, Unmasked
<1>2. VisibleQuads(M, D, T, sk) = QuadsOf(src)
  BY <1>1, OldestKeepsQuads DEF VisibleQuads, ViewRows
<1>3. QuadsOf(Unmasked(M, T)) = QuadsOf(M) \ QuadsOf(T)
  BY DEF QuadsOf, Unmasked
<1>4. QuadsOf(src) = QuadsOf(IF sk THEN M ELSE Unmasked(M, T)) \cup QuadsOf(D)
  BY DEF QuadsOf, ViewSource
<1> QED BY <1>2, <1>3, <1>4

(* main_new holds the quads of delta and the unmasked quads of main,        *)
(* deduplicated or not.                                                     *)
LEMMA MainNewQuads ==
    ASSUME NEW Q, NEW M, NEW D, NEW T, NEW dedup,
           M \subseteq Row(Q, Nat), D \subseteq Row(Q, Nat)
    PROVE  QuadsOf(MainNew(M, D, T, dedup)) =
             QuadsOf(D) \cup (QuadsOf(M) \ QuadsOf(T))
<1> DEFINE merged == Unmasked(M, T) \cup D
<1>1. merged \subseteq Row(Q, Nat)
  BY DEF Unmasked
<1>2. QuadsOf(merged) = QuadsOf(D) \cup (QuadsOf(M) \ QuadsOf(T))
  BY DEF QuadsOf, Unmasked
<1>3. QuadsOf(OldestPerQuad(merged)) = QuadsOf(merged)
  BY <1>1, OldestKeepsQuads
<1>4. MainNew(M, D, T, dedup) = IF dedup THEN OldestPerQuad(merged) ELSE merged
  BY DEF MainNew
<1> QED BY <1>2, <1>3, <1>4

(* main_new invents no row. *)
LEMMA MainNewSubset ==
    ASSUME NEW M, NEW D, NEW T, NEW dedup
    PROVE  MainNew(M, D, T, dedup) \subseteq M \cup D
BY DEF MainNew, OldestPerQuad, Unmasked

-----------------------------------------------------------------------------
Rows == Row(Quads, Sids)

(* What is kept for a predicate. *)
PartRec ==
    [dedicated : BOOLEAN, rare : SUBSET Rows, delta : SUBSET Rows, main : SUBSET Rows,
     tombs : SUBSET Rows, skip : BOOLEAN, tombCount : Nat, count : Nat,
     range : [lo : 0 .. MaxSid, hi : 0 .. MaxSid]]

Sound(P) ==
    /\ P \in PartRec
    /\ P.dedicated => P.rare = {}
    /\ ~P.dedicated => P.delta = {} /\ P.main = {} /\ P.tombs = {}
    /\ P.tombCount > 0 => ~P.skip

(* The tombstones there are have been counted. *)
Counted(P) == P.tombs # {} => P.tombCount > 0

(* The rows that are statements. *)
Held(P) == P.rare \cup P.delta \cup P.main

Scalars == seq \in 0 .. MaxSid /\ ret \in Nat /\ silent \subseteq Preds

Parts ==
    /\ part \in [Preds -> PartRec]
    /\ \A p \in Preds : Sound(part[p]) /\ (p \notin silent => Counted(part[p]))

UniqueSids ==
    /\ \A p \in Preds : \A r \in Held(part[p]) : r.i <= seq
    /\ \A p1, p2 \in Preds : \A r \in Held(part[p1]), x \in Held(part[p2]) :
           r.i = x.i => p1 = p2 /\ r = x

(* The inductive invariant. *)
SInv == Scalars /\ Parts /\ UniqueSids

-----------------------------------------------------------------------------
(* Tables are finite, so the counts are numbers: there are finitely many    *)
(* quads.                                                                   *)
LEMMA QuadsFinite == IsFiniteSet(Quads)
<1> DEFINE f == [x \in Terms \X Graphs |-> [t |-> x[1], g |-> x[2]]]
<1>1. IsFiniteSet(Terms \X Graphs)
  BY StoreAssumption, FS_Product
<1>2. f \in Surjection(Terms \X Graphs, Quads)
  <2>1. f \in [Terms \X Graphs -> Quads]
    BY DEF Quads
  <2>2. ASSUME NEW q \in Quads PROVE \E x \in Terms \X Graphs : f[x] = q
    <3>1. <<q.t, q.g>> \in Terms \X Graphs /\ q = [t |-> q.t, g |-> q.g]
      BY DEF Quads
    <3> QED BY <3>1
  <2> QED BY <2>1, <2>2 DEF Surjection
<1> QED BY <1>1, <1>2, FS_Surjection

(* And so finitely many rows. *)
LEMMA RowsFinite == IsFiniteSet(Rows)
<1>1. IsFiniteSet(Quads)
  BY QuadsFinite
<1>2. IsFiniteSet(Sids)
  BY StoreAssumption, FS_Interval DEF Sids
<1> DEFINE f == [x \in Quads \X Sids |-> [q |-> x[1], i |-> x[2]]]
<1>3. IsFiniteSet(Quads \X Sids)
  BY <1>1, <1>2, FS_Product
<1>4. f \in Surjection(Quads \X Sids, Rows)
  <2>1. f \in [Quads \X Sids -> Rows]
    BY DEF Rows, Row
  <2>2. ASSUME NEW r \in Rows PROVE \E x \in Quads \X Sids : f[x] = r
    <3>1. <<r.q, r.i>> \in Quads \X Sids /\ r = [q |-> r.q, i |-> r.i]
      BY DEF Rows, Row
    <3> QED BY <3>1
  <2> QED BY <2>1, <2>2 DEF Surjection
<1> QED BY <1>3, <1>4, FS_Surjection

(* The number of rows of a table, and when it is nought. *)
LEMMA TableSize ==
    ASSUME NEW S, S \subseteq Rows
    PROVE  IsFiniteSet(S) /\ Cardinality(S) \in Nat /\ (Cardinality(S) = 0 <=> S = {})
<1>1. IsFiniteSet(S)
  BY RowsFinite, FS_Subset
<1> QED BY <1>1, FS_CardinalityType, FS_EmptySet

(* GREATEST(0, n - k). *)
LEMMA SubtractType ==
    ASSUME NEW n \in Nat, NEW k \in Nat
    PROVE  Subtract(n, k) \in Nat
BY DEF Subtract

(* A row has its quad, and a quad and an identifier make a row. *)
LEMMA RowFacts ==
    /\ \A r \in Rows : r.q \in Quads /\ r.i \in Sids /\ r = [q |-> r.q, i |-> r.i]
    /\ \A q \in Quads, n \in Sids : [q |-> q, i |-> n] \in Rows
    /\ Rows \subseteq Row(Quads, Nat)
BY DEF Rows, Row, Sids

-----------------------------------------------------------------------------
(* One predicate's tables. *)

(* A promotion moves the rare rows and adds none. *)
LEMMA PromotedSound ==
    ASSUME NEW P, Sound(P)
    PROVE  /\ Sound(Promoted(P)) /\ Held(Promoted(P)) \subseteq Held(P)
           /\ Counted(P) => Counted(Promoted(P))
<1> DEFINE moved == {r \in P.rare : r.q \notin QuadsOf(P.delta)}
<1>1. P.delta \cup moved \subseteq Rows
  BY DEF Sound, PartRec
<1>2. Cardinality(P.delta \cup moved) \in Nat
  BY <1>1, TableSize
<1>3. Promoted(P) = [P EXCEPT !.dedicated = TRUE, !.rare = {}, !.delta = P.delta \cup moved,
                              !.count = Cardinality(P.delta \cup moved)]
  BY DEF Promoted
<1>4. moved \subseteq P.rare
  OBVIOUS
<1> HIDE DEF moved
<1>5. Promoted(P) \in PartRec
  BY <1>1, <1>2, <1>3 DEF Sound, PartRec
<1> QED BY <1>3, <1>4, <1>5 DEF Sound, PartRec, Held, Counted

(* An insert stores a row with the new identifier, in whichever table. *)
LEMMA InsertedSound ==
    ASSUME NEW P, Sound(P), NEW q \in Quads, NEW sid \in Sids
    PROVE  /\ Sound(Inserted(P, q, sid)) /\ Held(Inserted(P, q, sid)) \subseteq Held(P) \cup {[q |-> q, i |-> sid]}
           /\ Counted(P) => Counted(Inserted(P, q, sid))
<1>1. [q |-> q, i |-> sid] \in Rows
  BY RowFacts
<1>2. CASE P.dedicated
  <2>1. Inserted(P, q, sid) = [P EXCEPT !.delta = (P.delta \ OfQuad(P.delta, q)) \cup {[q |-> q, i |-> sid]},
                                        !.count = P.count + 1]
    BY <1>2 DEF Inserted, DeltaUpserted
  <2>2. Inserted(P, q, sid) \in PartRec
    <3>1. P.count + 1 \in Nat /\ (P.delta \ OfQuad(P.delta, q)) \cup {[q |-> q, i |-> sid]} \in SUBSET Rows
      BY <1>1 DEF Sound, PartRec
    <3> QED BY <2>1, <3>1 DEF Sound, PartRec
  <2> QED BY <1>2, <2>1, <2>2 DEF Sound, PartRec, Held, Counted
<1>3. CASE ~P.dedicated /\ q \notin QuadsOf(P.rare)
  <2>1. Inserted(P, q, sid) = [P EXCEPT !.rare = P.rare \cup {[q |-> q, i |-> sid]}, !.count = P.count + 1]
    BY <1>3 DEF Inserted, RareInserted
  <2>2. Inserted(P, q, sid) \in PartRec
    <3>1. P.count + 1 \in Nat /\ P.rare \cup {[q |-> q, i |-> sid]} \in SUBSET Rows
      BY <1>1 DEF Sound, PartRec
    <3> QED BY <2>1, <3>1 DEF Sound, PartRec
  <2> QED BY <1>3, <2>1, <2>2 DEF Sound, PartRec, Held, Counted
<1>4. CASE ~P.dedicated /\ q \in QuadsOf(P.rare)
  BY <1>4 DEF Inserted, RareInserted
<1> QED BY <1>2, <1>3, <1>4

(* A batch stores rows with the identifiers given out to it. *)
LEMMA BatchInsertedSound ==
    ASSUME NEW P, Sound(P), NEW quads \in SUBSET Quads, Cardinality(quads) \in Nat,
           NEW sidOf \in [quads -> Sids]
    PROVE  /\ Sound(BatchInserted(P, quads, sidOf)) /\ (Counted(P) => Counted(BatchInserted(P, quads, sidOf)))
           /\ Held(BatchInserted(P, quads, sidOf)) \subseteq Held(P) \cup {[q |-> q, i |-> sidOf[q]] : q \in quads}
<1> DEFINE held  == QuadsOf(IF P.dedicated THEN P.delta ELSE P.rare)
           fresh == {[q |-> q, i |-> sidOf[q]] : q \in quads \ held}
<1>1. fresh \subseteq Rows /\ fresh \subseteq {[q |-> q, i |-> sidOf[q]] : q \in quads}
  BY RowFacts
<1>2. BatchInserted(P, quads, sidOf) =
        IF P.dedicated THEN [P EXCEPT !.delta = P.delta \cup fresh, !.count = P.count + Cardinality(quads)]
                       ELSE [P EXCEPT !.rare = P.rare \cup fresh, !.count = P.count + Cardinality(quads)]
  BY DEF BatchInserted
<1> HIDE DEF fresh
<1>3. BatchInserted(P, quads, sidOf) \in PartRec
  <2>1. /\ P.count + Cardinality(quads) \in Nat
        /\ P.delta \cup fresh \in SUBSET Rows /\ P.rare \cup fresh \in SUBSET Rows
    BY <1>1 DEF Sound, PartRec
  <2> QED BY <1>2, <2>1 DEF Sound, PartRec
<1> QED BY <1>1, <1>2, <1>3 DEF Sound, PartRec, Held, Counted

(* Counting tombstones makes the view consult them. *)
LEMMA TombsCountedSound ==
    ASSUME NEW P, Sound(P), NEW n \in Nat \ {0}
    PROVE  /\ Sound(TombsCounted(P, n))
           /\ TombsCounted(P, n).tombCount > 0 /\ ~TombsCounted(P, n).skip
           /\ TombsCounted(P, n).count = P.count /\ TombsCounted(P, n).main = P.main
           /\ TombsCounted(P, n).delta = P.delta /\ TombsCounted(P, n).rare = P.rare
           /\ TombsCounted(P, n).tombs = P.tombs /\ TombsCounted(P, n).dedicated = P.dedicated
<1>1. TombsCounted(P, n) = [P EXCEPT !.tombCount = P.tombCount + n, !.skip = IF P.tombCount = 0 THEN FALSE ELSE P.skip]
  BY DEF TombsCounted
<1>2. P.tombCount \in Nat /\ P.skip \in BOOLEAN /\ P.tombCount + n \in Nat /\ P.tombCount + n > 0
  BY DEF Sound, PartRec
<1>3. TombsCounted(P, n) \in PartRec
  BY <1>1, <1>2 DEF Sound, PartRec
<1>4. TombsCounted(P, n).tombCount = P.tombCount + n /\ ~TombsCounted(P, n).skip
  BY <1>1, <1>2 DEF Sound, PartRec
<1> QED BY <1>1, <1>2, <1>3, <1>4 DEF Sound, PartRec

(* Rows leave vp_rare. *)
LEMMA RareDeletedSound ==
    ASSUME NEW P, Sound(P), NEW q
    PROVE  /\ Sound(RareDeleted(P, q)) /\ Held(RareDeleted(P, q)) \subseteq Held(P)
           /\ Counted(P) => Counted(RareDeleted(P, q))
<1>1. OfQuad(P.rare, q) \subseteq Rows
  BY DEF OfQuad, Sound, PartRec
<1>2. Subtract(P.count, Cardinality(OfQuad(P.rare, q))) \in Nat
  BY <1>1, TableSize, SubtractType DEF Sound, PartRec
<1>3. RareDeleted(P, q) = [P EXCEPT !.rare = P.rare \ OfQuad(P.rare, q),
                                    !.count = Subtract(P.count, Cardinality(OfQuad(P.rare, q)))]
  BY DEF RareDeleted
<1>4. RareDeleted(P, q) \in PartRec
  BY <1>2, <1>3 DEF Sound, PartRec
<1> QED BY <1>3, <1>4 DEF Sound, PartRec, Held, Counted

(* A delete takes rows away, and counts the tombstone it writes. *)
LEMMA DedicatedDeletedSound ==
    ASSUME NEW P, Sound(P), P.dedicated, NEW q \in Quads, NEW sid,
           q \notin QuadsOf(P.delta) => sid \in Sids
    PROVE  /\ Sound(DedicatedDeleted(P, q, sid)) /\ Held(DedicatedDeleted(P, q, sid)) \subseteq Held(P)
           /\ Counted(P) => Counted(DedicatedDeleted(P, q, sid))
<1> DEFINE D == DedicatedDeleted(P, q, sid)
<1>1. CASE q \in QuadsOf(P.delta)
  <2>1. Subtract(P.count, 1) \in Nat
    BY SubtractType DEF Sound, PartRec
  <2>2. D = [P EXCEPT !.delta = P.delta \ OfQuad(P.delta, q), !.count = Subtract(P.count, 1)]
    BY <1>1 DEF DedicatedDeleted
  <2>3. D \in PartRec
    BY <2>1, <2>2 DEF Sound, PartRec
  <2> HIDE DEF D
  <2>4. Sound(D) /\ Held(D) \subseteq Held(P) /\ (Counted(P) => Counted(D))
    BY <2>2, <2>3 DEF Sound, PartRec, Held, Counted
  <2> QED BY <2>4 DEF D
<1>2. CASE q \notin QuadsOf(P.delta)
  <2>0. 1 \in Nat \ {0}
    OBVIOUS
  <2> DEFINE T == TombsCounted(P, 1)
             k == Cardinality(OfQuad(P.main, q))
  <2>1. OfQuad(P.main, q) \subseteq Rows /\ P.count \in Nat
    BY DEF OfQuad, Sound, PartRec
  <2>2. Subtract(P.count, k) \in Nat
    BY <2>1, TableSize, SubtractType
  <2>3. /\ Sound(T) /\ T.tombCount > 0 /\ ~T.skip /\ T.count = P.count /\ T.main = P.main
        /\ T.delta = P.delta /\ T.rare = P.rare /\ T.tombs = P.tombs /\ T.dedicated = P.dedicated
    BY <2>0, TombsCountedSound
  <2>4. [q |-> q, i |-> sid] \in Rows
    BY <1>2, RowFacts
  <2>5. D = [T EXCEPT !.tombs = T.tombs \cup {[q |-> q, i |-> sid]}, !.count = Subtract(T.count, k)]
    BY <1>2 DEF DedicatedDeleted
  <2> HIDE DEF D, T, k
  <2>6. D \in PartRec
    BY <2>2, <2>3, <2>4, <2>5 DEF Sound, PartRec
  <2>7. Sound(D) /\ Held(D) \subseteq Held(P) /\ (Counted(P) => Counted(D))
    BY <2>3, <2>5, <2>6 DEF Sound, PartRec, Held, Counted
  <2> QED BY <2>7 DEF D
<1> QED BY <1>1, <1>2

(* clear_graph_by_id and drop_graph: what becomes of the tables. *)
LEMMA GraphClearedSound ==
    ASSUME NEW P, Sound(P), P.dedicated, NEW g, NEW sid,
           InGraph(P.main, g) # {} => sid \in Sids
    PROVE  /\ Sound(GraphCleared(P, g, sid)) /\ (Counted(P) /\ InGraph(P.main, g) = {} => Counted(GraphCleared(P, g, sid)))
           /\ Held(GraphCleared(P, g, sid)) \subseteq Held(P)
           /\ GraphCleared(P, g, sid).delta = P.delta \ InGraph(P.delta, g)
           /\ GraphCleared(P, g, sid).tombs = P.tombs \cup GraphTombs(P, g, sid)
           /\ GraphCleared(P, g, sid).main = P.main /\ GraphCleared(P, g, sid).dedicated = P.dedicated
           /\ GraphCleared(P, g, sid).skip = P.skip
<1> DEFINE d == InGraph(P.delta, g)
           m == InGraph(P.main, g)
           C == GraphCleared(P, g, sid)
<1>1. d \subseteq Rows /\ m \subseteq Rows /\ P.count \in Nat
  BY DEF InGraph, Sound, PartRec
<1>2. Subtract(P.count, Cardinality(d) + Cardinality(m)) \in Nat
  <2>1. Cardinality(d) \in Nat /\ Cardinality(m) \in Nat
    BY <1>1, TableSize
  <2> HIDE DEF d, m
  <2>2. Cardinality(d) + Cardinality(m) \in Nat
    BY <2>1
  <2> QED BY <1>1, <2>2, SubtractType
<1>3. GraphTombs(P, g, sid) \subseteq Rows
  <2> SUFFICES ASSUME NEW r \in m, sid \in Sids PROVE [q |-> r.q, i |-> sid] \in Rows
    BY DEF GraphTombs, QuadsOf
  <2> QED BY <1>1, RowFacts
<1>4. C = [P EXCEPT !.delta = P.delta \ d, !.tombs = P.tombs \cup GraphTombs(P, g, sid),
                    !.count = Subtract(P.count, Cardinality(d) + Cardinality(m))]
  BY DEF GraphCleared
<1>5. m = {} => GraphTombs(P, g, sid) = {}
  BY DEF GraphTombs, QuadsOf
<1> HIDE DEF d, m, C
<1>6. C \in PartRec
  <2>1. P.delta \ d \in SUBSET Rows /\ P.tombs \cup GraphTombs(P, g, sid) \in SUBSET Rows
    BY <1>3 DEF Sound, PartRec
  <2> QED BY <1>2, <1>4, <2>1 DEF Sound, PartRec
<1>7. /\ C.delta = P.delta \ d /\ C.tombs = P.tombs \cup GraphTombs(P, g, sid)
      /\ C.main = P.main /\ C.dedicated = P.dedicated /\ C.skip = P.skip /\ C.rare = P.rare /\ C.tombCount = P.tombCount
  BY <1>4 DEF Sound, PartRec
<1>8. Held(C) \subseteq Held(P)
  BY <1>7 DEF Held
<1>9. Sound(C) /\ (Counted(P) /\ m = {} => Counted(C))
  BY <1>5, <1>6, <1>7 DEF Sound, Counted
<1> QED BY <1>7, <1>8, <1>9 DEF C, d, m

(* clear_graph_by_id counts the tombstones it writes. *)
LEMMA GraphClearedCountedSound ==
    ASSUME NEW P, Sound(P), P.dedicated, NEW g, NEW sid,
           InGraph(P.main, g) # {} => sid \in Sids
    PROVE  /\ Sound(GraphClearedCounted(P, g, sid)) /\ (Counted(P) => Counted(GraphClearedCounted(P, g, sid)))
           /\ Held(GraphClearedCounted(P, g, sid)) \subseteq Held(P)
           /\ GraphClearedCounted(P, g, sid).delta = P.delta \ InGraph(P.delta, g)
           /\ GraphClearedCounted(P, g, sid).tombs = P.tombs \cup GraphTombs(P, g, sid)
           /\ GraphClearedCounted(P, g, sid).main = P.main /\ GraphClearedCounted(P, g, sid).dedicated = P.dedicated
           /\ InGraph(P.main, g) # {} => ~GraphClearedCounted(P, g, sid).skip
<1> DEFINE m == InGraph(P.main, g)
           C == GraphCleared(P, g, sid)
           G == GraphClearedCounted(P, g, sid)
           n == Cardinality(m)
<1>1. /\ Sound(C) /\ (Counted(P) /\ m = {} => Counted(C)) /\ Held(C) \subseteq Held(P)
      /\ C.delta = P.delta \ InGraph(P.delta, g)
      /\ C.tombs = P.tombs \cup GraphTombs(P, g, sid) /\ C.main = P.main /\ C.dedicated = P.dedicated
  BY GraphClearedSound
<1>2. m \subseteq Rows
  BY DEF InGraph, Sound, PartRec
<1>3. m # {} => n \in Nat \ {0}
  BY <1>2, TableSize
<1>4. G = IF m = {} THEN C ELSE TombsCounted(C, n)
  BY DEF GraphClearedCounted
<1> HIDE DEF m, C, G, n
<1>5. CASE m = {}
  <2>1. G = C
    BY <1>4, <1>5
  <2> QED BY <1>1, <1>5, <2>1 DEF G, m
<1>6. CASE m # {}
  <2>1. G = TombsCounted(C, n) /\ n \in Nat \ {0}
    BY <1>3, <1>4, <1>6
  <2>2. /\ Sound(G) /\ G.tombCount > 0 /\ ~G.skip
        /\ G.main = C.main /\ G.delta = C.delta /\ G.rare = C.rare /\ G.tombs = C.tombs /\ G.dedicated = C.dedicated
    BY <1>1, <2>1, TombsCountedSound
  <2>3. Counted(G) /\ Held(G) = Held(C)
    BY <2>2 DEF Counted, Held
  <2> QED BY <1>1, <2>2, <2>3 DEF G
<1> QED BY <1>5, <1>6

(* The rows of a graph leave vp_rare. *)
LEMMA RareClearedSound ==
    ASSUME NEW P, Sound(P), NEW g
    PROVE  /\ Sound(RareCleared(P, g)) /\ (Counted(P) => Counted(RareCleared(P, g)))
           /\ Held(RareCleared(P, g)) \subseteq Held(P)
           /\ RareCleared(P, g).rare = P.rare \ InGraph(P.rare, g)
           /\ RareCleared(P, g).delta = P.delta /\ RareCleared(P, g).main = P.main
           /\ RareCleared(P, g).tombs = P.tombs /\ RareCleared(P, g).skip = P.skip
           /\ RareCleared(P, g).dedicated = P.dedicated
<1>1. RareCleared(P, g) = [P EXCEPT !.rare = P.rare \ InGraph(P.rare, g)]
  BY DEF RareCleared
<1>2. P.rare \ InGraph(P.rare, g) \in SUBSET Rows
  BY DEF Sound, PartRec
<1>3. RareCleared(P, g) \in PartRec
  BY <1>1, <1>2 DEF Sound, PartRec
<1> QED BY <1>1, <1>3 DEF Sound, PartRec, Held, Counted

(* Deduplication drops rows, and writes tombstones it does not count. *)
LEMMA DeduplicatedSound ==
    ASSUME NEW P, Sound(P), NEW sid, P.dedicated /\ Duplicated(P.main) # {} => sid \in Sids
    PROVE  /\ Sound(Deduplicated(P, sid))
           /\ Counted(P) /\ (~P.dedicated \/ Duplicated(P.main) = {}) => Counted(Deduplicated(P, sid))
           /\ Held(Deduplicated(P, sid)) \subseteq Held(P)
<1> DEFINE D == Deduplicated(P, sid)
           new == {[q |-> q, i |-> sid] : q \in Duplicated(P.main)}
<1>1. OldestPerQuad(P.delta) \subseteq P.delta /\ OldestPerQuad(P.rare) \subseteq P.rare
  BY DEF OldestPerQuad
<1>2. CASE P.dedicated
  <2>1. Duplicated(P.main) \subseteq Quads
    BY RowFacts DEF Duplicated, QuadsOf, Sound, PartRec
  <2>2. new \subseteq Rows /\ (Duplicated(P.main) = {} => new = {})
    BY <1>2, <2>1, RowFacts
  <2>3. D = [P EXCEPT !.delta = OldestPerQuad(P.delta), !.tombs = P.tombs \cup new]
    BY <1>2 DEF Deduplicated
  <2> HIDE DEF D, new
  <2>4. OldestPerQuad(P.delta) \in SUBSET Rows /\ P.tombs \cup new \in SUBSET Rows
    BY <1>1, <2>2 DEF Sound, PartRec
  <2>5. D \in PartRec
    BY <2>3, <2>4 DEF Sound, PartRec
  <2>6. /\ D.delta = OldestPerQuad(P.delta) /\ D.tombs = P.tombs \cup new /\ D.main = P.main /\ D.rare = P.rare
        /\ D.skip = P.skip /\ D.tombCount = P.tombCount /\ D.dedicated = P.dedicated
    BY <2>3 DEF Sound, PartRec
  <2>7. Held(D) \subseteq Held(P) /\ Sound(D)
        /\ (Counted(P) /\ (~P.dedicated \/ Duplicated(P.main) = {}) => Counted(D))
    BY <1>1, <1>2, <2>2, <2>5, <2>6 DEF Held, Sound, Counted
  <2> QED BY <2>7 DEF D
<1>3. CASE ~P.dedicated
  <2>1. D = [P EXCEPT !.rare = OldestPerQuad(P.rare)]
    BY <1>3 DEF Deduplicated
  <2> HIDE DEF D
  <2>2. OldestPerQuad(P.rare) \in SUBSET Rows
    BY <1>1 DEF Sound, PartRec
  <2>3. D \in PartRec
    BY <2>1, <2>2 DEF Sound, PartRec
  <2>4. Held(D) \subseteq Held(P) /\ Sound(D)
        /\ (Counted(P) /\ (~P.dedicated \/ Duplicated(P.main) = {}) => Counted(D))
    BY <1>1, <1>3, <2>1, <2>3 DEF Held, Sound, PartRec, Counted
  <2> QED BY <2>4 DEF D
<1> QED BY <1>2, <1>3

(* A set of identifiers has a smallest one and a largest one. *)
LEMMA Extremes ==
    ASSUME NEW S, S \subseteq 0 .. MaxSid, S # {}
    PROVE  (\E n \in S : \A x \in S : n <= x) /\ (\E n \in S : \A x \in S : n >= x)
<1> DEFINE L == {p \in Nat \X Nat : p[1] < p[2]}
           D == {MaxSid - x : x \in S}
<1>0. MaxSid \in Nat
  BY StoreAssumption
<1>1. IsWellFoundedOn(L, Nat)
  BY NatLessThanWellFounded DEF OpToRel
<1>2. S \subseteq Nat /\ D \subseteq Nat /\ D # {}
  <2>1. \A x \in S : x \in Nat /\ MaxSid - x \in Nat
    BY <1>0
  <2> QED BY <2>1
<1>3. \E k \in S : \A y \in S : ~(<<y, k>> \in L)
  <2> HIDE DEF L
  <2> QED BY <1>1, <1>2, WFMin, Zenon
<1>4. \E k \in D : \A y \in D : ~(<<y, k>> \in L)
  <2> HIDE DEF L, D
  <2> QED BY <1>1, <1>2, WFMin, Zenon
<1>5. \E n \in S : \A x \in S : n <= x
  <2>1. PICK k \in S : \A y \in S : ~(<<y, k>> \in L)
    BY <1>3
  <2>2. ASSUME NEW y \in S PROVE k <= y
    <3>1. k \in Nat /\ y \in Nat
      BY <1>2
    <3>2. ~(y < k)
      BY <2>1, <3>1
    <3> QED BY <3>1, <3>2
  <2> QED BY <2>2
<1>6. \E n \in S : \A x \in S : n >= x
  <2>1. PICK k \in D : \A y \in D : ~(<<y, k>> \in L)
    BY <1>4
  <2>2. PICK n \in S : k = MaxSid - n
    OBVIOUS
  <2>3. ASSUME NEW x \in S PROVE n >= x
    <3>1. MaxSid - x \in D /\ MaxSid - x \in Nat /\ k \in Nat /\ n \in Nat /\ x \in Nat
      BY <1>0, <1>2
    <3>2. ~(MaxSid - x < k)
      BY <2>1, <3>1
    <3> QED BY <1>0, <2>2, <3>1, <3>2
  <2> QED BY <2>3
<1> QED BY <1>5, <1>6

(* The range a merge records. *)
LEMMA RangeType ==
    ASSUME NEW main, main \subseteq Rows, NEW old \in [lo : 0 .. MaxSid, hi : 0 .. MaxSid]
    PROVE  RangeOf(main, old) \in [lo : 0 .. MaxSid, hi : 0 .. MaxSid]
<1>1. CASE main = {}
  BY <1>1 DEF RangeOf
<1>2. CASE main # {}
  <2> DEFINE S == {r.i : r \in main}
  <2>0. MaxSid \in Nat
    BY StoreAssumption
  <2>1. S \subseteq 0 .. MaxSid /\ S # {}
    BY <1>2, <2>0, RowFacts DEF Sids
  <2>2. PICK a \in S : \A x \in S : a <= x
    <3> HIDE DEF S
    <3> QED BY <2>1, Extremes
  <2>3. PICK b \in S : \A x \in S : b >= x
    <3> HIDE DEF S
    <3> QED BY <2>1, Extremes
  <2>4. (CHOOSE n \in S : \A r \in main : n <= r.i) \in S
    BY <2>2
  <2>5. (CHOOSE n \in S : \A r \in main : n >= r.i) \in S
    BY <2>3
  <2>6. RangeOf(main, old) = [lo |-> CHOOSE n \in S : \A r \in main : n <= r.i,
                              hi |-> CHOOSE n \in S : \A r \in main : n >= r.i]
    BY <1>2 DEF RangeOf
  <2>7. PICK lo \in S, hi \in S : RangeOf(main, old) = [lo |-> lo, hi |-> hi]
    BY <2>4, <2>5, <2>6
  <2> HIDE DEF S
  <2> QED BY <2>1, <2>7
<1> QED BY <1>1, <1>2

(* A merge leaves a main table and nothing else. *)
LEMMA MergedSound ==
    ASSUME NEW P, Sound(P), P.dedicated, NEW dedup
    PROVE  /\ Sound(Merged(P, dedup)) /\ Counted(Merged(P, dedup)) /\ Held(Merged(P, dedup)) \subseteq Held(P)
           /\ Merged(P, dedup).dedicated /\ Merged(P, dedup).rare = P.rare /\ Merged(P, dedup).delta = {}
           /\ Merged(P, dedup).tombs = {} /\ Merged(P, dedup).main = MainNew(P.main, P.delta, P.tombs, dedup)
<1> DEFINE new == MainNew(P.main, P.delta, P.tombs, dedup)
           M   == Merged(P, dedup)
<1>1. new \subseteq P.main \cup P.delta
  BY MainNewSubset
<1>2. new \in SUBSET Rows /\ P.range \in [lo : 0 .. MaxSid, hi : 0 .. MaxSid]
  BY <1>1 DEF Sound, PartRec
<1>3. Cardinality(new) \in Nat /\ RangeOf(new, P.range) \in [lo : 0 .. MaxSid, hi : 0 .. MaxSid]
  BY <1>2, TableSize, RangeType
<1>4. M = [P EXCEPT !.main = new, !.delta = {}, !.tombs = {}, !.skip = TRUE, !.tombCount = 0,
                    !.count = Cardinality(new), !.range = RangeOf(new, P.range)]
  BY DEF Merged
<1> HIDE DEF new, M
<1>5. M \in PartRec
  BY <1>2, <1>3, <1>4 DEF Sound, PartRec
<1>6. /\ M.main = new /\ M.delta = {} /\ M.tombs = {} /\ M.tombCount = 0 /\ M.rare = P.rare
      /\ M.dedicated = P.dedicated
  BY <1>4 DEF Sound, PartRec
<1>7. Sound(M) /\ Counted(M) /\ Held(M) \subseteq Held(P)
  BY <1>1, <1>5, <1>6 DEF Sound, Held, Counted
<1> QED BY <1>6, <1>7 DEF M, new

-----------------------------------------------------------------------------
(* The whole store. *)

(* A step that gives new identifiers to the rows N it adds to one           *)
(* predicate, and drops or moves others within theirs.                      *)
LEMMA GrowStep ==
    ASSUME SInv, Scalars', seq <= seq', part' \in [Preds -> PartRec], NEW p, NEW N, N \subseteq Rows,
           \A r \in N : seq < r.i /\ r.i <= seq',
           \A r, x \in N : r.i = x.i => r = x,
           \A y \in Preds : /\ Sound(part'[y]) /\ (y \notin silent' => Counted(part'[y]))
                            /\ Held(part'[y]) \subseteq Held(part[y]) \cup (IF y = p THEN N ELSE {})
    PROVE  SInv'
<1>1. seq \in Nat /\ seq' \in Nat
  BY DEF SInv, Scalars
<1>2. Parts'
  BY DEF Parts
<1>3. ASSUME NEW y \in Preds, NEW r \in Held(part[y])
      PROVE  r \in Rows /\ r.i \in Nat /\ r.i <= seq /\ r.i <= seq'
  <2>1. r \in Rows /\ r.i <= seq
    BY DEF SInv, Parts, PartRec, Held, UniqueSids
  <2>2. r.i \in Nat
    BY <2>1, RowFacts DEF Sids
  <2> QED BY <1>1, <2>1, <2>2
<1>4. ASSUME NEW r \in N PROVE r.i \in Nat /\ ~(r.i <= seq)
  <2>1. r.i \in Nat
    BY RowFacts DEF Sids
  <2> QED BY <1>1, <2>1
<1>5. \A y \in Preds : \A r \in Held(part'[y]) : r.i <= seq'
  BY <1>3
<1>6. ASSUME NEW p1 \in Preds, NEW p2 \in Preds, NEW r \in Held(part'[p1]), NEW x \in Held(part'[p2]), r.i = x.i
      PROVE  p1 = p2 /\ r = x
  <2>1. CASE r \in Held(part[p1]) /\ x \in Held(part[p2])
    BY <1>6, <2>1 DEF SInv, UniqueSids
  <2>2. CASE r \notin Held(part[p1]) /\ x \notin Held(part[p2])
    BY <1>6, <2>2
  <2>3. CASE r \in Held(part[p1]) /\ x \notin Held(part[p2])
    BY <1>3, <1>4, <1>6, <2>3
  <2>4. CASE r \notin Held(part[p1]) /\ x \in Held(part[p2])
    BY <1>3, <1>4, <1>6, <2>4
  <2> QED BY <2>1, <2>2, <2>3, <2>4
<1> QED BY <1>2, <1>5, <1>6 DEF SInv, UniqueSids

(* A step that adds no statement. *)
LEMMA ShrinkStep ==
    ASSUME SInv, Scalars', seq <= seq', part' \in [Preds -> PartRec],
           \A y \in Preds : /\ Sound(part'[y]) /\ (y \notin silent' => Counted(part'[y]))
                            /\ Held(part'[y]) \subseteq Held(part[y])
    PROVE  SInv'
<1> DEFINE N == {}
<1>1. N \subseteq Rows /\ (\A r \in N : seq < r.i /\ r.i <= seq') /\ (\A r, x \in N : r.i = x.i => r = x)
  OBVIOUS
<1>2. \A y \in Preds : /\ Sound(part'[y]) /\ (y \notin silent' => Counted(part'[y]))
                       /\ Held(part'[y]) \subseteq Held(part[y]) \cup (IF y = 0 THEN N ELSE {})
  OBVIOUS
<1> HIDE DEF N
<1> QED BY <1>1, <1>2, GrowStep

(* What is known of the parts. *)
LEMMA PartFacts ==
    ASSUME SInv
    PROVE  /\ part \in [Preds -> PartRec] /\ seq \in Nat /\ MaxSid \in Nat /\ seq <= MaxSid
           /\ ret \in Nat /\ silent \subseteq Preds
           /\ \A p \in Preds : Sound(part[p]) /\ part[p] \in PartRec /\ (p \notin silent => Counted(part[p]))
BY StoreAssumption DEF SInv, Scalars, Parts, Sound

(* One predicate's tables change. *)
LEMMA ChangeOne ==
    ASSUME SInv, NEW p \in Preds, NEW Q, Q \in PartRec, part' = [part EXCEPT ![p] = Q]
    PROVE  part' \in [Preds -> PartRec] /\ part'[p] = Q /\ \A y \in Preds \ {p} : part'[y] = part[y]
BY PartFacts

(* insert_encoded_triple. *)
LEMMA InsertEncodedStep ==
    ASSUME SInv, NEW p \in Preds, NEW q \in Quads, InsertEncoded(p, q)
    PROVE  SInv'
<1> DEFINE Q == Inserted(part[p], q, seq + 1)
           N == {[q |-> q, i |-> seq + 1]}
<1>1. seq \in Nat /\ seq + 1 \in Sids /\ seq' = seq + 1 /\ ret' = 1 /\ silent' = silent
  BY PartFacts DEF InsertEncoded, Sids
<1>2. /\ Sound(Q) /\ Held(Q) \subseteq Held(part[p]) \cup N /\ (Counted(part[p]) => Counted(Q))
  BY <1>1, PartFacts, InsertedSound
<1>3. part' = [part EXCEPT ![p] = Q] /\ Q \in PartRec
  BY <1>2 DEF InsertEncoded, Sound
<1>4. N \subseteq Rows /\ (\A r \in N : r.i = seq + 1) /\ \A r, x \in N : r = x
  BY <1>1, RowFacts
<1> HIDE DEF Q, N
<1>5. part' \in [Preds -> PartRec] /\ part'[p] = Q /\ \A y \in Preds \ {p} : part'[y] = part[y]
  BY <1>3, ChangeOne
<1>6. Scalars' /\ seq <= seq'
  BY <1>1, PartFacts DEF Scalars, Sids
<1>7. \A y \in Preds : /\ Sound(part'[y]) /\ (y \notin silent' => Counted(part'[y]))
                       /\ Held(part'[y]) \subseteq Held(part[y]) \cup (IF y = p THEN N ELSE {})
  BY <1>1, <1>2, <1>5, PartFacts
<1>8. \A r \in N : seq < r.i /\ r.i <= seq'
  BY <1>1, <1>4
<1> QED BY <1>4, <1>5, <1>6, <1>7, <1>8, GrowStep

(* insert_triple, with the promotion in the same transaction. *)
LEMMA InsertTripleStep ==
    ASSUME SInv, NEW p \in Preds, NEW q \in Quads, InsertTriple(p, q)
    PROVE  SInv'
<1> DEFINE I == Inserted(part[p], q, seq + 1)
           Q == IF ~part[p].dedicated /\ I.count >= Threshold THEN Promoted(I) ELSE I
           N == {[q |-> q, i |-> seq + 1]}
<1>1. seq \in Nat /\ seq + 1 \in Sids /\ seq' = seq + 1 /\ ret' = 1 /\ silent' = silent
  BY PartFacts DEF InsertTriple, Sids
<1>2. /\ Sound(I) /\ Held(I) \subseteq Held(part[p]) \cup N /\ (Counted(part[p]) => Counted(I))
  BY <1>1, PartFacts, InsertedSound
<1>3. part' = [part EXCEPT ![p] = Q]
  BY DEF InsertTriple
<1>4. N \subseteq Rows /\ (\A r \in N : r.i = seq + 1) /\ \A r, x \in N : r = x
  BY <1>1, RowFacts
<1> HIDE DEF I, N
<1>5. /\ Sound(Q) /\ Held(Q) \subseteq Held(part[p]) \cup N /\ (Counted(part[p]) => Counted(Q)) /\ Q \in PartRec
  <2>1. Sound(Promoted(I)) /\ Held(Promoted(I)) \subseteq Held(I) /\ (Counted(I) => Counted(Promoted(I)))
    BY <1>2, PromotedSound
  <2>2. Q = I \/ Q = Promoted(I)
    OBVIOUS
  <2> HIDE DEF Q
  <2>3. Sound(Q) /\ Held(Q) \subseteq Held(I) /\ (Counted(I) => Counted(Q))
    BY <1>2, <2>1, <2>2
  <2> QED BY <1>2, <2>3 DEF Sound
<1> HIDE DEF Q
<1>6. part' \in [Preds -> PartRec] /\ part'[p] = Q /\ \A y \in Preds \ {p} : part'[y] = part[y]
  BY <1>3, <1>5, ChangeOne
<1>7. Scalars' /\ seq <= seq'
  BY <1>1, PartFacts DEF Scalars, Sids
<1>8. \A y \in Preds : /\ Sound(part'[y]) /\ (y \notin silent' => Counted(part'[y]))
                       /\ Held(part'[y]) \subseteq Held(part[y]) \cup (IF y = p THEN N ELSE {})
  BY <1>1, <1>5, <1>6, PartFacts
<1>9. \A r \in N : seq < r.i /\ r.i <= seq'
  BY <1>1, <1>4
<1> QED BY <1>4, <1>6, <1>7, <1>8, <1>9, GrowStep

(* promote_rare_predicates, on tables that are sound. *)
LEMMA RarePromotedSound ==
    ASSUME NEW parts, \A y \in Preds : Sound(parts[y])
    PROVE  /\ RarePromoted(parts) \in [Preds -> PartRec]
           /\ \A y \in Preds : /\ Sound(RarePromoted(parts)[y])
                               /\ Held(RarePromoted(parts)[y]) \subseteq Held(parts[y])
                               /\ Counted(parts[y]) => Counted(RarePromoted(parts)[y])
<1> DEFINE R == RarePromoted(parts)
<1>1. DOMAIN R = Preds /\ R = [y \in Preds |-> R[y]]
  BY DEF RarePromoted
<1>2. \A y \in Preds : R[y] = parts[y] \/ R[y] = Promoted(parts[y])
  BY DEF RarePromoted
<1> HIDE DEF R
<1>3. \A y \in Preds : /\ Sound(R[y]) /\ Held(R[y]) \subseteq Held(parts[y]) /\ (Counted(parts[y]) => Counted(R[y]))
  BY <1>2, PromotedSound
<1>4. R \in [Preds -> PartRec]
  BY <1>1, <1>3 DEF Sound
<1> QED BY <1>3, <1>4 DEF R

(* A bulk load: rows with fresh identifiers, then the promotions. *)
LEMMA BulkLoadStep ==
    ASSUME SInv, NEW p \in Preds, NEW quads \in SUBSET Quads, BulkLoad(p, quads)
    PROVE  SInv'
<1> DEFINE k == Cardinality(quads)
<1>1. IsFiniteSet(quads) /\ k \in Nat
  BY QuadsFinite, FS_Subset, FS_CardinalityType
<1>2. seq' = seq + k /\ seq + k <= MaxSid /\ ret' = k /\ silent' = silent
  BY DEF BulkLoad
<1>3. PICK sidOf \in [quads -> (seq + 1) .. (seq + k)] :
        /\ \A q, r \in quads : sidOf[q] = sidOf[r] => q = r
        /\ part' = RarePromoted([part EXCEPT ![p] = BatchInserted(part[p], quads, sidOf)])
  BY DEF BulkLoad
<1> HIDE DEF k
<1>4. (seq + 1) .. (seq + k) \subseteq Sids
  BY <1>1, <1>2, PartFacts DEF Sids
<1> DEFINE N == {[q |-> q, i |-> sidOf[q]] : q \in quads}
           B == BatchInserted(part[p], quads, sidOf)
           M == [part EXCEPT ![p] = B]
<1>5. sidOf \in [quads -> Sids]
  BY <1>3, <1>4
<1>6. Sound(B) /\ (Counted(part[p]) => Counted(B)) /\ Held(B) \subseteq Held(part[p]) \cup N
  BY <1>1, <1>5, PartFacts, BatchInsertedSound DEF k
<1>7. N \subseteq Rows /\ (\A r, x \in N : r.i = x.i => r = x) /\ \A r \in N : r.i \in (seq + 1) .. (seq + k)
  BY <1>3, <1>5, RowFacts
<1>8. part' = RarePromoted(M)
  BY <1>3
<1>9. M[p] = B /\ \A y \in Preds \ {p} : M[y] = part[y]
  BY PartFacts
<1> HIDE DEF N, B, M
<1>10. \A y \in Preds : /\ Sound(M[y]) /\ (y \notin silent => Counted(M[y]))
                        /\ Held(M[y]) \subseteq Held(part[y]) \cup (IF y = p THEN N ELSE {})
  BY <1>6, <1>9, PartFacts
<1>11. /\ part' \in [Preds -> PartRec]
       /\ \A y \in Preds : /\ Sound(part'[y]) /\ Held(part'[y]) \subseteq Held(M[y])
                           /\ Counted(M[y]) => Counted(part'[y])
  BY <1>8, <1>10, RarePromotedSound
<1>12. \A y \in Preds : /\ Sound(part'[y]) /\ (y \notin silent' => Counted(part'[y]))
                        /\ Held(part'[y]) \subseteq Held(part[y]) \cup (IF y = p THEN N ELSE {})
  <2> SUFFICES ASSUME NEW y \in Preds
               PROVE  /\ Sound(part'[y]) /\ (y \notin silent' => Counted(part'[y]))
                      /\ Held(part'[y]) \subseteq Held(part[y]) \cup (IF y = p THEN N ELSE {})
    OBVIOUS
  <2>1. Held(part'[y]) \subseteq Held(M[y]) /\ Held(M[y]) \subseteq Held(part[y]) \cup (IF y = p THEN N ELSE {})
    BY <1>10, <1>11
  <2> QED BY <1>2, <1>10, <1>11, <2>1
<1>13. Scalars' /\ seq <= seq'
  BY <1>1, <1>2, PartFacts DEF Scalars
<1>14. \A r \in N : seq < r.i /\ r.i <= seq'
  BY <1>1, <1>2, <1>7, PartFacts
<1> QED BY <1>7, <1>11, <1>12, <1>13, <1>14, GrowStep

(* promote_rare_predicates on its own. *)
LEMMA PromoteRareStep ==
    ASSUME SInv, PromoteRare
    PROVE  SInv'
<1>1. part' = RarePromoted(part) /\ UNCHANGED <<seq, silent>>
  BY DEF PromoteRare
<1>2. /\ part' \in [Preds -> PartRec]
      /\ \A y \in Preds : /\ Sound(part'[y]) /\ Held(part'[y]) \subseteq Held(part[y])
                          /\ Counted(part[y]) => Counted(part'[y])
  BY <1>1, PartFacts, RarePromotedSound
<1>3. ret' \in Nat
  <2>1. {p \in Preds : Cardinality(part[p].rare) >= Threshold} \in SUBSET Preds
    OBVIOUS
  <2>2. IsFiniteSet({p \in Preds : Cardinality(part[p].rare) >= Threshold})
    BY <2>1, StoreAssumption, FS_Subset
  <2> QED BY <2>2, FS_CardinalityType DEF PromoteRare
<1>4. Scalars' /\ seq <= seq'
  BY <1>1, <1>3, PartFacts DEF Scalars
<1>5. \A y \in Preds : /\ Sound(part'[y]) /\ (y \notin silent' => Counted(part'[y]))
                       /\ Held(part'[y]) \subseteq Held(part[y])
  BY <1>1, <1>2, PartFacts
<1> QED BY <1>2, <1>4, <1>5, ShrinkStep

(* A delete: what becomes of the tables of its predicate. *)
LEMMA DeleteEffect ==
    ASSUME SInv, NEW p \in Preds, NEW q \in Quads, DeleteTriple(p, q)
    PROVE  LET D == IF part[p].dedicated THEN DedicatedDeleted(part[p], q, seq + 1) ELSE part[p]
           IN  /\ Sound(D) /\ Held(D) \subseteq Held(part[p]) /\ (Counted(part[p]) => Counted(D))
               /\ part' = [part EXCEPT ![p] = RareDeleted(D, q)]
<1> DEFINE D == IF part[p].dedicated THEN DedicatedDeleted(part[p], q, seq + 1) ELSE part[p]
<1>1. part' = [part EXCEPT ![p] = RareDeleted(D, q)]
  BY DEF DeleteTriple
<1>2. part[p].dedicated /\ q \notin QuadsOf(part[p].delta) => seq + 1 \in Sids
  BY PartFacts DEF DeleteTriple, Sids
<1>3. CASE part[p].dedicated
  <2>1. D = DedicatedDeleted(part[p], q, seq + 1)
    BY <1>3
  <2> HIDE DEF D
  <2>2. Sound(D) /\ Held(D) \subseteq Held(part[p]) /\ (Counted(part[p]) => Counted(D))
    BY <1>2, <1>3, <2>1, PartFacts, DedicatedDeletedSound
  <2> QED BY <1>1, <2>2 DEF D
<1>4. CASE ~part[p].dedicated
  <2>1. D = part[p]
    BY <1>4
  <2> HIDE DEF D
  <2>2. Sound(D) /\ Held(D) \subseteq Held(part[p]) /\ (Counted(part[p]) => Counted(D))
    BY <2>1, PartFacts
  <2> QED BY <1>1, <2>2 DEF D
<1> QED BY <1>3, <1>4

(* delete_triple. *)
LEMMA DeleteTripleStep ==
    ASSUME SInv, NEW p \in Preds, NEW q \in Quads, DeleteTriple(p, q)
    PROVE  SInv'
<1> DEFINE D == IF part[p].dedicated THEN DedicatedDeleted(part[p], q, seq + 1) ELSE part[p]
           Q == RareDeleted(D, q)
<1>1. /\ Sound(D) /\ Held(D) \subseteq Held(part[p]) /\ (Counted(part[p]) => Counted(D))
      /\ part' = [part EXCEPT ![p] = Q]
  BY DeleteEffect
<1> HIDE DEF D
<1>2. Sound(Q) /\ Held(Q) \subseteq Held(D) /\ (Counted(D) => Counted(Q)) /\ Q \in PartRec
  BY <1>1, RareDeletedSound DEF Sound
<1> HIDE DEF Q
<1>3. part' \in [Preds -> PartRec] /\ part'[p] = Q /\ \A y \in Preds \ {p} : part'[y] = part[y]
  BY <1>1, <1>2, ChangeOne
<1>4. ret' \in Nat
  <2>1. /\ OfQuad(part[p].rare, q) \subseteq Rows /\ OfQuad(part[p].main, q) \subseteq Rows
    BY PartFacts DEF OfQuad, PartRec
  <2>2. Cardinality(OfQuad(part[p].rare, q)) \in Nat /\ Cardinality(OfQuad(part[p].main, q)) \in Nat
    BY <2>1, TableSize
  <2>3. DedicatedDeletedRows(part[p], q) \in Nat
    BY <2>2 DEF DedicatedDeletedRows
  <2> QED BY <2>2, <2>3 DEF DeleteTriple
<1>5. Scalars' /\ seq <= seq' /\ silent' = silent
  <2>1. (seq' = seq \/ (seq' = seq + 1 /\ seq < MaxSid)) /\ silent' = silent
    BY DEF DeleteTriple
  <2> QED BY <1>4, <2>1, PartFacts DEF Scalars
<1>6. \A y \in Preds : /\ Sound(part'[y]) /\ (y \notin silent' => Counted(part'[y]))
                       /\ Held(part'[y]) \subseteq Held(part[y])
  BY <1>1, <1>2, <1>3, <1>5, PartFacts
<1> QED BY <1>3, <1>5, <1>6, ShrinkStep

(* The rows a graph operation counts are finitely many. *)
LEMMA GraphRowsFinite ==
    ASSUME SInv, NEW g
    PROVE  Cardinality(GraphRows(g)) \in Nat
<1> DEFINE K == {"d", "m"}
           T == {<<x[1], x[2][1], x[2][2]>> : x \in Preds \X (K \X Rows)}
           f == [x \in Preds \X (K \X Rows) |-> <<x[1], x[2][1], x[2][2]>>]
<1>1. IsFiniteSet(K)
  <2>1. IsFiniteSet({"d"} \cup {"m"})
    BY FS_Singleton, FS_AddElement
  <2>2. K = {"d"} \cup {"m"}
    OBVIOUS
  <2> QED BY <2>1, <2>2
<1>2. IsFiniteSet(Preds \X (K \X Rows)) /\ IsFiniteSet(Preds \X Rows)
  <2> HIDE DEF K
  <2> QED BY <1>1, StoreAssumption, RowsFinite, FS_Product
<1>3. f \in Surjection(Preds \X (K \X Rows), T)
  BY DEF Surjection
<1>4. IsFiniteSet(T)
  <2> HIDE DEF T, f
  <2> QED BY <1>2, <1>3, FS_Surjection
<1>5. \A p \in Preds, r \in Rows : /\ <<p, r>> \in Preds \X Rows
                                   /\ <<p, "d", r>> \in T /\ <<p, "m", r>> \in T
  <2> SUFFICES ASSUME NEW p \in Preds, NEW r \in Rows
               PROVE  <<p, r>> \in Preds \X Rows /\ <<p, "d", r>> \in T /\ <<p, "m", r>> \in T
    OBVIOUS
  <2>1. <<p, <<"d", r>>>> \in Preds \X (K \X Rows) /\ <<p, <<"m", r>>>> \in Preds \X (K \X Rows)
    OBVIOUS
  <2> QED BY <2>1
<1> HIDE DEF T
<1>6. GraphRows(g) \subseteq (Preds \X Rows) \cup T
  <2>1. \A p \in Preds : /\ InGraph(part[p].rare, g) \subseteq Rows
                         /\ InGraph(part[p].delta, g) \subseteq Rows /\ InGraph(part[p].main, g) \subseteq Rows
    BY PartFacts DEF InGraph, PartRec
  <2> SUFFICES ASSUME NEW z \in GraphRows(g) PROVE z \in Preds \X Rows \/ z \in T
    OBVIOUS
  <2>2. PICK p \in Preds : \/ z \in {<<p, r>> : r \in InGraph(part[p].rare, g)}
                           \/ z \in {<<p, "d", r>> : r \in InGraph(part[p].delta, g)}
                           \/ z \in {<<p, "m", r>> : r \in InGraph(part[p].main, g)}
    BY Zenon DEF GraphRows
  <2>3. CASE z \in {<<p, r>> : r \in InGraph(part[p].rare, g)}
    BY <1>5, <2>1, <2>3
  <2>4. CASE z \in {<<p, "d", r>> : r \in InGraph(part[p].delta, g)}
    <3>1. PICK r \in InGraph(part[p].delta, g) : z = <<p, "d", r>>
      BY <2>4, Zenon
    <3>2. r \in Rows
      BY <2>1
    <3> QED BY <1>5, <3>1, <3>2, Zenon
  <2>5. CASE z \in {<<p, "m", r>> : r \in InGraph(part[p].main, g)}
    <3>1. PICK r \in InGraph(part[p].main, g) : z = <<p, "m", r>>
      BY <2>5, Zenon
    <3>2. r \in Rows
      BY <2>1
    <3> QED BY <1>5, <3>1, <3>2, Zenon
  <2> QED BY <2>2, <2>3, <2>4, <2>5
<1>7. IsFiniteSet((Preds \X Rows) \cup T)
  BY <1>2, <1>4, FS_Union
<1> QED BY <1>6, <1>7, FS_Subset, FS_CardinalityType

(* clear_graph_by_id: what becomes of the tables of each predicate. *)
LEMMA ClearEffect ==
    ASSUME SInv, NEW g \in Graphs, ClearGraph(g), NEW p \in Preds
    PROVE  LET C == IF part[p].dedicated THEN GraphClearedCounted(part[p], g, seq + 1) ELSE part[p]
           IN  /\ Sound(C) /\ Held(C) \subseteq Held(part[p]) /\ (Counted(part[p]) => Counted(C))
               /\ part'[p] = RareCleared(C, g)
<1> DEFINE C == IF part[p].dedicated THEN GraphClearedCounted(part[p], g, seq + 1) ELSE part[p]
<1>1. part'[p] = RareCleared(C, g)
  BY DEF ClearGraph
<1>2. part[p].dedicated /\ InGraph(part[p].main, g) # {} => seq + 1 \in Sids
  BY PartFacts DEF ClearGraph, NeedsTombs, Sids
<1>3. CASE part[p].dedicated
  <2>1. C = GraphClearedCounted(part[p], g, seq + 1)
    BY <1>3
  <2> HIDE DEF C
  <2>2. Sound(C) /\ Held(C) \subseteq Held(part[p]) /\ (Counted(part[p]) => Counted(C))
    BY <1>2, <1>3, <2>1, PartFacts, GraphClearedCountedSound
  <2> QED BY <1>1, <2>2 DEF C
<1>4. CASE ~part[p].dedicated
  <2>1. C = part[p]
    BY <1>4
  <2> HIDE DEF C
  <2>2. Sound(C) /\ Held(C) \subseteq Held(part[p]) /\ (Counted(part[p]) => Counted(C))
    BY <2>1, PartFacts
  <2> QED BY <1>1, <2>2 DEF C
<1> QED BY <1>3, <1>4

(* clear_graph_by_id. *)
LEMMA ClearGraphStep ==
    ASSUME SInv, NEW g \in Graphs, ClearGraph(g)
    PROVE  SInv'
<1>1. ASSUME NEW p \in Preds
      PROVE  /\ Sound(part'[p]) /\ Held(part'[p]) \subseteq Held(part[p]) /\ (Counted(part[p]) => Counted(part'[p]))
             /\ part'[p] \in PartRec
  <2> DEFINE C == IF part[p].dedicated THEN GraphClearedCounted(part[p], g, seq + 1) ELSE part[p]
  <2>1. /\ Sound(C) /\ Held(C) \subseteq Held(part[p]) /\ (Counted(part[p]) => Counted(C))
        /\ part'[p] = RareCleared(C, g)
    BY ClearEffect
  <2> HIDE DEF C
  <2>2. Sound(part'[p]) /\ Held(part'[p]) \subseteq Held(C) /\ (Counted(C) => Counted(part'[p]))
    BY <2>1, RareClearedSound
  <2> QED BY <2>1, <2>2 DEF Sound
<1>2. part' \in [Preds -> PartRec]
  <2>1. part' = [p \in Preds |-> part'[p]]
    BY DEF ClearGraph
  <2> QED BY <1>1, <2>1
<1>3. Scalars' /\ seq <= seq' /\ silent' = silent
  <2>1. (seq' = seq \/ (seq' = seq + 1 /\ seq < MaxSid)) /\ silent' = silent /\ ret' = Cardinality(GraphRows(g))
    BY DEF ClearGraph
  <2> QED BY <2>1, PartFacts, GraphRowsFinite DEF Scalars
<1>4. \A y \in Preds : /\ Sound(part'[y]) /\ (y \notin silent' => Counted(part'[y]))
                       /\ Held(part'[y]) \subseteq Held(part[y])
  BY <1>1, <1>3, PartFacts
<1> QED BY <1>2, <1>3, <1>4, ShrinkStep

(* drop_graph: a predicate whose tombstones go uncounted is silent. *)
LEMMA DropGraphStep ==
    ASSUME SInv, NEW g \in Graphs, DropGraph(g)
    PROVE  SInv'
<1>0. silent' = silent \cup {p \in Preds : part[p].dedicated /\ InGraph(part[p].main, g) # {}}
  BY DEF DropGraph
<1>1. ASSUME NEW p \in Preds
      PROVE  /\ Sound(part'[p]) /\ Held(part'[p]) \subseteq Held(part[p]) /\ (p \notin silent' => Counted(part'[p]))
             /\ part'[p] \in PartRec
  <2> DEFINE C == IF part[p].dedicated THEN GraphCleared(part[p], g, seq + 1) ELSE part[p]
  <2>1. part'[p] = RareCleared(C, g)
    BY DEF DropGraph
  <2>2. part[p].dedicated /\ InGraph(part[p].main, g) # {} => seq + 1 \in Sids
    BY PartFacts DEF DropGraph, NeedsTombs, Sids
  <2>3. Sound(part[p]) /\ (p \notin silent' => Counted(part[p]))
    BY <1>0, PartFacts
  <2>4. Sound(C) /\ Held(C) \subseteq Held(part[p]) /\ (p \notin silent' => Counted(C))
    <3>1. CASE part[p].dedicated
      <4>1. C = GraphCleared(part[p], g, seq + 1)
        BY <3>1
      <4> HIDE DEF C
      <4>2. Sound(C) /\ Held(C) \subseteq Held(part[p]) /\ (Counted(part[p]) /\ InGraph(part[p].main, g) = {} => Counted(C))
        BY <2>2, <2>3, <3>1, <4>1, GraphClearedSound
      <4> QED BY <1>0, <2>3, <3>1, <4>2
    <3>2. CASE ~part[p].dedicated
      <4>1. C = part[p]
        BY <3>2
      <4> HIDE DEF C
      <4> QED BY <2>3, <4>1
    <3> QED BY <3>1, <3>2
  <2> HIDE DEF C
  <2>5. Sound(part'[p]) /\ Held(part'[p]) \subseteq Held(C) /\ (Counted(C) => Counted(part'[p]))
    BY <2>1, <2>4, RareClearedSound
  <2> QED BY <2>4, <2>5 DEF Sound
<1>2. part' \in [Preds -> PartRec]
  <2>1. part' = [p \in Preds |-> part'[p]]
    BY DEF DropGraph
  <2> QED BY <1>1, <2>1
<1>3. Scalars' /\ seq <= seq'
  <2>1. (seq' = seq \/ (seq' = seq + 1 /\ seq < MaxSid)) /\ ret' = Cardinality(GraphRows(g))
    BY DEF DropGraph
  <2> QED BY <1>0, <2>1, PartFacts, GraphRowsFinite DEF Scalars
<1> QED BY <1>1, <1>2, <1>3, ShrinkStep

(* deduplicate_predicate. *)
LEMMA DeduplicateStep ==
    ASSUME SInv, NEW p \in Preds, Deduplicate(p)
    PROVE  SInv'
<1> DEFINE tomb == part[p].dedicated /\ Duplicated(part[p].main) # {}
           Q    == Deduplicated(part[p], seq + 1)
<1>1. /\ tomb => seq < MaxSid
      /\ seq' = IF tomb THEN seq + 1 ELSE seq
      /\ part' = [part EXCEPT ![p] = Q]
      /\ ret' = IF tomb THEN Cardinality(Duplicated(part[p].main)) ELSE 0
      /\ silent' = IF tomb THEN silent \cup {p} ELSE silent
  BY DEF Deduplicate
<1>2. tomb => seq + 1 \in Sids
  BY <1>1, PartFacts DEF Sids
<1>3. Sound(Q) /\ Held(Q) \subseteq Held(part[p]) /\ (Counted(part[p]) /\ ~tomb => Counted(Q))
  BY <1>2, PartFacts, DeduplicatedSound
<1>4. Cardinality(Duplicated(part[p].main)) \in Nat
  <2>1. Duplicated(part[p].main) \in SUBSET Quads
    BY PartFacts, RowFacts DEF Duplicated, QuadsOf, PartRec
  <2> QED BY <2>1, QuadsFinite, FS_Subset, FS_CardinalityType
<1> HIDE DEF tomb, Q
<1>5. part' \in [Preds -> PartRec] /\ part'[p] = Q /\ \A y \in Preds \ {p} : part'[y] = part[y]
  BY <1>1, <1>3, ChangeOne DEF Sound
<1>6. Scalars' /\ seq <= seq'
  BY <1>1, <1>4, PartFacts DEF Scalars
<1>7. \A y \in Preds : /\ Sound(part'[y]) /\ (y \notin silent' => Counted(part'[y]))
                       /\ Held(part'[y]) \subseteq Held(part[y])
  BY <1>1, <1>3, <1>5, PartFacts
<1> QED BY <1>5, <1>6, <1>7, ShrinkStep

(* merge_predicate. *)
LEMMA MergePredicateStep ==
    ASSUME SInv, NEW p \in Preds, MergePredicate(p)
    PROVE  SInv'
<1>1. PICK dedup \in DedupOnMerge : part' = [part EXCEPT ![p] = Merged(part[p], dedup)]
  BY DEF MergePredicate
<1> DEFINE Q == Merged(part[p], dedup)
<1>2. Sound(Q) /\ Counted(Q) /\ Held(Q) \subseteq Held(part[p])
  BY PartFacts, MergedSound DEF MergePredicate
<1>3. silent' = silent \ {p} /\ seq' = seq /\ ret' = Cardinality(part'[p].main)
  BY DEF MergePredicate
<1>4. part' = [part EXCEPT ![p] = Q]
  BY <1>1
<1> HIDE DEF Q
<1>5. part' \in [Preds -> PartRec] /\ part'[p] = Q /\ \A y \in Preds \ {p} : part'[y] = part[y]
  BY <1>2, <1>4, ChangeOne DEF Sound
<1>6. ret' \in Nat
  <2>1. part'[p].main \subseteq Rows
    BY <1>5 DEF PartRec
  <2> QED BY <1>3, <2>1, TableSize
<1>7. Scalars' /\ seq <= seq'
  BY <1>3, <1>6, PartFacts DEF Scalars
<1>8. \A y \in Preds : /\ Sound(part'[y]) /\ (y \notin silent' => Counted(part'[y]))
                       /\ Held(part'[y]) \subseteq Held(part[y])
  BY <1>2, <1>3, <1>5, PartFacts
<1> QED BY <1>5, <1>7, <1>8, ShrinkStep

(* compact. *)
LEMMA CompactStep ==
    ASSUME SInv, Compact
    PROVE  SInv'
<1>1. PICK dedup \in DedupOnMerge :
        part' = [p \in Preds |-> IF p \in MergeDue THEN Merged(part[p], dedup) ELSE part[p]]
  BY DEF Compact
<1>2. silent' = silent \ MergeDue /\ seq' = seq /\ ret' = Cardinality(UNION {{p} \X part'[p].main : p \in MergeDue})
  BY DEF Compact
<1>3. ASSUME NEW p \in Preds
      PROVE  /\ Sound(part'[p]) /\ (p \notin silent' => Counted(part'[p])) /\ Held(part'[p]) \subseteq Held(part[p])
             /\ part'[p] \in PartRec
  <2>1. CASE p \in MergeDue
    <3>1. part'[p] = Merged(part[p], dedup) /\ part[p].dedicated
      BY <1>1, <2>1 DEF MergeDue
    <3>2. Sound(part'[p]) /\ Counted(part'[p]) /\ Held(part'[p]) \subseteq Held(part[p])
      BY <3>1, PartFacts, MergedSound
    <3> QED BY <3>2 DEF Sound
  <2>2. CASE p \notin MergeDue
    <3>1. part'[p] = part[p]
      BY <1>1, <2>2
    <3> QED BY <1>2, <2>2, <3>1, PartFacts
  <2> QED BY <2>1, <2>2
<1>4. part' \in [Preds -> PartRec]
  <2>1. part' = [p \in Preds |-> part'[p]]
    BY <1>1
  <2> QED BY <1>3, <2>1
<1>5. ret' \in Nat
  <2> DEFINE U == UNION {{p} \X part'[p].main : p \in MergeDue}
  <2>1. \A p \in MergeDue : p \in Preds /\ part'[p].main \subseteq Rows
    BY <1>4 DEF MergeDue, PartRec
  <2>2. U \subseteq Preds \X Rows
    BY <2>1
  <2>3. IsFiniteSet(Preds \X Rows)
    BY StoreAssumption, RowsFinite, FS_Product
  <2>4. ret' = Cardinality(U)
    BY <1>2
  <2> HIDE DEF U
  <2> QED BY <2>2, <2>3, <2>4, FS_Subset, FS_CardinalityType
<1>6. Scalars' /\ seq <= seq'
  BY <1>2, <1>5, PartFacts DEF Scalars
<1> QED BY <1>3, <1>4, <1>6, ShrinkStep

(* The store is empty at first. *)
LEMMA InitInv == Init => SInv
<1> SUFFICES ASSUME Init PROVE SInv
  OBVIOUS
<1>0. MaxSid \in Nat
  BY StoreAssumption
<1> DEFINE E == [dedicated |-> FALSE, rare |-> {}, delta |-> {}, main |-> {}, tombs |-> {}, skip |-> FALSE,
                 tombCount |-> 0, count |-> 0, range |-> NoRange]
<1>1. NoRange \in [lo : 0 .. MaxSid, hi : 0 .. MaxSid]
  BY <1>0 DEF NoRange
<1>2. E \in PartRec
  BY <1>1 DEF PartRec
<1>3. Sound(E) /\ Counted(E) /\ Held(E) = {}
  BY <1>2 DEF Sound, Counted, Held
<1>4. part = [p \in Preds |-> E]
  BY DEF Init
<1> HIDE DEF E
<1>5. Parts /\ \A p \in Preds : Held(part[p]) = {}
  BY <1>2, <1>3, <1>4 DEF Parts
<1>6. UniqueSids
  BY <1>5 DEF UniqueSids
<1>7. Scalars
  BY <1>0 DEF Init, Scalars
<1> QED BY <1>5, <1>6, <1>7 DEF SInv

(* Every call keeps the invariant. *)
LEMMA NextInv ==
    ASSUME SInv, [Next]_vars
    PROVE  SInv'
<1>1. CASE \E p \in Preds, q \in Quads : InsertEncoded(p, q) \/ InsertTriple(p, q) \/ DeleteTriple(p, q)
  BY <1>1, InsertEncodedStep, InsertTripleStep, DeleteTripleStep
<1>2. CASE \E p \in Preds, quads \in SUBSET Quads : BulkLoad(p, quads)
  BY <1>2, BulkLoadStep
<1>3. CASE PromoteRare
  BY <1>3, PromoteRareStep
<1>4. CASE \E g \in Graphs : ClearGraph(g) \/ DropGraph(g)
  BY <1>4, ClearGraphStep, DropGraphStep
<1>5. CASE \E p \in Preds : MergePredicate(p) \/ Deduplicate(p)
  BY <1>5, MergePredicateStep, DeduplicateStep
<1>6. CASE Compact
  BY <1>6, CompactStep
<1>7. CASE UNCHANGED vars
  BY <1>7 DEF vars, SInv, Scalars, Parts, UniqueSids
<1> QED BY <1>1, <1>2, <1>3, <1>4, <1>5, <1>6, <1>7 DEF Next

(* The invariant is inductive. *)
THEOREM StoreInvariant == Spec => []SInv
<1>1. SInv /\ [Next]_vars => SInv'
  BY NextInv
<1> QED BY InitInv, <1>1, PTL DEF Spec

(* Every call leaves tables, counts and ranges of their types; triple_count *)
(* and tombstone_count never go below nought.                               *)
THEOREM StoreTyped == Spec => []TypeOK
<1>1. SInv => TypeOK
  <2> SUFFICES ASSUME SInv PROVE TypeOK
    OBVIOUS
  <2>1. \A p \in Preds : part[p] \in PartRec
    BY PartFacts
  <2> QED BY <2>1, PartFacts DEF TypeOK, SInv, Scalars, PartRec, Rows
<1> QED BY <1>1, StoreInvariant, PTL

(* A promoted predicate never has a row in vp_rare, where SPARQL would not  *)
(* look (promote_predicate_impl, insert_encoded_triple,                     *)
(* batch_insert_encoded).                                                   *)
THEOREM NothingIsStranded == Spec => []NothingStranded
<1>1. SInv => NothingStranded
  BY DEF SInv, Parts, Sound, NothingStranded
<1> QED BY <1>1, StoreInvariant, PTL

(* A view consults the tombstones whenever there are some, but for those    *)
(* of drop_graph and deduplicate_predicate.                                 *)
THEOREM TombstonesAreCounted == Spec => []TombstonesCounted
<1>1. SInv => TombstonesCounted
  BY DEF SInv, Parts, Sound, Counted, TombstonesCounted
<1> QED BY <1>1, StoreInvariant, PTL

-----------------------------------------------------------------------------
(* The lookup by statement identifier. *)

(* What a search for an identifier finds. *)
LEMMA FetchFacts ==
    ASSUME NEW rowsOf, NEW preds, NEW sid, NEW z
    PROVE  z \in Fetch(rowsOf, preds, sid) <=> \E p \in preds : \E r \in rowsOf[p] : r.i = sid /\ z = <<p, r.q>>
<1>1. ASSUME z \in Fetch(rowsOf, preds, sid)
      PROVE  \E p \in preds : \E r \in rowsOf[p] : r.i = sid /\ z = <<p, r.q>>
  BY <1>1, Zenon DEF Fetch
<1>2. ASSUME NEW p \in preds, NEW r \in rowsOf[p], r.i = sid, z = <<p, r.q>>
      PROVE  z \in Fetch(rowsOf, preds, sid)
  <2>1. r \in {x \in rowsOf[p] : x.i = sid}
    BY <1>2
  <2>2. z \in {<<p, x.q>> : x \in {y \in rowsOf[p] : y.i = sid}}
    BY <1>2, <2>1, Zenon
  <2> QED BY <2>2, Zenon DEF Fetch
<1> QED BY <1>1, <1>2

(* Rows of a view are rows of the tables. *)
LEMMA ViewHeld ==
    ASSUME NEW P
    PROVE  ViewOf(P) \cup P.rare \subseteq Held(P)
BY DEF ViewOf, ViewRows, ViewSource, OldestPerQuad, Unmasked, Held

(* get_statement_by_sid answers with the statement that has the identifier, *)
(* and there is at most one: the catalog's ranges may overlap and be stale, *)
(* for a hit is the only one there could be and a miss is searched for.     *)
THEOREM LookupIsExact == Spec => []LookupExact
<1>1. SInv => LookupExact
  <2> SUFFICES ASSUME SInv, NEW sid \in Sids
               PROVE  LET owners == UNION {{<<p, r.q>> : r \in {x \in ViewOf(part[p]) \cup part[p].rare : x.i = sid}}
                                           : p \in Preds}
                      IN  GetStatementBySid(sid) = owners /\ Cardinality(owners) <= 1
    BY DEF LookupExact
  <2> DEFINE all    == [p \in Preds |-> ViewOf(part[p]) \cup part[p].rare]
             views  == [p \in Preds |-> ViewOf(part[p])]
             rares  == [p \in Preds |-> part[p].rare]
             owners == UNION {{<<p, r.q>> : r \in {x \in ViewOf(part[p]) \cup part[p].rare : x.i = sid}} : p \in Preds}
             hit    == Fetch(views, CatalogPreds(sid), sid)
             scan   == Fetch(views, Preds, sid)
             rest   == Fetch(rares, Preds, sid)
  <2>1. owners = Fetch(all, Preds, sid)
    BY DEF Fetch
  <2>2. GetStatementBySid(sid) = IF hit # {} THEN hit ELSE IF scan # {} THEN scan ELSE rest
    BY DEF GetStatementBySid
  <2>3. CatalogPreds(sid) \subseteq Preds
    BY DEF CatalogPreds
  <2>4. \A p \in Preds : all[p] = views[p] \cup rares[p] /\ all[p] \subseteq Held(part[p])
    BY ViewHeld
  <2> HIDE DEF all, views, rares
  <2>5. hit \subseteq scan
    BY <2>3, FetchFacts
  <2>6. \A z : z \in Fetch(all, Preds, sid) <=> z \in scan \/ z \in rest
    BY <2>4, FetchFacts
  <2>7. \A a, b \in Fetch(all, Preds, sid) : a = b
    <3> SUFFICES ASSUME NEW a \in Fetch(all, Preds, sid), NEW b \in Fetch(all, Preds, sid) PROVE a = b
      OBVIOUS
    <3>1. PICK p1 \in Preds : \E r \in all[p1] : r.i = sid /\ a = <<p1, r.q>>
      BY FetchFacts
    <3>2. PICK r1 \in all[p1] : r1.i = sid /\ a = <<p1, r1.q>>
      BY <3>1
    <3>3. PICK p2 \in Preds : \E r \in all[p2] : r.i = sid /\ b = <<p2, r.q>>
      BY FetchFacts
    <3>4. PICK r2 \in all[p2] : r2.i = sid /\ b = <<p2, r2.q>>
      BY <3>3
    <3>5. p1 = p2 /\ r1 = r2
      BY <2>4, <3>2, <3>4 DEF SInv, UniqueSids
    <3> QED BY <3>2, <3>4, <3>5
  <2> HIDE DEF owners, hit, scan, rest
  <2>8. \A z : z \in owners <=> z \in scan \/ z \in rest
    BY <2>1, <2>6
  <2>9. \A a, b \in owners : a = b
    BY <2>1, <2>7
  <2>10. GetStatementBySid(sid) = owners
    BY <2>2, <2>5, <2>8, <2>9
  <2>11. Cardinality(owners) <= 1
    <3>1. CASE owners = {}
      <4>1. Cardinality(owners) = 0
        BY <3>1, FS_EmptySet
      <4> QED BY <4>1
    <3>2. CASE owners # {}
      <4>1. PICK a : owners = {a}
        BY <2>9, <3>2
      <4>2. Cardinality(owners) = 1
        BY <4>1, FS_Singleton
      <4> QED BY <4>2
    <3> QED BY <3>1, <3>2
  <2> QED BY <2>10, <2>11 DEF owners
<1> QED BY <1>1, StoreInvariant, PTL

-----------------------------------------------------------------------------
(* What readers see. *)

(* Quad by quad: delta, main but for the tombstones consulted, and vp_rare. *)
Seen(P) ==
    QuadsOf(P.rare) \cup
    (IF P.dedicated
       THEN QuadsOf(P.delta) \cup (IF P.skip THEN QuadsOf(P.main) ELSE QuadsOf(P.main) \ QuadsOf(P.tombs))
       ELSE {})

(* That is what Readable says of sound tables. *)
LEMMA ReadableSeen ==
    ASSUME NEW P, Sound(P)
    PROVE  QuadsOf(ViewOf(P)) \cup QuadsOf(P.rare) = Seen(P)
<1>1. P.main \subseteq Row(Quads, Nat) /\ P.delta \subseteq Row(Quads, Nat)
  BY RowFacts DEF Sound, PartRec
<1>2. CASE P.dedicated
  <2>1. QuadsOf(ViewOf(P)) = VisibleQuads(P.main, P.delta, P.tombs, P.skip)
    BY <1>2 DEF ViewOf, VisibleQuads
  <2>2. VisibleQuads(P.main, P.delta, P.tombs, P.skip) =
          QuadsOf(P.delta) \cup (IF P.skip THEN QuadsOf(P.main) ELSE QuadsOf(P.main) \ QuadsOf(P.tombs))
    BY <1>1, VisibleCharacterised
  <2> QED BY <1>2, <2>1, <2>2 DEF Seen
<1>3. CASE ~P.dedicated
  BY <1>3 DEF ViewOf, QuadsOf, Seen
<1> QED BY <1>2, <1>3

(* A promotion hides and shows nothing. *)
LEMMA PromotedSeen ==
    ASSUME NEW P, Sound(P), ~P.dedicated
    PROVE  Seen(Promoted(P)) = Seen(P)
<1> DEFINE moved == {r \in P.rare : r.q \notin QuadsOf(P.delta)}
           Q     == Promoted(P)
<1>1. P.delta = {} /\ P.main = {} /\ P.tombs = {}
  BY DEF Sound
<1>2. moved = P.rare
  BY <1>1 DEF QuadsOf
<1>3. Q = [P EXCEPT !.dedicated = TRUE, !.rare = {}, !.delta = P.delta \cup moved,
                    !.count = Cardinality(P.delta \cup moved)]
  BY DEF Promoted
<1> HIDE DEF moved, Q
<1>4. Q.dedicated /\ Q.rare = {} /\ Q.delta = P.rare /\ Q.main = {} /\ Q.tombs = {}
  BY <1>1, <1>2, <1>3 DEF Sound, PartRec
<1>5. QuadsOf({}) = {}
  BY DEF QuadsOf
<1>6. Seen(Q) = QuadsOf(P.rare) /\ Seen(P) = QuadsOf(P.rare)
  BY <1>4, <1>5 DEF Seen
<1> QED BY <1>6 DEF Q

(* A merge hides and shows nothing, if the tombstones are consulted. *)
LEMMA MergedSeen ==
    ASSUME NEW P, Sound(P), Counted(P), P.dedicated, NEW dedup
    PROVE  Seen(Merged(P, dedup)) = Seen(P)
<1> DEFINE M == Merged(P, dedup)
<1>1. /\ M.dedicated /\ M.rare = P.rare /\ M.delta = {} /\ M.tombs = {}
      /\ M.main = MainNew(P.main, P.delta, P.tombs, dedup)
  BY MergedSound
<1>2. P.main \subseteq Row(Quads, Nat) /\ P.delta \subseteq Row(Quads, Nat)
  BY RowFacts DEF Sound, PartRec
<1>3. QuadsOf(M.main) = QuadsOf(P.delta) \cup (QuadsOf(P.main) \ QuadsOf(P.tombs))
  BY <1>1, <1>2, MainNewQuads
<1>4. P.skip => P.tombs = {}
  BY DEF Sound, Counted
<1>5. QuadsOf({}) = {}
  BY DEF QuadsOf
<1> HIDE DEF M
<1>6. Seen(M) = QuadsOf(P.rare) \cup QuadsOf(M.main)
  BY <1>1, <1>5 DEF Seen
<1>7. Seen(P) = QuadsOf(P.rare) \cup QuadsOf(P.delta) \cup (QuadsOf(P.main) \ QuadsOf(P.tombs))
  BY <1>4, <1>5 DEF Seen
<1>8. Seen(M) = Seen(P)
  BY <1>3, <1>6, <1>7
<1> QED BY <1>8 DEF M

(* Merging, compacting and promoting change nothing a reader sees, but for  *)
(* predicates with uncounted tombstones (merge_predicate, merge_all,        *)
(* promote_rare_predicates).                                                *)
THEOREM ReorganisingKeepsReadable == Spec => ReorganiseKeepsReadable
<1>1. ASSUME SInv, SInv', Compact \/ PromoteRare \/ \E p \in Preds : MergePredicate(p), NEW p \in Preds \ silent
      PROVE  Readable(p)' = Readable(p)
  <2>1. Sound(part[p]) /\ Counted(part[p])
    BY <1>1, PartFacts
  <2>2. Sound(part'[p])
    BY <1>1 DEF SInv, Parts
  <2>3. Readable(p) = Seen(part[p])
    BY <2>1, ReadableSeen DEF Readable
  <2>4. Readable(p)' = Seen(part'[p])
    BY <2>2, ReadableSeen DEF Readable
  <2>5. Seen(part'[p]) = Seen(part[p])
    <3>1. CASE Compact
      <4>1. PICK dedup \in DedupOnMerge :
              part' = [y \in Preds |-> IF y \in MergeDue THEN Merged(part[y], dedup) ELSE part[y]]
        BY <3>1 DEF Compact
      <4>2. part'[p] = part[p] \/ (part'[p] = Merged(part[p], dedup) /\ part[p].dedicated)
        BY <4>1 DEF MergeDue
      <4> QED BY <2>1, <4>2, MergedSeen
    <3>2. CASE PromoteRare
      <4>1. part'[p] = IF Cardinality(part[p].rare) >= Threshold THEN Promoted(part[p]) ELSE part[p]
        BY <3>2 DEF PromoteRare, RarePromoted
      <4>2. Cardinality(part[p].rare) >= Threshold => ~part[p].dedicated
        <5>1. part[p].dedicated => Cardinality(part[p].rare) = 0
          BY <2>1, FS_EmptySet DEF Sound
        <5> QED BY <5>1, StoreAssumption
      <4> QED BY <2>1, <4>1, <4>2, PromotedSeen
    <3>3. CASE \E y \in Preds : MergePredicate(y)
      <4>1. PICK y \in Preds : MergePredicate(y)
        BY <3>3
      <4>2. PICK dedup \in DedupOnMerge : part' = [part EXCEPT ![y] = Merged(part[y], dedup)]
        BY <4>1 DEF MergePredicate
      <4>3. part'[p] = part[p] \/ (part'[p] = Merged(part[p], dedup) /\ part[p].dedicated)
        BY <1>1, <4>1, <4>2, PartFacts DEF MergePredicate
      <4> QED BY <2>1, <4>3, MergedSeen
    <3> QED BY <1>1, <3>1, <3>2, <3>3
  <2> QED BY <2>3, <2>4, <2>5
<1>2. SInv /\ SInv' /\ [Next]_vars =>
        [(Compact \/ PromoteRare \/ \E p \in Preds : MergePredicate(p)) =>
            \A p \in Preds \ silent : Readable(p)' = Readable(p)]_vars
  BY <1>1
<1> QED BY <1>2, StoreInvariant, PTL DEF Spec, ReorganiseKeepsReadable

(* After CLEAR GRAPH no quad of the graph is readable (clear_graph_by_id).  *)
THEOREM ClearGraphAlwaysClears == Spec => ClearGraphClears
<1>1. ASSUME SInv, SInv', NEW g \in Graphs, ClearGraph(g), NEW p \in Preds, NEW q \in Readable(p)'
      PROVE  q.g # g
  <2> DEFINE C == IF part[p].dedicated THEN GraphClearedCounted(part[p], g, seq + 1) ELSE part[p]
  <2>1. Sound(part[p]) /\ part[p] \in PartRec
    BY <1>1, PartFacts
  <2>2. Sound(C) /\ part'[p] = RareCleared(C, g)
    BY <1>1, ClearEffect
  <2>3. part[p].dedicated /\ InGraph(part[p].main, g) # {} => seq + 1 \in Sids
    BY <1>1, PartFacts DEF ClearGraph, NeedsTombs, Sids
  <2>4. part[p].dedicated => /\ C.dedicated /\ C.delta = part[p].delta \ InGraph(part[p].delta, g)
                             /\ C.tombs = part[p].tombs \cup GraphTombs(part[p], g, seq + 1)
                             /\ C.main = part[p].main
                             /\ InGraph(part[p].main, g) # {} => ~C.skip
    BY <2>1, <2>3, GraphClearedCountedSound
  <2>5. ~part[p].dedicated => ~C.dedicated
    OBVIOUS
  <2> HIDE DEF C
  <2>6. /\ part'[p].rare = C.rare \ InGraph(C.rare, g) /\ part'[p].delta = C.delta /\ part'[p].main = C.main
        /\ part'[p].tombs = C.tombs /\ part'[p].skip = C.skip /\ part'[p].dedicated = C.dedicated
    BY <2>2, RareClearedSound
  <2>7. q \in Seen(part'[p])
    <3>1. Sound(part'[p])
      BY <1>1 DEF SInv, Parts
    <3> QED BY <1>1, <3>1, ReadableSeen DEF Readable
  <2>8. CASE q \in QuadsOf(part'[p].rare)
    BY <2>6, <2>8 DEF QuadsOf, InGraph
  <2>9. CASE q \notin QuadsOf(part'[p].rare)
    <3>1. part[p].dedicated /\ C.dedicated
      BY <2>4, <2>5, <2>6, <2>7, <2>9 DEF Seen
    <3>2. CASE q \in QuadsOf(C.delta)
      BY <2>4, <3>1, <3>2 DEF QuadsOf, InGraph
    <3>3. CASE q \notin QuadsOf(C.delta)
      <4>1. q \in QuadsOf(part[p].main) /\ (C.skip \/ q \notin QuadsOf(C.tombs))
        BY <2>4, <2>6, <2>7, <2>9, <3>1, <3>3 DEF Seen
      <4>2. SUFFICES ASSUME q.g = g PROVE FALSE
        OBVIOUS
      <4>3. q \in QuadsOf(InGraph(part[p].main, g))
        BY <4>1, <4>2 DEF QuadsOf, InGraph
      <4>4. InGraph(part[p].main, g) # {}
        BY <4>3 DEF QuadsOf
      <4>5. [q |-> q, i |-> seq + 1] \in C.tombs
        BY <2>4, <3>1, <4>3 DEF GraphTombs
      <4>6. q \in QuadsOf(C.tombs)
        BY <4>5 DEF QuadsOf
      <4> QED BY <2>4, <3>1, <4>1, <4>4, <4>6
    <3> QED BY <3>2, <3>3
  <2> QED BY <2>8, <2>9
<1>2. SInv /\ SInv' /\ [Next]_vars =>
        [\A g \in Graphs : ClearGraph(g) => \A p \in Preds : \A q \in Readable(p)' : q.g # g]_vars
  BY <1>1
<1> QED BY <1>2, StoreInvariant, PTL DEF Spec, ClearGraphClears

(* A deleted quad is still readable only if main had a second row of it     *)
(* behind the delta row that was removed (delete_triple).                   *)
THEOREM DeleteAlwaysHides == Spec => DeleteHides
<1>1. ASSUME SInv, SInv', NEW p \in Preds, NEW q \in Quads, DeleteTriple(p, q), q \in Readable(p)'
      PROVE  q \in QuadsOf(part[p].delta) \cap QuadsOf(part[p].main)
  <2> DEFINE P == part[p]
             D == IF P.dedicated THEN DedicatedDeleted(P, q, seq + 1) ELSE P
             Q == RareDeleted(D, q)
  <2>1. Sound(D) /\ part' = [part EXCEPT ![p] = Q]
    BY <1>1, DeleteEffect
  <2>2. Sound(P) /\ part'[p] = Q
    BY <1>1, <2>1, PartFacts
  <2>3. q \in Seen(Q)
    <3>1. Sound(part'[p])
      BY <1>1 DEF SInv, Parts
    <3>2. q \in Seen(part'[p])
      BY <1>1, <3>1, ReadableSeen DEF Readable
    <3> QED BY <2>2, <3>2
  <2>4. D = IF P.dedicated THEN DedicatedDeleted(P, q, seq + 1) ELSE P
    OBVIOUS
  <2>5. Q = [D EXCEPT !.rare = D.rare \ OfQuad(D.rare, q),
                      !.count = Subtract(D.count, Cardinality(OfQuad(D.rare, q)))]
    BY DEF RareDeleted
  <2> HIDE DEF D, Q
  <2>6. /\ Q.rare = D.rare \ OfQuad(D.rare, q) /\ Q.delta = D.delta /\ Q.main = D.main /\ Q.tombs = D.tombs
        /\ Q.skip = D.skip /\ Q.dedicated = D.dedicated
    BY <2>1, <2>5 DEF Sound, PartRec
  <2>7. q \notin QuadsOf(Q.rare)
    BY <2>6 DEF QuadsOf, OfQuad
  <2>8. Q.dedicated /\ (q \in QuadsOf(Q.delta) \/ (q \in QuadsOf(Q.main) /\ (Q.skip \/ q \notin QuadsOf(Q.tombs))))
    BY <2>3, <2>7 DEF Seen
  <2>9. P.dedicated
    BY <2>4, <2>6, <2>8
  <2> HIDE DEF P
  <2>10. CASE q \in QuadsOf(P.delta)
    <3>1. D = [P EXCEPT !.delta = P.delta \ OfQuad(P.delta, q), !.count = Subtract(P.count, 1)]
      BY <2>4, <2>9, <2>10 DEF DedicatedDeleted
    <3>2. D.delta = P.delta \ OfQuad(P.delta, q) /\ D.main = P.main
      BY <2>2, <3>1 DEF Sound, PartRec
    <3>3. q \notin QuadsOf(D.delta)
      BY <3>2 DEF QuadsOf, OfQuad
    <3> QED BY <2>6, <2>8, <2>10, <3>2, <3>3 DEF P
  <2>11. CASE q \notin QuadsOf(P.delta)
    <3> DEFINE T == TombsCounted(P, 1)
    <3>0. 1 \in Nat \ {0}
      OBVIOUS
    <3>1. Sound(T) /\ ~T.skip /\ T.main = P.main /\ T.delta = P.delta /\ T.tombs = P.tombs
      BY <2>2, <3>0, TombsCountedSound
    <3>2. D = [T EXCEPT !.tombs = T.tombs \cup {[q |-> q, i |-> seq + 1]},
                        !.count = Subtract(T.count, Cardinality(OfQuad(P.main, q)))]
      BY <2>4, <2>9, <2>11 DEF DedicatedDeleted
    <3> HIDE DEF T
    <3>3. D.tombs = T.tombs \cup {[q |-> q, i |-> seq + 1]} /\ D.skip = T.skip /\ D.delta = T.delta
      BY <3>1, <3>2 DEF Sound, PartRec
    <3>4. q \in QuadsOf(D.tombs)
      BY <3>3 DEF QuadsOf
    <3> QED BY <2>6, <2>8, <2>11, <3>1, <3>3, <3>4
  <2> QED BY <2>10, <2>11
<1>2. SInv /\ SInv' /\ [Next]_vars =>
        [\A p \in Preds, q \in Quads : DeleteTriple(p, q) /\ q \in Readable(p)' =>
             q \in QuadsOf(part[p].delta) \cap QuadsOf(part[p].main)]_vars
  BY <1>1
<1> QED BY <1>2, StoreInvariant, PTL DEF Spec, DeleteHides
=============================================================================
