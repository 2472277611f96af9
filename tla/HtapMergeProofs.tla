--------------------------- MODULE HtapMergeProofs ---------------------------
(***************************************************************************)
(* Theorems about HtapMerge, for any sets of quads and sessions, either    *)
(* setting of the GUCs and any bound on the sequence.                      *)
(*                                                                         *)
(* HInv is the inductive invariant.  Its parts: the shape of what each     *)
(* open transaction wrote (WorkInv), who holds the predicates row          *)
(* (LockInv), how tombstone_count and the view's form follow the tombstone *)
(* table (ViewInv), freshness of statement identifiers (SidInv), and how   *)
(* main_new relates to what readers see (RaceInv).                         *)
(***************************************************************************)
EXTENDS HtapMergeProps, WellFoundedInduction, TLAPS

-----------------------------------------------------------------------------
(* Facts about the operators of HtapTables. *)

(* DISTINCT ON (s, o, g) ... ORDER BY i keeps a row: among the rows of a    *)
(* quad there is one with the smallest statement identifier.                *)
LEMMA OldestExists ==
    ASSUME NEW Q, NEW rows, rows \subseteq Row(Q, Nat), NEW r \in rows
    PROVE  \E m \in rows : /\ m.q = r.q
                           /\ \A x \in rows : x.q = r.q => m.i <= x.i
<1> DEFINE T == {x.i : x \in {y \in rows : y.q = r.q}}
           L == {p \in Nat \X Nat : p[1] < p[2]}
<1>1. T \subseteq Nat /\ T # {}
  BY DEF Row
<1>2. IsWellFoundedOn(L, Nat)
  BY NatLessThanWellFounded DEF OpToRel
<1>3. PICK k \in T : \A y \in T : ~(<<y, k>> \in L)
  <2> HIDE DEF T, L
  <2> QED BY <1>1, <1>2, WFMin, Zenon
<1>4. ASSUME NEW y \in T
      PROVE  k <= y
  <2>1. k \in Nat /\ y \in Nat
    BY <1>1
  <2>2. <<y, k>> \notin L
    BY <1>3
  <2>3. ~(y < k)
    BY <2>1, <2>2
  <2> QED BY <2>1, <2>3
<1>5. PICK m \in rows : m.q = r.q /\ m.i = k
  OBVIOUS
<1>6. ASSUME NEW x \in rows, x.q = r.q
      PROVE  m.i <= x.i
  <2>1. x.i \in T
    BY <1>6
  <2> QED BY <1>4, <1>5, <2>1
<1> QED BY <1>5, <1>6

(* DISTINCT ON drops rows and never a quad. *)
LEMMA OldestKeepsQuads ==
    ASSUME NEW Q, NEW rows, rows \subseteq Row(Q, Nat)
    PROVE  QuadsOf(OldestPerQuad(rows)) = QuadsOf(rows)
<1>1. QuadsOf(OldestPerQuad(rows)) \subseteq QuadsOf(rows)
  BY DEF QuadsOf, OldestPerQuad
<1>2. ASSUME NEW q \in QuadsOf(rows)
      PROVE  q \in QuadsOf(OldestPerQuad(rows))
  <2>1. PICK r \in rows : r.q = q
    BY <1>2 DEF QuadsOf
  <2>2. PICK m \in rows : m.q = r.q /\ \A x \in rows : x.q = r.q => m.i <= x.i
    BY OldestExists
  <2>3. m \in OldestPerQuad(rows)
    BY <2>2 DEF OldestPerQuad
  <2> QED BY <2>1, <2>2, <2>3 DEF QuadsOf
<1> QED BY <1>1, <1>2

(* What the view shows, quad by quad: the delta, and main where no          *)
(* tombstone is consulted or none matches.                                  *)
LEMMA VisibleCharacterised ==
    ASSUME NEW Q, NEW M, NEW D, NEW T, NEW sk,
           M \subseteq Row(Q, Nat), D \subseteq Row(Q, Nat)
    PROVE  VisibleQuads(M, D, T, sk) =
             QuadsOf(D) \cup
             (IF sk THEN QuadsOf(M) ELSE QuadsOf(M) \ QuadsOf(T))
<1> DEFINE src == ViewSource(M, D, T, sk)
<1>1. src \subseteq Row(Q, Nat)
  BY DEF ViewSource, Unmasked
<1>2. VisibleQuads(M, D, T, sk) = QuadsOf(src)
  BY <1>1, OldestKeepsQuads DEF VisibleQuads, ViewRows
<1>3. QuadsOf(Unmasked(M, T)) = QuadsOf(M) \ QuadsOf(T)
  BY DEF QuadsOf, Unmasked
<1>4. QuadsOf(src) = QuadsOf(IF sk THEN M ELSE Unmasked(M, T)) \cup QuadsOf(D)
  BY DEF QuadsOf, ViewSource
<1> QED BY <1>2, <1>3, <1>4

(* main_new holds the quads of delta and the unmasked quads of main,        *)
(* deduplicated or not.                                                     *)
LEMMA MainNewQuads ==
    ASSUME NEW Q, NEW M, NEW D, NEW T, NEW dedup,
           M \subseteq Row(Q, Nat), D \subseteq Row(Q, Nat)
    PROVE  QuadsOf(MainNew(M, D, T, dedup)) =
             QuadsOf(D) \cup (QuadsOf(M) \ QuadsOf(T))
<1> DEFINE merged == Unmasked(M, T) \cup D
<1>1. merged \subseteq Row(Q, Nat)
  BY DEF Unmasked
<1>2. QuadsOf(merged) = QuadsOf(D) \cup (QuadsOf(M) \ QuadsOf(T))
  BY DEF QuadsOf, Unmasked
<1>3. QuadsOf(OldestPerQuad(merged)) = QuadsOf(merged)
  BY <1>1, OldestKeepsQuads
<1>4. MainNew(M, D, T, dedup) = IF dedup THEN OldestPerQuad(merged) ELSE merged
  BY DEF MainNew
<1> QED BY <1>2, <1>3, <1>4

(* main_new invents no row. *)
LEMMA MainNewSubset ==
    ASSUME NEW M, NEW D, NEW T, NEW dedup
    PROVE  MainNew(M, D, T, dedup) \subseteq M \cup D
BY DEF MainNew, OldestPerQuad, Unmasked

-----------------------------------------------------------------------------
WorkInv ==
    \A c \in Sessions :
        /\ pc[c] # Idle => work[c] \in Row(Quads, 0 .. MaxSid)
        /\ pc[c] \in {"inserted", "tombed", "counted", "viewed", "probed"} =>
               work[c].i \in 1 .. seq
        /\ \A n \in cached[c] : n <= seq

LockInv ==
    /\ \A c \in Sessions :
           rowLock = c <=> pc[c] \in {"counted", "viewed", "probed"}
    /\ rowLock = Merger <=> mpc \in {"stats", "truncated"}
    /\ mpc = "truncated" => \A c \in Sessions : pc[c] = Idle

ViewInv ==
    /\ skip => tombCount = 0
    /\ tombCount = 0 => tombs = {}
    /\ \A c \in Sessions : rowLock = c => (sawZero[c] <=> tombCount = 0)

SidInv ==
    /\ maxSid <= seq
    /\ \A r \in main \cup delta \cup mainNew : r.i <= seq
    /\ \A t \in tombs : t.i <= seq
    /\ \A c \in Sessions : \A n \in cached[c] :
           /\ \A r \in main \cup delta \cup mainNew : r.i # n
           /\ \A d \in Sessions : pc[d] = "inserted" => work[d].i # n
           /\ \A d \in Sessions \ {c} : n \notin cached[d]
    /\ \A c \in Sessions : pc[c] = "inserted" =>
           /\ \A r \in main \cup delta \cup mainNew : r.i # work[c].i
           /\ \A d \in Sessions \ {c} : pc[d] = "inserted" => work[d].i # work[c].i
    /\ SidsUnique

RaceInv ==
    /\ mpc = Idle => raced = {}
    /\ mpc # Idle => \A t \in tombs : t.q \notin raced => t.i <= maxSid
    /\ mpc \in {"built", "swapped", "stats", "truncated"} =>
           \A q \in Quads \ raced : q \in QuadsOf(mainNew) <=> q \in Visible

HInv == TypeOK /\ WorkInv /\ LockInv /\ ViewInv /\ SidInv /\ RaceInv

-----------------------------------------------------------------------------
(* Visible, quad by quad. *)
LEMMA VisibleIs ==
    ASSUME TypeOK
    PROVE  Visible = QuadsOf(delta) \cup
                     (IF skip THEN QuadsOf(main) ELSE QuadsOf(main) \ QuadsOf(tombs))
<1>1. main \subseteq Row(Quads, Nat) /\ delta \subseteq Row(Quads, Nat)
  BY ConfigAssumption DEF TypeOK, Row, Sids
<1> QED BY <1>1, VisibleCharacterised DEF Visible

(* The empty partition satisfies the inductive invariant. *)
LEMMA InitInv == Init => HInv
<1> SUFFICES ASSUME Init PROVE HInv
  OBVIOUS
<1>1. TypeOK
  <2>1. skip \in BOOLEAN /\ sawZero \in [Sessions -> BOOLEAN]
    BY DEF Init
  <2>2. seq \in 0 .. MaxSid /\ cached \in [Sessions -> SUBSET Sids] /\ tombCount \in Nat /\ maxSid \in 0 .. MaxSid
    BY ConfigAssumption DEF Init
  <2>3. pc \in [Sessions -> ClientPcs] /\ mpc \in MergePcs
    BY DEF Init, ClientPcs, MergePcs
  <2>4. work \in [Sessions -> Row(Quads, 0 .. MaxSid) \cup {NoRow}]
    BY DEF Init
  <2> QED BY <2>1, <2>2, <2>3, <2>4 DEF Init, TypeOK
<1>2. WorkInv /\ LockInv /\ ViewInv
  BY ConfigAssumption DEF Init, WorkInv, LockInv, ViewInv, Idle
<1>3. SidInv /\ RaceInv
  BY ConfigAssumption DEF Init, SidInv, RaceInv, SidsUnique, Idle
<1> QED BY <1>1, <1>2, <1>3 DEF HInv

(* An identifier drawn from the sequence is one the session had cached, or   *)
(* lies beyond everything handed out before.                                *)
LEMMA NextValFresh ==
    ASSUME TypeOK, WorkInv, NEW c \in Sessions, NEW n \in Sids, NextVal(c, n)
    PROVE  /\ seq' \in 0 .. MaxSid /\ seq <= seq'
           /\ cached' \in [Sessions -> SUBSET Sids]
           /\ n \in 1 .. seq'
           /\ n \notin cached'[c]
           /\ n \in cached[c] \/ n > seq
           /\ \A m \in cached'[c] : m \in cached[c] \/ (m > seq /\ m <= seq')
           /\ \A d \in Sessions \ {c} : cached'[d] = cached[d]
<1> USE ConfigAssumption DEF TypeOK, Sids, WorkInv
<1>1. CASE n \in cached[c] /\ UNCHANGED seq
            /\ cached' = [cached EXCEPT ![c] = cached[c] \ {n}]
  BY <1>1
<1>2. CASE cached[c] = {} /\ n = seq + 1 /\ seq' = seq + SeqCache /\ seq + SeqCache <= MaxSid
            /\ cached' = [cached EXCEPT ![c] = (seq + 2) .. (seq + SeqCache)]
  <2>1. (seq + 2) .. (seq + SeqCache) \subseteq Sids
    BY <1>2
  <2>2. cached' \in [Sessions -> SUBSET Sids]
    BY <1>2, <2>1
  <2> QED BY <1>2, <2>2
<1> QED BY <1>1, <1>2 DEF NextVal
(* The type invariant and the shape of open transactions. *)
LEMMA TypeStep ==
    ASSUME HInv, [Next]_vars
    PROVE  TypeOK' /\ WorkInv'
<1> USE ConfigAssumption DEF sids, HInv, TypeOK, WorkInv, Row, Sids, ClientPcs, MergePcs, Idle
<1>1. ASSUME NEW c \in Sessions, NEW q \in Quads, InsertDelta(c, q)
      PROVE  TypeOK' /\ WorkInv'
  <2>1. PICK n \in Sids : NextVal(c, n) /\ work' = [work EXCEPT ![c] = [q |-> q, i |-> n]]
    BY <1>1 DEF InsertDelta
  <2>2. /\ seq' \in 0 .. MaxSid /\ seq <= seq'
        /\ cached' \in [Sessions -> SUBSET Sids]
        /\ n \in 1 .. seq'
        /\ n \notin cached'[c]
        /\ n \in cached[c] \/ n > seq
        /\ \A m \in cached'[c] : m \in cached[c] \/ (m > seq /\ m <= seq')
        /\ \A d \in Sessions \ {c} : cached'[d] = cached[d]
    BY <2>1, NextValFresh
  <2>3. pc' = [pc EXCEPT ![c] = "inserted"] /\ UNCHANGED <<tables, rowLock, sawZero, merge, raced>>
    BY <1>1 DEF InsertDelta
  <2>4. work[c] \in Row(Quads, 0 .. MaxSid) \/ pc[c] = Idle
    OBVIOUS
  <2>5. work' \in [Sessions -> Row(Quads, 0 .. MaxSid) \cup {NoRow}]
    BY <2>1, <2>2, <2>4
  <2>6. pc' \in [Sessions -> ClientPcs]
    BY <2>3
  <2>7. TypeOK'
    BY <2>2, <2>3, <2>5, <2>6 DEF tables, merge
  <2>8. ASSUME NEW d \in Sessions
        PROVE  /\ pc'[d] # Idle => work'[d] \in Row(Quads, 0 .. MaxSid)
               /\ pc'[d] \in {"inserted", "tombed", "counted", "viewed", "probed"} =>
                      work'[d].i \in 1 .. seq'
               /\ \A m \in cached'[d] : m <= seq'
    <3>1. CASE d = c
      <4>1. work'[d] = [q |-> work'[d].q, i |-> n] /\ work'[d] \in Row(Quads, 0 .. MaxSid)
        BY <3>1, <2>1, <2>2, <2>4
      <4> QED BY <3>1, <4>1, <2>2
    <3>2. CASE d # c
      BY <3>2, <2>1, <2>2, <2>3
    <3> QED BY <3>1, <3>2
  <2> QED BY <2>7, <2>8
<1>2. ASSUME NEW c \in Sessions, NEW q \in Quads, DeleteDelta(c, q)
      PROVE  TypeOK' /\ WorkInv'
  BY <1>2 DEF DeleteDelta, tables, merge
<1>3. ASSUME NEW c \in Sessions, InsertCommit(c)
      PROVE  TypeOK' /\ WorkInv'
  BY <1>3 DEF InsertCommit, CommitClient, EndClient, merge
<1>4. ASSUME NEW c \in Sessions, DeleteDeltaCommit(c)
      PROVE  TypeOK' /\ WorkInv'
  BY <1>4 DEF DeleteDeltaCommit, CommitClient, EndClient, merge
<1>5. ASSUME NEW c \in Sessions, DeleteTomb(c)
      PROVE  TypeOK' /\ WorkInv'
  <2>1. PICK n \in Sids : NextVal(c, n) /\ work' = [work EXCEPT ![c] = [q |-> work[c].q, i |-> n]]
    BY <1>5 DEF DeleteTomb
  <2>2. /\ seq' \in 0 .. MaxSid /\ seq <= seq'
        /\ cached' \in [Sessions -> SUBSET Sids]
        /\ n \in 1 .. seq'
        /\ n \notin cached'[c]
        /\ n \in cached[c] \/ n > seq
        /\ \A m \in cached'[c] : m \in cached[c] \/ (m > seq /\ m <= seq')
        /\ \A d \in Sessions \ {c} : cached'[d] = cached[d]
    BY <2>1, NextValFresh
  <2>3. pc' = [pc EXCEPT ![c] = "tombed"] /\ UNCHANGED <<tables, rowLock, sawZero, merge, raced>>
    BY <1>5 DEF DeleteTomb
  <2>4. work[c] \in Row(Quads, 0 .. MaxSid) \/ pc[c] = Idle
    OBVIOUS
  <2>5. work' \in [Sessions -> Row(Quads, 0 .. MaxSid) \cup {NoRow}]
    BY <2>1, <2>2, <2>4, <1>5 DEF DeleteTomb
  <2>6. pc' \in [Sessions -> ClientPcs]
    BY <2>3
  <2>7. TypeOK'
    BY <2>2, <2>3, <2>5, <2>6 DEF tables, merge
  <2>8. ASSUME NEW d \in Sessions
        PROVE  /\ pc'[d] # Idle => work'[d] \in Row(Quads, 0 .. MaxSid)
               /\ pc'[d] \in {"inserted", "tombed", "counted", "viewed", "probed"} =>
                      work'[d].i \in 1 .. seq'
               /\ \A m \in cached'[d] : m <= seq'
    <3>1. CASE d = c
      <4>1. work'[d] = [q |-> work'[d].q, i |-> n] /\ work'[d] \in Row(Quads, 0 .. MaxSid)
        BY <3>1, <2>1, <2>2, <2>4, <1>5 DEF DeleteTomb
      <4> QED BY <3>1, <4>1, <2>2
    <3>2. CASE d # c
      BY <3>2, <2>1, <2>2, <2>3
    <3> QED BY <3>1, <3>2
  <2> QED BY <2>7, <2>8
<1>6. ASSUME NEW c \in Sessions, DeleteCount(c)
      PROVE  TypeOK' /\ WorkInv'
  BY <1>6 DEF DeleteCount, tables, merge
<1>7. ASSUME NEW c \in Sessions, DeleteView(c) \/ DeleteProbe(c)
      PROVE  TypeOK' /\ WorkInv'
  BY <1>7 DEF DeleteView, DeleteProbe, tables, merge
<1>8. ASSUME NEW c \in Sessions, DeleteCommit(c)
      PROVE  TypeOK' /\ WorkInv'
  <2>1. work[c] \in Row(Quads, 1 .. MaxSid)
    BY <1>8 DEF DeleteCommit
  <2>2. raced' \subseteq Quads
    BY <1>8, <2>1 DEF DeleteCommit, CommitClient
  <2>3. tombs' \subseteq Row(Quads, Sids) /\ tombCount' \in Nat
    BY <1>8, <2>1 DEF DeleteCommit
  <2>4. skip' = FALSE \/ skip' = skip
    BY <1>8 DEF DeleteCommit
  <2>5. skip' \in BOOLEAN
    BY <2>4, Zenon
  <2>6. pc' \in [Sessions -> ClientPcs] /\ sawZero' \in [Sessions -> BOOLEAN]
    BY <1>8 DEF DeleteCommit, CommitClient, EndClient
  <2>7. work' \in [Sessions -> Row(Quads, 0 .. MaxSid) \cup {NoRow}]
    BY <1>8 DEF DeleteCommit, CommitClient, EndClient
  <2>8. TypeOK'
    BY <1>8, <2>2, <2>3, <2>5, <2>6, <2>7 DEF DeleteCommit, CommitClient, EndClient, merge
  <2>9. WorkInv'
    BY <1>8, <2>6, <2>7 DEF DeleteCommit, CommitClient, EndClient
  <2> QED BY <2>8, <2>9
<1>9. ASSUME NEW c \in Sessions, ClientAbort(c)
      PROVE  TypeOK' /\ WorkInv'
  BY <1>9 DEF ClientAbort, EndClient, tables, merge
<1>16. ASSUME NEW c \in Sessions, Disconnect(c)
      PROVE  TypeOK' /\ WorkInv'
  BY <1>16 DEF Disconnect, tables, client, merge
<1>10. CASE MergeStart
  BY <1>10 DEF MergeStart, tables, client
<1>11. CASE MergeBuild
  BY <1>11, MainNewSubset DEF MergeBuild, tables, client
<1>12. CASE MergeSwap \/ MergeStats \/ MergeTruncateDelta
  BY <1>12 DEF MergeSwap, MergeStats, MergeTruncateDelta, tables, client
<1>13. CASE MergeCommit
  BY <1>13 DEF MergeCommit, TombsLeft, TombsAfterMerge, client
<1>14. CASE MergeAbort
  BY <1>14 DEF MergeAbort, tables, client
<1>15. CASE UNCHANGED vars
  BY <1>15 DEF vars, tables, client, merge
<1> QED
  BY <1>1, <1>2, <1>3, <1>4, <1>5, <1>6, <1>7, <1>8, <1>9, <1>10, <1>11, <1>12,
     <1>13, <1>14, <1>15, <1>16 DEF Next, MergeStep, ClientStep
(* Who holds the predicates row. *)
LEMMA LockStep ==
    ASSUME HInv, [Next]_vars
    PROVE  LockInv'
<1> USE ConfigAssumption DEF sids, HInv, TypeOK, LockInv, Idle, ClientPcs, MergePcs, MergeHoldsDelta
<1>1. ASSUME NEW c \in Sessions, NEW q \in Quads, InsertDelta(c, q)
      PROVE  LockInv'
  BY <1>1 DEF InsertDelta, tables, merge
<1>2. ASSUME NEW c \in Sessions, NEW q \in Quads, DeleteDelta(c, q)
      PROVE  LockInv'
  BY <1>2 DEF DeleteDelta, tables, merge
<1>3. ASSUME NEW c \in Sessions, InsertCommit(c)
      PROVE  LockInv'
  BY <1>3 DEF InsertCommit, CommitClient, EndClient, merge
<1>4. ASSUME NEW c \in Sessions, DeleteDeltaCommit(c)
      PROVE  LockInv'
  BY <1>4 DEF DeleteDeltaCommit, CommitClient, EndClient, merge
<1>5. ASSUME NEW c \in Sessions, DeleteTomb(c)
      PROVE  LockInv'
  BY <1>5 DEF DeleteTomb, tables, merge
<1>6. ASSUME NEW c \in Sessions, DeleteCount(c)
      PROVE  LockInv'
  BY <1>6 DEF DeleteCount, tables, merge
<1>7. ASSUME NEW c \in Sessions, DeleteView(c) \/ DeleteProbe(c)
      PROVE  LockInv'
  BY <1>7 DEF DeleteView, DeleteProbe, tables, merge
<1>8. ASSUME NEW c \in Sessions, DeleteCommit(c)
      PROVE  LockInv'
  BY <1>8 DEF DeleteCommit, CommitClient, EndClient, merge
<1>9. ASSUME NEW c \in Sessions, ClientAbort(c)
      PROVE  LockInv'
  BY <1>9 DEF ClientAbort, EndClient, tables, merge
<1>16. ASSUME NEW c \in Sessions, Disconnect(c)
      PROVE  LockInv'
  BY <1>16 DEF Disconnect, tables, client, merge
<1>10. CASE MergeStart
  BY <1>10 DEF MergeStart, tables, client
<1>11. CASE MergeBuild
  BY <1>11, MainNewSubset DEF MergeBuild, tables, client
<1>12. CASE MergeSwap \/ MergeStats \/ MergeTruncateDelta
  BY <1>12 DEF MergeSwap, MergeStats, MergeTruncateDelta, HoldsDelta, tables, client
<1>13. CASE MergeCommit
  BY <1>13 DEF MergeCommit, TombsLeft, TombsAfterMerge, client
<1>14. CASE MergeAbort
  BY <1>14 DEF MergeAbort, tables, client
<1>15. CASE UNCHANGED vars
  BY <1>15 DEF vars, tables, client, merge
<1> QED
  BY <1>1, <1>2, <1>3, <1>4, <1>5, <1>6, <1>7, <1>8, <1>9, <1>10,
     <1>11, <1>12, <1>13, <1>14, <1>15, <1>16 DEF Next, MergeStep, ClientStep

(* tombstone_count and the form of the view. *)
LEMMA ViewStep ==
    ASSUME HInv, [Next]_vars
    PROVE  ViewInv'
<1> USE ConfigAssumption DEF sids, HInv, TypeOK, LockInv, ViewInv, Idle
<1>1. ASSUME NEW c \in Sessions, NEW q \in Quads, InsertDelta(c, q)
      PROVE  ViewInv'
  BY <1>1 DEF InsertDelta, tables, merge
<1>2. ASSUME NEW c \in Sessions, NEW q \in Quads, DeleteDelta(c, q)
      PROVE  ViewInv'
  BY <1>2 DEF DeleteDelta, tables, merge
<1>3. ASSUME NEW c \in Sessions, InsertCommit(c)
      PROVE  ViewInv'
  BY <1>3 DEF InsertCommit, CommitClient, EndClient, merge
<1>4. ASSUME NEW c \in Sessions, DeleteDeltaCommit(c)
      PROVE  ViewInv'
  BY <1>4 DEF DeleteDeltaCommit, CommitClient, EndClient, merge
<1>5. ASSUME NEW c \in Sessions, DeleteTomb(c)
      PROVE  ViewInv'
  BY <1>5 DEF DeleteTomb, tables, merge
<1>6. ASSUME NEW c \in Sessions, DeleteCount(c)
      PROVE  ViewInv'
  BY <1>6 DEF DeleteCount, tables, merge
<1>7. ASSUME NEW c \in Sessions, DeleteView(c) \/ DeleteProbe(c)
      PROVE  ViewInv'
  BY <1>7 DEF DeleteView, DeleteProbe, tables, merge
<1>8. ASSUME NEW c \in Sessions, DeleteCommit(c)
      PROVE  ViewInv'
  BY <1>8 DEF DeleteCommit, CommitClient, EndClient, merge
<1>9. ASSUME NEW c \in Sessions, ClientAbort(c)
      PROVE  ViewInv'
  BY <1>9 DEF ClientAbort, EndClient, tables, merge
<1>16. ASSUME NEW c \in Sessions, Disconnect(c)
      PROVE  ViewInv'
  BY <1>16 DEF Disconnect, tables, client, merge
<1>10. CASE MergeStart
  BY <1>10 DEF MergeStart, tables, client
<1>11. CASE MergeBuild
  BY <1>11, MainNewSubset DEF MergeBuild, tables, client
<1>12. CASE MergeSwap \/ MergeStats \/ MergeTruncateDelta
  BY <1>12 DEF MergeSwap, MergeStats, MergeTruncateDelta, HoldsDelta, tables, client
<1>13. CASE MergeCommit
  BY <1>13 DEF MergeCommit, TombsLeft, TombsAfterMerge, client
<1>14. CASE MergeAbort
  BY <1>14 DEF MergeAbort, tables, client
<1>15. CASE UNCHANGED vars
  BY <1>15 DEF vars, tables, client, merge
<1> QED
  BY <1>1, <1>2, <1>3, <1>4, <1>5, <1>6, <1>7, <1>8, <1>9, <1>10,
     <1>11, <1>12, <1>13, <1>14, <1>15, <1>16 DEF Next, MergeStep, ClientStep

(* Statement identifiers are fresh and name one row. *)
LEMMA SidStep ==
    ASSUME HInv, [Next]_vars
    PROVE  SidInv'
<1> USE ConfigAssumption DEF sids, HInv, TypeOK, WorkInv, LockInv, SidInv, SidsUnique, Row, Sids, Idle
<1>1. ASSUME NEW c \in Sessions, NEW q \in Quads, InsertDelta(c, q)
      PROVE  SidInv'
  <2>1. PICK n \in Sids : NextVal(c, n) /\ work' = [work EXCEPT ![c] = [q |-> q, i |-> n]]
    BY <1>1 DEF InsertDelta
  <2>2. /\ seq' \in 0 .. MaxSid /\ seq <= seq'
        /\ cached' \in [Sessions -> SUBSET Sids]
        /\ n \in 1 .. seq'
        /\ n \notin cached'[c]
        /\ n \in cached[c] \/ n > seq
        /\ \A m \in cached'[c] : m \in cached[c] \/ (m > seq /\ m <= seq')
        /\ \A d \in Sessions \ {c} : cached'[d] = cached[d]
    BY <2>1, NextValFresh
  <2>3. pc' = [pc EXCEPT ![c] = "inserted"] /\ UNCHANGED <<tables, rowLock, sawZero, merge, raced>>
    BY <1>1 DEF InsertDelta
  <2>4. work[c] \in Row(Quads, 0 .. MaxSid) \/ pc[c] = Idle
    OBVIOUS
  <2> QED BY <1>1, <2>1, <2>2, <2>3, <2>4 DEF tables, merge, InsertDelta
<1>2. ASSUME NEW c \in Sessions, NEW q \in Quads, DeleteDelta(c, q)
      PROVE  SidInv'
  BY <1>2 DEF DeleteDelta, tables, merge
<1>3. ASSUME NEW c \in Sessions, InsertCommit(c)
      PROVE  SidInv'
  BY <1>3 DEF InsertCommit, CommitClient, EndClient, merge
<1>4. ASSUME NEW c \in Sessions, DeleteDeltaCommit(c)
      PROVE  SidInv'
  BY <1>4 DEF DeleteDeltaCommit, CommitClient, EndClient, merge
<1>5. ASSUME NEW c \in Sessions, DeleteTomb(c)
      PROVE  SidInv'
  <2>1. PICK n \in Sids : NextVal(c, n) /\ work' = [work EXCEPT ![c] = [q |-> work[c].q, i |-> n]]
    BY <1>5 DEF DeleteTomb
  <2>2. /\ seq' \in 0 .. MaxSid /\ seq <= seq'
        /\ cached' \in [Sessions -> SUBSET Sids]
        /\ n \in 1 .. seq'
        /\ n \notin cached'[c]
        /\ n \in cached[c] \/ n > seq
        /\ \A m \in cached'[c] : m \in cached[c] \/ (m > seq /\ m <= seq')
        /\ \A d \in Sessions \ {c} : cached'[d] = cached[d]
    BY <2>1, NextValFresh
  <2>3. pc' = [pc EXCEPT ![c] = "tombed"] /\ UNCHANGED <<tables, rowLock, sawZero, merge, raced>>
    BY <1>5 DEF DeleteTomb
  <2>4. work[c] \in Row(Quads, 0 .. MaxSid) \/ pc[c] = Idle
    OBVIOUS
  <2> QED BY <1>5, <2>1, <2>2, <2>3, <2>4 DEF tables, merge, DeleteTomb
<1>6. ASSUME NEW c \in Sessions, DeleteCount(c)
      PROVE  SidInv'
  BY <1>6 DEF DeleteCount, tables, merge
<1>7. ASSUME NEW c \in Sessions, DeleteView(c) \/ DeleteProbe(c)
      PROVE  SidInv'
  BY <1>7 DEF DeleteView, DeleteProbe, tables, merge
<1>8. ASSUME NEW c \in Sessions, DeleteCommit(c)
      PROVE  SidInv'
  BY <1>8 DEF DeleteCommit, CommitClient, EndClient, merge
<1>9. ASSUME NEW c \in Sessions, ClientAbort(c)
      PROVE  SidInv'
  BY <1>9 DEF ClientAbort, EndClient, tables, merge
<1>16. ASSUME NEW c \in Sessions, Disconnect(c)
      PROVE  SidInv'
  BY <1>16 DEF Disconnect, tables, client, merge
<1>10. CASE MergeStart
  BY <1>10 DEF MergeStart, tables, client
<1>11. CASE MergeBuild
  BY <1>11, MainNewSubset DEF MergeBuild, tables, client
<1>12. CASE MergeSwap \/ MergeStats \/ MergeTruncateDelta
  BY <1>12 DEF MergeSwap, MergeStats, MergeTruncateDelta, HoldsDelta, tables, client
<1>13. CASE MergeCommit
  BY <1>13 DEF MergeCommit, TombsLeft, TombsAfterMerge, client
<1>14. CASE MergeAbort
  BY <1>14 DEF MergeAbort, tables, client
<1>15. CASE UNCHANGED vars
  BY <1>15 DEF vars, tables, client, merge
<1> QED
  BY <1>1, <1>2, <1>3, <1>4, <1>5, <1>6, <1>7, <1>8, <1>9, <1>10,
     <1>11, <1>12, <1>13, <1>14, <1>15, <1>16 DEF Next, MergeStep, ClientStep

(* Only the quad a session commits can change what readers see, and only   *)
(* its commits change the tables at all.                                    *)
LEMMA CommitTouchesItsQuad ==
    ASSUME HInv, TypeOK', NEW c \in Sessions,
           InsertCommit(c) \/ DeleteDeltaCommit(c) \/ DeleteCommit(c)
    PROVE  /\ work[c].q \in Quads
           /\ Visible \ {work[c].q} = Visible' \ {work[c].q}
           /\ InsertCommit(c) => Visible' = Visible \cup {work[c].q}
           /\ ~InsertCommit(c) => Visible' \in {Visible, Visible \ {work[c].q}}
           /\ mpc' = mpc /\ maxSid' = maxSid /\ mainNew' = mainNew
           /\ raced' = IF mpc = Idle THEN raced ELSE raced \cup {work[c].q}
<1> DEFINE w == work[c]
<1>1. w \in Row(Quads, 0 .. MaxSid) /\ w.q \in Quads
  BY DEF HInv, WorkInv, InsertCommit, DeleteDeltaCommit, DeleteCommit, Row, Idle
<1>2. Visible = QuadsOf(delta) \cup
                (IF skip THEN QuadsOf(main) ELSE QuadsOf(main) \ QuadsOf(tombs))
  BY VisibleIs DEF HInv
<1>3. Visible' = QuadsOf(delta') \cup
                (IF skip' THEN QuadsOf(main') ELSE QuadsOf(main') \ QuadsOf(tombs'))
  <2>1. main' \subseteq Row(Quads, Nat) /\ delta' \subseteq Row(Quads, Nat)
    BY ConfigAssumption DEF TypeOK, Row, Sids
  <2> QED BY <2>1, VisibleCharacterised DEF Visible
<1>4. CASE InsertCommit(c)
  <2>1. QuadsOf(delta') = QuadsOf(delta) \cup {w.q}
    BY <1>4 DEF InsertCommit, QuadsOf
  <2>2. main' = main /\ tombs' = tombs /\ skip' = skip
    BY <1>4 DEF InsertCommit
  <2>3. Visible' = Visible \cup {w.q}
    BY <1>2, <1>3, <2>1, <2>2
  <2> QED BY <1>1, <1>4, <2>3 DEF InsertCommit, CommitClient, EndClient, merge
<1>5. CASE DeleteDeltaCommit(c)
  <2>1. QuadsOf(delta') = QuadsOf(delta) \ {w.q}
    BY <1>5 DEF DeleteDeltaCommit, QuadsOf
  <2>2. main' = main /\ tombs' = tombs /\ skip' = skip
    BY <1>5 DEF DeleteDeltaCommit
  <2>3. Visible' \in {Visible, Visible \ {w.q}}
    BY <1>2, <1>3, <2>1, <2>2
  <2>4. ~InsertCommit(c)
    BY <1>5 DEF InsertCommit, DeleteDeltaCommit
  <2> QED BY <1>1, <1>5, <2>3, <2>4 DEF DeleteDeltaCommit, CommitClient, EndClient, merge
<1>6. CASE DeleteCommit(c)
  <2>1. QuadsOf(tombs') = QuadsOf(tombs) \cup {w.q}
    BY <1>6 DEF DeleteCommit, QuadsOf
  <2>2. main' = main /\ delta' = delta
    BY <1>6 DEF DeleteCommit
  <2>3. rowLock = c
    BY <1>6 DEF DeleteCommit, HInv, LockInv
  <2>4. skip => sawZero[c] /\ tombs = {}
    BY <2>3 DEF HInv, ViewInv
  <2>5. ~skip'
    BY <1>6, <2>4 DEF DeleteCommit
  <2>6. Visible = QuadsOf(delta) \cup (QuadsOf(main) \ QuadsOf(tombs))
    BY <1>2, <2>4 DEF QuadsOf
  <2>7. Visible' = QuadsOf(delta) \cup (QuadsOf(main) \ (QuadsOf(tombs) \cup {w.q}))
    BY <1>3, <2>1, <2>2, <2>5
  <2>8. Visible' \in {Visible, Visible \ {w.q}}
    BY <2>6, <2>7
  <2>9. ~InsertCommit(c)
    BY <1>6 DEF InsertCommit, DeleteCommit
  <2> QED BY <1>1, <1>6, <2>8, <2>9 DEF DeleteCommit, CommitClient, EndClient, merge
<1> QED BY <1>4, <1>5, <1>6

(* How main_new relates to what readers see. *)
LEMMA RaceStep ==
    ASSUME HInv, [Next]_vars
    PROVE  RaceInv'
<1>0. TypeOK'
  BY TypeStep
<1> USE DEF HInv, RaceInv, Idle
<1>1. ASSUME NEW c \in Sessions, InsertCommit(c) \/ DeleteDeltaCommit(c) \/ DeleteCommit(c)
      PROVE  RaceInv'
  <2>1. \A t \in tombs' : t \in tombs \/ t.q = work[c].q
    BY <1>1 DEF InsertCommit, DeleteDeltaCommit, DeleteCommit
  <2>2. mpc' # Idle => \A t \in tombs' : t.q \notin raced' => t.i <= maxSid'
    BY <1>0, <1>1, <2>1, CommitTouchesItsQuad
  <2> QED BY <1>0, <1>1, <2>2, CommitTouchesItsQuad
<1>2. CASE MergeStart
  BY <1>2 DEF MergeStart, tables, SidInv
<1>3. CASE MergeBuild
  <2>1. main \subseteq Row(Quads, Nat) /\ delta \subseteq Row(Quads, Nat)
    BY ConfigAssumption DEF TypeOK, Row, Sids
  <2>2. QuadsOf(mainNew') = QuadsOf(delta) \cup (QuadsOf(main) \ QuadsOf(tombs))
    BY <1>3, <2>1, MainNewQuads DEF MergeBuild
  <2>3. Visible = QuadsOf(delta) \cup (QuadsOf(main) \ QuadsOf(tombs))
    BY VisibleIs DEF ViewInv, QuadsOf
  <2>4. Visible' = Visible
    BY <1>3 DEF MergeBuild, Visible, tables
  <2> QED BY <1>3, <2>2, <2>3, <2>4 DEF MergeBuild, tables
<1>4. CASE MergeSwap \/ MergeStats \/ MergeTruncateDelta
  BY <1>4 DEF MergeSwap, MergeStats, MergeTruncateDelta, tables, Visible
<1>5. CASE MergeCommit \/ MergeAbort
  BY <1>5 DEF MergeCommit, MergeAbort
<1>6. CASE UNCHANGED <<tables, merge, raced>>
  BY <1>6 DEF tables, merge, Visible
<1>7. ASSUME NEW c \in Sessions, ClientStep(c)
      PROVE  \/ InsertCommit(c) \/ DeleteDeltaCommit(c) \/ DeleteCommit(c)
             \/ UNCHANGED <<tables, merge, raced>>
  BY <1>7 DEF ClientStep, InsertDelta, DeleteDelta, DeleteTomb, DeleteCount, DeleteView,
     DeleteProbe, ClientAbort, EndClient, Disconnect
<1> QED
  BY <1>1, <1>2, <1>3, <1>4, <1>5, <1>6, <1>7 DEF Next, MergeStep, vars

(* HInv holds in every reachable state. *)
THEOREM InductiveInvariant == Spec => []HInv
<1>1. Init => HInv
  BY InitInv
<1>2. HInv /\ [Next]_vars => HInv'
  BY TypeStep, LockStep, ViewStep, SidStep, RaceStep DEF HInv
<1> QED BY <1>1, <1>2, PTL DEF Spec

(* Every reachable state is well typed. *)
THEOREM TypeCorrect == Spec => []TypeOK
<1>1. HInv => TypeOK
  BY DEF HInv
<1> QED BY InductiveInvariant, <1>1, PTL

(* The view never skips the tombstone table while it has rows. *)
THEOREM TombstonesAlwaysHonoured == Spec => []TombstonesHonoured
<1>1. HInv => TombstonesHonoured
  BY DEF HInv, ViewInv, TombstonesHonoured
<1> QED BY InductiveInvariant, <1>1, PTL

(* A statement identifier names at most one row. *)
THEOREM SidsAlwaysUnique == Spec => []SidsUnique
<1>1. HInv => SidsUnique
  BY DEF HInv, SidInv
<1> QED BY InductiveInvariant, <1>1, PTL

(* What a merge is about to install shows, for the quads nobody wrote while *)
(* it ran, exactly what readers see now.                                    *)
LEMMA UnracedPreserved == HInv => MergeKeepsUnraced
<1> SUFFICES ASSUME HInv, mpc = "truncated", NEW q \in Quads \ raced, NEW zero \in RetentionZero
             PROVE  q \in Visible <=> q \in VisibleAfterMerge(zero)
  BY DEF MergeKeepsUnraced
<1> DEFINE left == TombsLeft(zero)
           empty == left = {}
<1>1. q \in QuadsOf(mainNew) <=> q \in Visible
  BY DEF HInv, RaceInv
<1>2. mainNew \subseteq Row(Quads, Nat) /\ {} \subseteq Row(Quads, Nat)
  BY ConfigAssumption DEF HInv, TypeOK, Row, Sids
<1>3. VisibleAfterMerge(zero) = VisibleQuads(mainNew, {}, left, empty)
  BY DEF VisibleAfterMerge
<1>4. q \notin QuadsOf(left)
  <2>1. \A t \in tombs : t.q \notin raced => t.i <= maxSid
    BY DEF HInv, RaceInv, Idle
  <2>2. \A t \in tombs : t.i \in Nat /\ maxSid \in Nat
    BY ConfigAssumption DEF HInv, TypeOK, Row, Sids
  <2> QED BY <2>1, <2>2 DEF QuadsOf, TombsLeft, TombsAfterMerge
<1> HIDE DEF left, empty
<1>5. VisibleQuads(mainNew, {}, left, empty) = QuadsOf({}) \cup
        (IF empty THEN QuadsOf(mainNew) ELSE QuadsOf(mainNew) \ QuadsOf(left))
  BY <1>2, VisibleCharacterised
<1>6. QuadsOf({}) = {}
  BY DEF QuadsOf
<1> QED BY <1>1, <1>3, <1>4, <1>5, <1>6

(* A merge changes the visibility of no quad but those written meanwhile. *)
THEOREM MergeAlwaysKeepsUnraced == Spec => []MergeKeepsUnraced
BY InductiveInvariant, UnracedPreserved, PTL

-----------------------------------------------------------------------------
(* The initial state of the partition is an empty store. *)
LEMMA RefineInit == Init => QS!Init
<1> SUFFICES ASSUME Init PROVE QS!Init
  OBVIOUS
<1>1. TypeOK
  BY InitInv DEF HInv
<1>2. Visible = {}
  BY <1>1, VisibleIs DEF Init, QuadsOf
<1> QED BY <1>2 DEF Init, QS!Init, Idle

(* Every step of the partition is a step of the store, or leaves it alone. *)
LEMMA RefineStep ==
    ASSUME HInv, HInv', [Next]_vars
    PROVE  [QS!Next]_(QS!vars)
<1> USE DEF QS!Next, QS!vars, QS!Race
<1>1. ASSUME NEW c \in Sessions, InsertCommit(c)
      PROVE  QS!InsertQuad(work[c].q) /\ work[c].q \in Quads
  BY <1>1, CommitTouchesItsQuad DEF QS!InsertQuad, HInv, RaceInv
<1>2. ASSUME NEW c \in Sessions, DeleteDeltaCommit(c) \/ DeleteCommit(c)
      PROVE  QS!DeleteQuad(work[c].q) /\ work[c].q \in Quads
  <2>1. ~InsertCommit(c)
    BY <1>2 DEF InsertCommit, DeleteDeltaCommit, DeleteCommit
  <2> QED BY <1>2, <2>1, CommitTouchesItsQuad DEF QS!DeleteQuad, HInv, RaceInv
<1>3. CASE MergeStart
  BY <1>3 DEF MergeStart, QS!BeginMerge, tables, Visible, Idle
<1>4. CASE MergeBuild \/ MergeSwap \/ MergeStats \/ MergeTruncateDelta
  BY <1>4 DEF MergeBuild, MergeSwap, MergeStats, MergeTruncateDelta, tables, Visible, Idle
<1>5. CASE MergeCommit
  <2>0. PICK zero \in RetentionZero : tombs' = TombsLeft(zero)
    BY <1>5 DEF MergeCommit
  <2>1. Visible' = VisibleAfterMerge(zero)
    BY <1>5, <2>0 DEF MergeCommit, Visible, VisibleAfterMerge
  <2>2. \A q \in Quads \ raced : q \in Visible' <=> q \in Visible
    BY <1>5, <2>0, <2>1, UnracedPreserved DEF MergeCommit, MergeKeepsUnraced
  <2>3. Visible' \subseteq Quads
    BY DEF HInv, TypeOK, Visible, VisibleQuads, ViewRows, ViewSource, OldestPerQuad,
       Unmasked, QuadsOf, Row
  <2> QED BY <1>5, <2>2, <2>3 DEF MergeCommit, QS!EndMerge, Idle
<1>6. CASE MergeAbort
  <2>1. Visible' = Visible
    BY <1>6 DEF MergeAbort, Visible, tables
  <2>2. Visible \subseteq Quads
    BY DEF HInv, TypeOK, Visible, VisibleQuads, ViewRows, ViewSource, OldestPerQuad,
       Unmasked, QuadsOf, Row
  <2> QED BY <1>6, <2>1, <2>2 DEF MergeAbort, QS!EndMerge, Idle
<1>7. CASE UNCHANGED <<tables, merge, raced>>
  BY <1>7 DEF tables, merge, Visible
<1>8. ASSUME NEW c \in Sessions, ClientStep(c)
      PROVE  \/ InsertCommit(c) \/ DeleteDeltaCommit(c) \/ DeleteCommit(c)
             \/ UNCHANGED <<tables, merge, raced>>
  BY <1>8 DEF ClientStep, InsertDelta, DeleteDelta, DeleteTomb, DeleteCount, DeleteView,
     DeleteProbe, ClientAbort, EndClient, Disconnect
<1> QED
  BY <1>1, <1>2, <1>3, <1>4, <1>5, <1>6, <1>7, <1>8 DEF Next, MergeStep, vars

(* The partition implements QuadStore: inserts appear, deletes touch their  *)
(* own quad, merges touch only the quads written while they ran.            *)
THEOREM Refinement == Spec => ImplementsQuadStore
<1>1. Init => QS!Init
  BY RefineInit
<1>2. HInv /\ HInv' /\ [Next]_vars => [QS!Next]_(QS!vars)
  BY RefineStep
<1> QED BY InductiveInvariant, <1>1, <1>2, PTL DEF Spec, ImplementsQuadStore, QS!Spec
=============================================================================
