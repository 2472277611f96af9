-------------------------- MODULE VpPromotionProofs --------------------------
(***************************************************************************)
(* Theorems about VpPromotion, for any sets of quads and sessions, any     *)
(* mixture of calls, any threshold and any bound on triple_count.          *)
(*                                                                         *)
(* PInv is the inductive invariant.  Its parts: what each open call holds  *)
(* and has written (CallInv, LockInv), that nobody else changes the tables *)
(* while a session holds the predicates row (MoveInv), that rows written   *)
(* and not yet committed are new (FreshInv), that triple_count is exact    *)
(* until the promotion (ExactInv), and that every promotion begins with    *)
(* enough rows (DueInv).                                                   *)
(***************************************************************************)
EXTENDS VpPromotionProps, FiniteSetTheorems, TLAPS

Pcs == {Idle, "toRare", "toDelta", "count", "check", "promote", "move", "commit"}

(* The types the run checks, and what it need not: finite tables. *)
TypeInv ==
    /\ TypeOK
    /\ pc \in [Sessions -> Pcs] /\ kind \in [Sessions -> AllKinds]
    /\ IsFiniteSet(rare) /\ IsFiniteSet(delta)

(* The promotion of c has moved its rows. *)
Moved(c) == pc[c] = "commit" /\ advisory = c

(* Which quad a call is about, and where its row is. *)
CallInv ==
    \A c \in Sessions :
        /\ quad[c] = NoQuad <=> pc[c] = Idle \/ kind[c] = "worker"
        /\ pc[c] \in {"toRare", "toDelta", "count", "check"} => kind[c] # "worker"
        /\ pc[c] = "toDelta" => dedicated
        /\ own[c] \subseteq {quad[c]}
        /\ pc[c] \in {Idle, "toRare", "toDelta"} => own[c] = {}
        /\ pc[c] \in {"count", "check", "promote", "move", "commit"} /\ quad[c] # NoQuad =>
               quad[c] \in rare \cup delta \cup own[c]

(* Who holds the predicates row and the advisory lock. *)
LockInv ==
    \A c \in Sessions :
        /\ rowLock = c <=> cnt[c] # -1
        /\ rowLock = c => pc[c] \in {"check", "promote", "move", "commit"}
        /\ own[c] # {} /\ pc[c] # "count" => rowLock = c
        /\ advisory = c => pc[c] \in {"move", "commit"}
        /\ pc[c] = "move" => advisory = c
        /\ Moved(c) => rowLock = c

(* What the holder of the row has read or computed is still so. *)
MoveInv ==
    \A c \in Sessions :
        /\ rowLock = c /\ ~Moved(c) => cnt[c] = count + 1
        /\ ~Moved(c) => moved[c] = {}
        /\ Moved(c) => moved[c] = rare \cup own[c] /\ cnt[c] = Cardinality(delta \cup moved[c])

(* A row written to vp_rare and not committed is in nobody else's. *)
FreshInv ==
    \A c \in Sessions :
        /\ own[c] \cap rare = {}
        /\ \A d \in Sessions \ {c} : own[c] \cap own[d] = {}

(* triple_count is the number of rows, as long as nothing was counted that  *)
(* was not stored.                                                          *)
ExactInv ==
    /\ ~dedicated => delta = {}
    /\ ~dedicated /\ ~padded => count = Cardinality(rare)
    /\ \A c \in Sessions : rowLock = c /\ ~Moved(c) /\ ~padded => own[c] # {}

(* A promotion has at least Threshold rows to move, or finds them moved. *)
DueInv ==
    ~padded =>
        /\ dedicated => Cardinality(delta) >= Threshold
        /\ \A c \in Sessions : pc[c] \in {"promote", "move"} \/ Moved(c) =>
               Cardinality(delta \cup rare \cup own[c]) >= Threshold

(* An insert_triple that is about to commit without promoting has its quad  *)
(* where SPARQL looks.                                                      *)
FoundInv ==
    dedicated /\ ~padded =>
        /\ \A q \in rare \ delta : via[q] # "single"
        /\ \A c \in Sessions :
               pc[c] = "commit" /\ kind[c] = "single" /\ ~Moved(c) => quad[c] \in delta

PInv ==
    /\ TypeInv /\ CallInv /\ LockInv /\ MoveInv /\ FreshInv
    /\ NoQuadLost /\ CountCoversRows
    /\ ExactInv /\ DueInv /\ FoundInv

-----------------------------------------------------------------------------
(* Every part holds of the empty predicate. *)
LEMMA InitInv == Init => PInv
<1> SUFFICES ASSUME Init PROVE PInv
  OBVIOUS
<1> USE PromotionAssumption DEF Init, Idle, Moved
<1>1. TypeInv
  <2>1. cnt \in [Sessions -> -1 .. MaxCount] /\ count \in 0 .. MaxCount
    OBVIOUS
  <2>2. dedicated \in BOOLEAN /\ padded \in BOOLEAN
    OBVIOUS
  <2> QED BY <2>1, <2>2, FS_EmptySet DEF TypeInv, TypeOK, Pcs, AllKinds, NoCall
<1>2. CallInv /\ LockInv /\ MoveInv /\ FreshInv
  BY DEF CallInv, LockInv, MoveInv, FreshInv
<1>3. NoQuadLost /\ CountCoversRows
  BY FS_EmptySet DEF NoQuadLost, CountCoversRows, NoCall
<1>4. ExactInv /\ DueInv /\ FoundInv
  BY FS_EmptySet DEF ExactInv, DueInv, FoundInv
<1> QED BY <1>1, <1>2, <1>3, <1>4 DEF PInv

(* The rows of an open call are at most one. *)
LEMMA OwnSmall ==
    ASSUME TypeInv, CallInv, NEW c \in Sessions
    PROVE  IsFiniteSet(own[c]) /\ Cardinality(own[c]) \in {0, 1} /\ own[c] \subseteq Quads
<1>1. own[c] = {} \/ own[c] = {quad[c]}
  BY DEF CallInv
<1>2. own[c] \subseteq Quads
  BY DEF TypeInv, TypeOK
<1>3. CASE own[c] = {}
  BY <1>2, <1>3, FS_EmptySet
<1>4. CASE own[c] = {quad[c]}
  <2>1. IsFiniteSet({quad[c]}) /\ Cardinality({quad[c]}) = 1
    BY FS_Singleton
  <2> QED BY <1>2, <1>4, <2>1
<1> QED BY <1>1, <1>3, <1>4

(* What a transaction sees is covered by its count. *)
LEMMA SeenCovered ==
    ASSUME TypeInv, CallInv, CountCoversRows, NEW c \in Sessions
    PROVE  LET S == delta \cup (rare \cup own[c])
           IN  /\ IsFiniteSet(S) /\ IsFiniteSet(rare \cup own[c])
               /\ Cardinality(S) \in Nat /\ Cardinality(rare \cup own[c]) \in Nat
               /\ Cardinality(delta) <= Cardinality(S)
               /\ Cardinality(rare) <= Cardinality(S)
               /\ Cardinality(rare \cup own[c]) <= Cardinality(S)
               /\ Cardinality(rare \cup own[c]) <= Cardinality(rare) + Cardinality(own[c])
               /\ Cardinality(S) <= count + Cardinality(own[c])
<1> DEFINE R == rare \cup own[c]
           S == delta \cup R
<1>1. IsFiniteSet(rare) /\ IsFiniteSet(delta) /\ IsFiniteSet(own[c])
  BY OwnSmall DEF TypeInv
<1>2. /\ Cardinality(rare) \in Nat /\ Cardinality(delta) \in Nat
      /\ Cardinality(own[c]) \in Nat /\ Cardinality(rare \cap own[c]) \in Nat
  BY <1>1, FS_CardinalityType, FS_Intersection
<1>3. IsFiniteSet(R) /\ Cardinality(R) = Cardinality(rare) + Cardinality(own[c]) - Cardinality(rare \cap own[c])
  BY <1>1, FS_Union
<1>4. Cardinality(R) \in Nat /\ Cardinality(delta \cap R) \in Nat
  BY <1>1, <1>3, FS_CardinalityType, FS_Intersection
<1>5. IsFiniteSet(S) /\ Cardinality(S) = Cardinality(delta) + Cardinality(R) - Cardinality(delta \cap R)
  BY <1>1, <1>3, FS_Union
<1>6. Cardinality(delta) <= Cardinality(S) /\ Cardinality(rare) <= Cardinality(S) /\ Cardinality(R) <= Cardinality(S)
  BY <1>5, FS_Subset
<1>7. Cardinality(S) \in Nat
  BY <1>5, FS_CardinalityType
<1>8. count \in Nat /\ Cardinality(rare) + Cardinality(delta) <= count
  BY PromotionAssumption DEF TypeInv, TypeOK, CountCoversRows
<1> HIDE DEF R, S
<1>9. Cardinality(S) <= count + Cardinality(own[c])
  BY <1>2, <1>3, <1>4, <1>5, <1>8
<1>10. Cardinality(R) <= Cardinality(rare) + Cardinality(own[c])
  BY <1>2, <1>3
<1> QED BY <1>3, <1>4, <1>5, <1>6, <1>7, <1>9, <1>10 DEF R, S

(* The commit of a promotion leaves vp_rare empty: while it held the row,   *)
(* nobody has added to the tables.                                          *)
LEMMA CommitMoved ==
    ASSUME PInv, NEW c \in Sessions, Commit(c), Moved(c)
    PROVE  /\ rare' = {} /\ delta' = delta \cup (rare \cup own[c])
           /\ count' = Cardinality(delta') /\ dedicated'
           /\ rowLock = c
<1>1. cnt[c] # -1 /\ rowLock = c /\ moved[c] = rare \cup own[c] /\ cnt[c] = Cardinality(delta \cup moved[c])
  BY DEF PInv, LockInv, MoveInv
<1>2. dedicated'
  BY DEF Commit, Moved
<1> QED BY <1>1, <1>2 DEF Commit, CountSeen

(* Any other commit adds its row, if it has one, and counts it. *)
LEMMA CommitKept ==
    ASSUME PInv, NEW c \in Sessions, Commit(c), ~Moved(c)
    PROVE  /\ rare' = rare \cup own[c] /\ delta' = delta
           /\ dedicated' = dedicated
           /\ \/ rowLock = c /\ count' = count + 1
              \/ rowLock # c /\ count' = count /\ own[c] = {}
<1>1. moved[c] = {} /\ pc[c] = "commit" /\ advisory # c
  BY DEF PInv, MoveInv, Commit, Moved
<1>2. dedicated' = (dedicated \/ advisory = c)
  BY DEF Commit
<1>3. dedicated' = dedicated
  <2>1. dedicated \in BOOLEAN
    BY DEF PInv, TypeInv, TypeOK
  <2> QED BY <1>1, <1>2, <2>1
<1>4. rare' = rare \cup own[c] /\ delta' = delta
  BY <1>1 DEF Commit
<1>5. CASE rowLock = c
  BY <1>3, <1>4, <1>5 DEF Commit, CountSeen, PInv, LockInv, MoveInv
<1>6. CASE rowLock # c
  <2>1. own[c] = {} /\ cnt[c] = -1
    BY <1>1, <1>6 DEF PInv, LockInv
  <2> QED BY <1>3, <1>4, <1>6, <2>1 DEF Commit, CountSeen
<1> QED BY <1>5, <1>6

(* The end of a transaction leaves the sessions' state well typed. *)
LEMMA EndTyped ==
    ASSUME TypeInv, NEW c \in Sessions, EndSession(c)
    PROVE  /\ rowLock' \in Sessions \cup {NoSession} /\ advisory' \in Sessions \cup {NoSession}
           /\ quad' \in [Sessions -> Quads \cup {NoQuad}]
           /\ own' \in [Sessions -> SUBSET Quads] /\ moved' \in [Sessions -> SUBSET Quads]
           /\ cnt' \in [Sessions -> -1 .. MaxCount] /\ padded' \in BOOLEAN
           /\ pc' \in [Sessions -> Pcs] /\ kind' \in [Sessions -> AllKinds]
<1> USE PromotionAssumption DEF TypeInv, TypeOK, EndSession, Goto
<1>1. padded' \in BOOLEAN
  OBVIOUS
<1>2. -1 \in -1 .. MaxCount
  OBVIOUS
<1>3. cnt' \in [Sessions -> -1 .. MaxCount]
  BY <1>2
<1>4. pc' \in [Sessions -> Pcs]
  BY DEF Pcs
<1> QED BY <1>1, <1>3, <1>4 DEF AllKinds

(* Types: the counts stay below the bound, since no transaction sees more   *)
(* rows than it counts.                                                     *)
LEMMA TypeStep ==
    ASSUME PInv, [Next]_vars
    PROVE  TypeInv'
<1> USE PromotionAssumption DEF PInv, TypeInv, TypeOK, store, locks, Idle, Pcs, AllKinds, NoCall, Writer
<1>1. ASSUME NEW c \in Sessions, NEW k \in AllKinds, NEW q \in Quads, Route(c, k, q)
      PROVE  TypeInv'
  BY <1>1 DEF Route, Goto
<1>2. ASSUME NEW c \in Sessions, WorkerPromotes(c)
      PROVE  TypeInv'
  BY <1>2 DEF WorkerPromotes, Goto
<1>3. ASSUME NEW c \in Sessions, RareInsert(c)
      PROVE  TypeInv'
  <2>1. kind[c] \in {"single", "encoded", "bulk"} /\ quad[c] \in Quads
    BY <1>3 DEF RareInsert, CallInv
  <2>2. pc' \in [Sessions -> Pcs]
    BY <1>3, <2>1 DEF RareInsert, Goto
  <2> QED BY <1>3, <2>1, <2>2 DEF RareInsert
<1>4. ASSUME NEW c \in Sessions, CountUp(c)
      PROVE  TypeInv'
  <2>1. count + 1 \in -1 .. MaxCount
    BY <1>4 DEF CountUp
  <2>2. padded' \in BOOLEAN
    BY <1>4 DEF CountUp
  <2> QED BY <1>4, <2>1, <2>2 DEF CountUp, Goto
<1>5. ASSUME NEW c \in Sessions, CheckThreshold(c)
      PROVE  TypeInv'
  BY <1>5 DEF CheckThreshold, Goto
<1>6. ASSUME NEW c \in Sessions, PromoteLock(c)
      PROVE  TypeInv'
  BY <1>6 DEF PromoteLock, Goto
<1>7. ASSUME NEW c \in Sessions, PromoteMove(c)
      PROVE  TypeInv'
  <2> DEFINE S == delta \cup (rare \cup own[c])
  <2>1. Cardinality(S) \in Nat /\ Cardinality(S) <= count + Cardinality(own[c])
    BY SeenCovered
  <2>2. Cardinality(own[c]) \in {0, 1} /\ own[c] \subseteq Quads
    BY OwnSmall
  <2>3. Cardinality(S) \in -1 .. MaxCount
    <3>1. CASE own[c] = {}
      BY <2>1, <3>1, FS_EmptySet
    <3>2. CASE own[c] # {}
      <4>1. rowLock = c /\ cnt[c] = count + 1
        BY <1>7, <3>2 DEF LockInv, MoveInv, Moved, PromoteMove
      <4>2. count + 1 \in -1 .. MaxCount
        BY <4>1
      <4> HIDE DEF S
      <4> QED BY <2>1, <2>2, <4>2
    <3> QED BY <3>1, <3>2
  <2>4. rare \cup own[c] \subseteq Quads
    BY <2>2
  <2> HIDE DEF S
  <2>5. cnt' = [cnt EXCEPT ![c] = Cardinality(S)]
    BY <1>7 DEF PromoteMove, RareSeen, S
  <2> QED BY <1>7, <2>3, <2>4, <2>5 DEF PromoteMove, Goto, RareSeen
<1>8. ASSUME NEW c \in Sessions, DeltaInsert(c)
      PROVE  TypeInv'
  <2>1. count + 1 \in 0 .. MaxCount
    BY <1>8 DEF DeltaInsert
  <2>2. quad[c] \in Quads /\ IsFiniteSet(delta \cup {quad[c]})
    BY <1>8, FS_AddElement DEF CallInv, DeltaInsert
  <2> QED BY <1>8, <2>1, <2>2 DEF DeltaInsert, Goto
<1>9. ASSUME NEW c \in Sessions, Commit(c)
      PROVE  TypeInv'
  <2>1. /\ rare' \subseteq Quads /\ delta' \subseteq Quads
        /\ IsFiniteSet(rare') /\ IsFiniteSet(delta')
    <3>1. CASE Moved(c)
      <4>1. rare' = {} /\ delta' = delta \cup (rare \cup own[c])
        BY <1>9, <3>1, CommitMoved
      <4>2. IsFiniteSet(delta \cup (rare \cup own[c])) /\ own[c] \subseteq Quads
        BY OwnSmall, SeenCovered
      <4> QED BY <4>1, <4>2, FS_EmptySet
    <3>2. CASE ~Moved(c)
      <4>1. rare' = rare \cup own[c] /\ delta' = delta
        BY <1>9, <3>2, CommitKept
      <4>2. IsFiniteSet(rare \cup own[c]) /\ own[c] \subseteq Quads
        BY OwnSmall, SeenCovered
      <4> QED BY <4>1, <4>2
    <3> QED BY <3>1, <3>2
  <2>2. dedicated' \in BOOLEAN
    BY <1>9 DEF Commit
  <2>3. count' \in 0 .. MaxCount
    BY <1>9 DEF Commit, CountSeen
  <2>4. via' \in [Quads -> {NoCall, "single", "other"}]
    BY <1>9 DEF Commit
  <2>5. /\ rowLock' \in Sessions \cup {NoSession} /\ advisory' \in Sessions \cup {NoSession}
        /\ quad' \in [Sessions -> Quads \cup {NoQuad}]
        /\ own' \in [Sessions -> SUBSET Quads] /\ moved' \in [Sessions -> SUBSET Quads]
        /\ cnt' \in [Sessions -> -1 .. MaxCount] /\ padded' \in BOOLEAN
        /\ pc' \in [Sessions -> Pcs] /\ kind' \in [Sessions -> AllKinds]
    BY <1>9, EndTyped DEF Commit
  <2> QED BY <2>1, <2>2, <2>3, <2>4, <2>5
<1>10. ASSUME NEW c \in Sessions, Abort(c)
      PROVE  TypeInv'
  <2>1. /\ rowLock' \in Sessions \cup {NoSession} /\ advisory' \in Sessions \cup {NoSession}
        /\ quad' \in [Sessions -> Quads \cup {NoQuad}]
        /\ own' \in [Sessions -> SUBSET Quads] /\ moved' \in [Sessions -> SUBSET Quads]
        /\ cnt' \in [Sessions -> -1 .. MaxCount] /\ padded' \in BOOLEAN
        /\ pc' \in [Sessions -> Pcs] /\ kind' \in [Sessions -> AllKinds]
    BY <1>10, EndTyped DEF Abort
  <2> QED BY <1>10, <2>1 DEF Abort
<1>11. ASSUME UNCHANGED vars
      PROVE  TypeInv'
  BY <1>11 DEF vars, session
<1> QED BY <1>1, <1>2, <1>3, <1>4, <1>5, <1>6, <1>7, <1>8, <1>9, <1>10, <1>11 DEF Next, SessionStep

(* A call keeps its quad and its row until it ends. *)
LEMMA CallStep ==
    ASSUME PInv, [Next]_vars
    PROVE  CallInv'
<1> USE PromotionAssumption DEF PInv, TypeInv, TypeOK, store, locks, Idle, CallInv, AllKinds
<1>1. ASSUME NEW c \in Sessions, NEW k \in AllKinds, NEW q \in Quads, Route(c, k, q)
      PROVE  CallInv'
  BY <1>1 DEF Route, Goto
<1>2. ASSUME NEW c \in Sessions, WorkerPromotes(c)
      PROVE  CallInv'
  BY <1>2 DEF WorkerPromotes, Goto
<1>3. ASSUME NEW c \in Sessions, RareInsert(c)
      PROVE  CallInv'
  BY <1>3 DEF RareInsert, Goto
<1>4. ASSUME NEW c \in Sessions, CountUp(c)
      PROVE  CallInv'
  BY <1>4 DEF CountUp, Goto
<1>5. ASSUME NEW c \in Sessions, CheckThreshold(c)
      PROVE  CallInv'
  BY <1>5 DEF CheckThreshold, Goto
<1>6. ASSUME NEW c \in Sessions, PromoteLock(c)
      PROVE  CallInv'
  BY <1>6 DEF PromoteLock, Goto
<1>7. ASSUME NEW c \in Sessions, PromoteMove(c)
      PROVE  CallInv'
  BY <1>7 DEF PromoteMove, Goto
<1>8. ASSUME NEW c \in Sessions, DeltaInsert(c)
      PROVE  CallInv'
  BY <1>8 DEF DeltaInsert, Goto
<1>9. ASSUME NEW c \in Sessions, Commit(c)
      PROVE  CallInv'
  <2>1. rare \cup delta \subseteq rare' \cup delta' /\ (dedicated => dedicated')
    BY <1>9, CommitMoved, CommitKept
  <2> QED BY <1>9, <2>1 DEF Commit, EndSession, Goto
<1>10. ASSUME NEW c \in Sessions, Abort(c)
      PROVE  CallInv'
  BY <1>10 DEF Abort, EndSession, Goto
<1>11. ASSUME UNCHANGED vars
      PROVE  CallInv'
  BY <1>11 DEF vars, session
<1> QED BY <1>1, <1>2, <1>3, <1>4, <1>5, <1>6, <1>7, <1>8, <1>9, <1>10, <1>11 DEF Next, SessionStep

(* The locks follow the calls that take them. *)
LEMMA LockStep ==
    ASSUME PInv, [Next]_vars
    PROVE  LockInv'
<1> USE PromotionAssumption DEF PInv, TypeInv, TypeOK, store, locks, Idle, LockInv, Moved
<1>1. ASSUME NEW c \in Sessions, NEW k \in AllKinds, NEW q \in Quads, Route(c, k, q)
      PROVE  LockInv'
  BY <1>1 DEF Route, Goto
<1>2. ASSUME NEW c \in Sessions, WorkerPromotes(c)
      PROVE  LockInv'
  BY <1>2 DEF WorkerPromotes, Goto
<1>3. ASSUME NEW c \in Sessions, RareInsert(c)
      PROVE  LockInv'
  BY <1>3 DEF RareInsert, Goto, CallInv, AllKinds
<1>4. ASSUME NEW c \in Sessions, CountUp(c)
      PROVE  LockInv'
  BY <1>4 DEF CountUp, Goto
<1>5. ASSUME NEW c \in Sessions, CheckThreshold(c)
      PROVE  LockInv'
  BY <1>5 DEF CheckThreshold, Goto
<1>6. ASSUME NEW c \in Sessions, PromoteLock(c)
      PROVE  LockInv'
  BY <1>6 DEF PromoteLock, Goto
<1>7. ASSUME NEW c \in Sessions, PromoteMove(c)
      PROVE  LockInv'
  <2>1. Cardinality(delta \cup (rare \cup own[c])) \in Nat
    BY SeenCovered
  <2>2. Cardinality(delta \cup RareSeen(c)) # -1
    BY <2>1 DEF RareSeen
  <2> QED BY <1>7, <2>2 DEF PromoteMove, Goto
<1>8. ASSUME NEW c \in Sessions, DeltaInsert(c)
      PROVE  LockInv'
  BY <1>8 DEF DeltaInsert, Goto
<1>9. ASSUME NEW c \in Sessions, Commit(c)
      PROVE  LockInv'
  BY <1>9 DEF Commit, EndSession, Goto
<1>10. ASSUME NEW c \in Sessions, Abort(c)
      PROVE  LockInv'
  BY <1>10 DEF Abort, EndSession, Goto
<1>11. ASSUME UNCHANGED vars
      PROVE  LockInv'
  BY <1>11 DEF vars, session
<1> QED BY <1>1, <1>2, <1>3, <1>4, <1>5, <1>6, <1>7, <1>8, <1>9, <1>10, <1>11 DEF Next, SessionStep

(* A row is written only where no other transaction has it. *)
LEMMA FreshStep ==
    ASSUME PInv, [Next]_vars
    PROVE  FreshInv'
<1> USE PromotionAssumption DEF PInv, TypeInv, TypeOK, store, locks, Idle, FreshInv
<1>1. ASSUME NEW c \in Sessions, NEW k \in AllKinds, NEW q \in Quads, Route(c, k, q)
      PROVE  FreshInv'
  BY <1>1 DEF Route, Goto
<1>2. ASSUME NEW c \in Sessions, WorkerPromotes(c)
      PROVE  FreshInv'
  BY <1>2 DEF WorkerPromotes, Goto
<1>3. ASSUME NEW c \in Sessions, RareInsert(c)
      PROVE  FreshInv'
  BY <1>3 DEF RareInsert, RareBusy, Goto
<1>4. ASSUME NEW c \in Sessions, CountUp(c)
      PROVE  FreshInv'
  BY <1>4 DEF CountUp, Goto
<1>5. ASSUME NEW c \in Sessions, CheckThreshold(c)
      PROVE  FreshInv'
  BY <1>5 DEF CheckThreshold, Goto
<1>6. ASSUME NEW c \in Sessions, PromoteLock(c)
      PROVE  FreshInv'
  BY <1>6 DEF PromoteLock, Goto
<1>7. ASSUME NEW c \in Sessions, PromoteMove(c)
      PROVE  FreshInv'
  BY <1>7 DEF PromoteMove, Goto
<1>8. ASSUME NEW c \in Sessions, DeltaInsert(c)
      PROVE  FreshInv'
  BY <1>8 DEF DeltaInsert, Goto
<1>9. ASSUME NEW c \in Sessions, Commit(c)
      PROVE  FreshInv'
  <2>1. rare' \subseteq rare \cup own[c]
    BY <1>9, CommitMoved, CommitKept
  <2> QED BY <1>9, <2>1 DEF Commit, EndSession, Goto
<1>10. ASSUME NEW c \in Sessions, Abort(c)
      PROVE  FreshInv'
  BY <1>10 DEF Abort, EndSession, Goto
<1>11. ASSUME UNCHANGED vars
      PROVE  FreshInv'
  BY <1>11 DEF vars, session
<1> QED BY <1>1, <1>2, <1>3, <1>4, <1>5, <1>6, <1>7, <1>8, <1>9, <1>10, <1>11 DEF Next, SessionStep

(* Only the holder of the row changes what it has read. *)
LEMMA MoveStep ==
    ASSUME PInv, [Next]_vars
    PROVE  MoveInv'
<1> USE PromotionAssumption DEF PInv, TypeInv, TypeOK, store, locks, Idle, MoveInv, LockInv, Moved
<1>1. ASSUME NEW c \in Sessions, NEW k \in AllKinds, NEW q \in Quads, Route(c, k, q)
      PROVE  MoveInv'
  BY <1>1 DEF Route, Goto
<1>2. ASSUME NEW c \in Sessions, WorkerPromotes(c)
      PROVE  MoveInv'
  BY <1>2 DEF WorkerPromotes, Goto
<1>3. ASSUME NEW c \in Sessions, RareInsert(c)
      PROVE  MoveInv'
  BY <1>3 DEF RareInsert, Goto
<1>4. ASSUME NEW c \in Sessions, CountUp(c)
      PROVE  MoveInv'
  BY <1>4 DEF CountUp, Goto
<1>5. ASSUME NEW c \in Sessions, CheckThreshold(c)
      PROVE  MoveInv'
  BY <1>5 DEF CheckThreshold, Goto
<1>6. ASSUME NEW c \in Sessions, PromoteLock(c)
      PROVE  MoveInv'
  BY <1>6 DEF PromoteLock, Goto
<1>7. ASSUME NEW c \in Sessions, PromoteMove(c)
      PROVE  MoveInv'
  <2> DEFINE S == delta \cup RareSeen(c)
  <2> HIDE DEF S
  <2>1. cnt' = [cnt EXCEPT ![c] = Cardinality(S)]
    BY <1>7 DEF PromoteMove, S
  <2>2. moved' = [moved EXCEPT ![c] = RareSeen(c)] /\ moved'[c] = RareSeen(c)
    BY <1>7 DEF PromoteMove
  <2>3. S = delta' \cup moved'[c] /\ RareSeen(c) = rare' \cup own'[c]
    BY <1>7, <2>2 DEF PromoteMove, RareSeen, S
  <2> QED BY <1>7, <2>1, <2>2, <2>3 DEF PromoteMove, Goto
<1>8. ASSUME NEW c \in Sessions, DeltaInsert(c)
      PROVE  MoveInv'
  BY <1>8 DEF DeltaInsert, Goto
<1>9. ASSUME NEW c \in Sessions, Commit(c)
      PROVE  MoveInv'
  <2>1. ASSUME NEW d \in Sessions, d # c
        PROVE  /\ rowLock' = d /\ ~Moved(d)' => cnt'[d] = count' + 1
               /\ ~Moved(d)' => moved'[d] = {}
               /\ Moved(d)' => /\ moved'[d] = rare' \cup own'[d]
                               /\ cnt'[d] = Cardinality(delta' \cup moved'[d])
    <3>1. /\ cnt'[d] = cnt[d] /\ moved'[d] = moved[d] /\ own'[d] = own[d]
          /\ pc'[d] = pc[d] /\ (advisory' = d <=> advisory = d) /\ (rowLock' = d <=> rowLock = d)
      BY <1>9, <2>1 DEF Commit, EndSession, Goto
    <3>2. rowLock = d => rare' = rare /\ delta' = delta /\ count' = count
      <4>1. CASE Moved(c)
        BY <2>1, <4>1
      <4>2. CASE ~Moved(c)
        <5>1. /\ rare' = rare \cup own[c] /\ delta' = delta
              /\ rowLock = c \/ (count' = count /\ own[c] = {})
          BY <1>9, <4>2, CommitKept
        <5> QED BY <2>1, <5>1
      <4> QED BY <4>1, <4>2
    <3> QED BY <3>1, <3>2
  <2>2. rowLock' # c /\ ~Moved(c)' /\ moved'[c] = {}
    BY <1>9 DEF Commit, EndSession, Goto
  <2> QED BY <2>1, <2>2
<1>10. ASSUME NEW c \in Sessions, Abort(c)
      PROVE  MoveInv'
  BY <1>10 DEF Abort, EndSession, Goto
<1>11. ASSUME UNCHANGED vars
      PROVE  MoveInv'
  BY <1>11 DEF vars, session
<1> QED BY <1>1, <1>2, <1>3, <1>4, <1>5, <1>6, <1>7, <1>8, <1>9, <1>10, <1>11 DEF Next, SessionStep

(* Cardinalities of subsets and of one more element. *)
LEMMA Grows ==
    ASSUME NEW S, NEW R, IsFiniteSet(R), S \subseteq R
    PROVE  IsFiniteSet(S) /\ Cardinality(S) \in Nat /\ Cardinality(R) \in Nat /\ Cardinality(S) <= Cardinality(R)
  BY FS_Subset, FS_CardinalityType

(* A new row adds one to the number of rows. *)
LEMMA OwnAdds ==
    ASSUME PInv, NEW c \in Sessions, own[c] # {}
    PROVE  Cardinality(rare \cup own[c]) = Cardinality(rare) + 1
<1>1. own[c] = {quad[c]} /\ quad[c] \notin rare
  BY DEF PInv, CallInv, FreshInv
<1>2. IsFiniteSet(rare)
  BY DEF PInv, TypeInv
<1> QED BY <1>1, <1>2, FS_AddElement

(* A commit takes what it has written along, its own row and the rows it    *)
(* has moved.                                                               *)
LEMMA KeptStep ==
    ASSUME PInv, [Next]_vars
    PROVE  NoQuadLost'
<1> USE PromotionAssumption DEF PInv, TypeInv, TypeOK, store, locks, Idle, NoQuadLost
<1>1. ASSUME NEW c \in Sessions, NEW k \in AllKinds, NEW q \in Quads, Route(c, k, q)
      PROVE  NoQuadLost'
  BY <1>1 DEF Route, Goto
<1>2. ASSUME NEW c \in Sessions, WorkerPromotes(c)
      PROVE  NoQuadLost'
  BY <1>2 DEF WorkerPromotes, Goto
<1>3. ASSUME NEW c \in Sessions, RareInsert(c)
      PROVE  NoQuadLost'
  BY <1>3 DEF RareInsert, Goto
<1>4. ASSUME NEW c \in Sessions, CountUp(c)
      PROVE  NoQuadLost'
  BY <1>4 DEF CountUp, Goto
<1>5. ASSUME NEW c \in Sessions, CheckThreshold(c)
      PROVE  NoQuadLost'
  BY <1>5 DEF CheckThreshold, Goto
<1>6. ASSUME NEW c \in Sessions, PromoteLock(c)
      PROVE  NoQuadLost'
  BY <1>6 DEF PromoteLock, Goto
<1>7. ASSUME NEW c \in Sessions, PromoteMove(c)
      PROVE  NoQuadLost'
  BY <1>7 DEF PromoteMove, Goto
<1>8. ASSUME NEW c \in Sessions, DeltaInsert(c)
      PROVE  NoQuadLost'
  BY <1>8 DEF DeltaInsert, Goto
<1>9. ASSUME NEW c \in Sessions, Commit(c)
      PROVE  NoQuadLost'
  <2>1. rare \cup delta \cup own[c] \subseteq rare' \cup delta'
    BY <1>9, CommitMoved, CommitKept
  <2>2. quad[c] # NoQuad => quad[c] \in rare' \cup delta'
    BY <1>9, <2>1 DEF Commit, CallInv
  <2>3. CASE quad[c] = NoQuad
    BY <1>9, <2>1, <2>3 DEF Commit
  <2>4. CASE quad[c] # NoQuad
    BY <1>9, <2>1, <2>2, <2>4 DEF Commit
  <2> QED BY <2>3, <2>4
<1>10. ASSUME NEW c \in Sessions, Abort(c)
      PROVE  NoQuadLost'
  BY <1>10 DEF Abort, EndSession, Goto
<1>11. ASSUME UNCHANGED vars
      PROVE  NoQuadLost'
  BY <1>11 DEF vars, session
<1> QED BY <1>1, <1>2, <1>3, <1>4, <1>5, <1>6, <1>7, <1>8, <1>9, <1>10, <1>11 DEF Next, SessionStep

(* Every commit counts the row it adds; a promotion counts the rows there   *)
(* are.                                                                     *)
LEMMA CountStep ==
    ASSUME PInv, [Next]_vars
    PROVE  CountCoversRows'
<1> USE PromotionAssumption DEF PInv, TypeInv, TypeOK, store, locks, Idle, CountCoversRows
<1>1. ASSUME NEW c \in Sessions, NEW k \in AllKinds, NEW q \in Quads, Route(c, k, q)
      PROVE  CountCoversRows'
  BY <1>1 DEF Route, Goto
<1>2. ASSUME NEW c \in Sessions, WorkerPromotes(c)
      PROVE  CountCoversRows'
  BY <1>2 DEF WorkerPromotes, Goto
<1>3. ASSUME NEW c \in Sessions, RareInsert(c)
      PROVE  CountCoversRows'
  BY <1>3 DEF RareInsert, Goto
<1>4. ASSUME NEW c \in Sessions, CountUp(c)
      PROVE  CountCoversRows'
  BY <1>4 DEF CountUp, Goto
<1>5. ASSUME NEW c \in Sessions, CheckThreshold(c)
      PROVE  CountCoversRows'
  BY <1>5 DEF CheckThreshold, Goto
<1>6. ASSUME NEW c \in Sessions, PromoteLock(c)
      PROVE  CountCoversRows'
  BY <1>6 DEF PromoteLock, Goto
<1>7. ASSUME NEW c \in Sessions, PromoteMove(c)
      PROVE  CountCoversRows'
  BY <1>7 DEF PromoteMove, Goto
<1>8. ASSUME NEW c \in Sessions, DeltaInsert(c)
      PROVE  CountCoversRows'
  <2>1. /\ Cardinality(rare) \in Nat /\ Cardinality(delta) \in Nat
        /\ Cardinality(delta \cup {quad[c]}) \in Nat
        /\ Cardinality(delta \cup {quad[c]}) <= Cardinality(delta) + 1
    <3>1. Cardinality(rare) \in Nat /\ Cardinality(delta) \in Nat
      BY FS_CardinalityType
    <3>2. Cardinality(delta \cup {quad[c]}) = IF quad[c] \in delta THEN Cardinality(delta) ELSE Cardinality(delta) + 1
      BY FS_AddElement
    <3> QED BY <3>1, <3>2
  <2> QED BY <1>8, <2>1 DEF DeltaInsert
<1>9. ASSUME NEW c \in Sessions, Commit(c)
      PROVE  CountCoversRows'
  <2>1. CASE Moved(c)
    <3>1. rare' = {} /\ count' = Cardinality(delta') /\ IsFiniteSet(delta')
      <4>1. rare' = {} /\ count' = Cardinality(delta') /\ delta' = delta \cup (rare \cup own[c])
        BY <1>9, <2>1, CommitMoved
      <4>2. IsFiniteSet(delta \cup (rare \cup own[c]))
        BY SeenCovered
      <4> QED BY <4>1, <4>2
    <3> QED BY <3>1, FS_EmptySet, FS_CardinalityType
  <2>2. CASE ~Moved(c)
    <3>1. /\ rare' = rare \cup own[c] /\ delta' = delta
          /\ (count' = count + 1 \/ (count' = count /\ own[c] = {}))
      BY <1>9, <2>2, CommitKept
    <3>2. CASE own[c] = {}
      <4>1. rare' = rare /\ Cardinality(rare) \in Nat /\ Cardinality(delta) \in Nat
        BY <3>1, <3>2, FS_CardinalityType
      <4>2. count \in Nat /\ count' \in Nat /\ count <= count'
        BY <3>1
      <4>3. Cardinality(rare') = Cardinality(rare) /\ Cardinality(delta') = Cardinality(delta)
        BY <3>1, <4>1
      <4> QED BY <4>1, <4>2, <4>3
    <3>3. CASE own[c] # {}
      <4>1. Cardinality(rare \cup own[c]) = Cardinality(rare) + 1
        BY <3>3, OwnAdds
      <4>2. Cardinality(rare) \in Nat /\ Cardinality(delta) \in Nat
        BY FS_CardinalityType
      <4> QED BY <3>1, <3>3, <4>1, <4>2
    <3> QED BY <3>2, <3>3
  <2> QED BY <2>1, <2>2
<1>10. ASSUME NEW c \in Sessions, Abort(c)
      PROVE  CountCoversRows'
  BY <1>10 DEF Abort, EndSession, Goto
<1>11. ASSUME UNCHANGED vars
      PROVE  CountCoversRows'
  BY <1>11 DEF vars, session
<1> QED BY <1>1, <1>2, <1>3, <1>4, <1>5, <1>6, <1>7, <1>8, <1>9, <1>10, <1>11 DEF Next, SessionStep

(* Until the promotion, triple_count is the number of rows in vp_rare. *)
LEMMA ExactStep ==
    ASSUME PInv, [Next]_vars
    PROVE  ExactInv'
<1> USE PromotionAssumption DEF PInv, TypeInv, TypeOK, store, locks, Idle, ExactInv, LockInv, Moved
<1>1. ASSUME NEW c \in Sessions, NEW k \in AllKinds, NEW q \in Quads, Route(c, k, q)
      PROVE  ExactInv'
  BY <1>1 DEF Route, Goto
<1>2. ASSUME NEW c \in Sessions, WorkerPromotes(c)
      PROVE  ExactInv'
  BY <1>2 DEF WorkerPromotes, Goto
<1>3. ASSUME NEW c \in Sessions, RareInsert(c)
      PROVE  ExactInv'
  BY <1>3 DEF RareInsert, Goto
<1>4. ASSUME NEW c \in Sessions, CountUp(c)
      PROVE  ExactInv'
  BY <1>4 DEF CountUp, Goto
<1>5. ASSUME NEW c \in Sessions, CheckThreshold(c)
      PROVE  ExactInv'
  BY <1>5 DEF CheckThreshold, Goto
<1>6. ASSUME NEW c \in Sessions, PromoteLock(c)
      PROVE  ExactInv'
  BY <1>6 DEF PromoteLock, Goto
<1>7. ASSUME NEW c \in Sessions, PromoteMove(c)
      PROVE  ExactInv'
  BY <1>7 DEF PromoteMove, Goto
<1>8. ASSUME NEW c \in Sessions, DeltaInsert(c)
      PROVE  ExactInv'
  <2>1. dedicated
    BY <1>8 DEF CallInv, DeltaInsert
  <2> QED BY <1>8, <2>1 DEF DeltaInsert, Goto
<1>9. ASSUME NEW c \in Sessions, Commit(c)
      PROVE  ExactInv'
  <2>1. CASE Moved(c)
    <3>1. dedicated'
      BY <1>9, <2>1, CommitMoved
    <3> QED BY <1>9, <2>1, <3>1 DEF Commit, EndSession, Goto
  <2>2. CASE ~Moved(c)
    <3>1. /\ rare' = rare \cup own[c] /\ delta' = delta /\ dedicated' = dedicated
          /\ \/ rowLock = c /\ count' = count + 1
             \/ rowLock # c /\ count' = count /\ own[c] = {}
      BY <1>9, <2>2, CommitKept
    <3>2. ~dedicated' /\ ~padded' => count' = Cardinality(rare')
      <4>1. padded' = padded
        BY <1>9 DEF Commit, EndSession
      <4>2. own[c] # {} => Cardinality(rare \cup own[c]) = Cardinality(rare) + 1
        BY OwnAdds
      <4> QED BY <2>2, <3>1, <4>1, <4>2
    <3> QED BY <1>9, <3>1, <3>2 DEF Commit, EndSession, Goto
  <2> QED BY <2>1, <2>2
<1>10. ASSUME NEW c \in Sessions, Abort(c)
      PROVE  ExactInv'
  BY <1>10 DEF Abort, EndSession, Goto
<1>11. ASSUME UNCHANGED vars
      PROVE  ExactInv'
  BY <1>11 DEF vars, session
<1> QED BY <1>1, <1>2, <1>3, <1>4, <1>5, <1>6, <1>7, <1>8, <1>9, <1>10, <1>11 DEF Next, SessionStep

(* What a session sees after a step is finite and has at least the rows it  *)
(* includes.                                                                *)
LEMMA SeesEnough ==
    ASSUME TypeInv', CallInv', NEW d \in Sessions, NEW S,
           S \subseteq delta' \cup rare' \cup own'[d], Cardinality(S) >= Threshold
    PROVE  Cardinality(delta' \cup rare' \cup own'[d]) >= Threshold
<1>1. IsFiniteSet(delta') /\ IsFiniteSet(rare')
  BY DEF TypeInv
<1>2. IsFiniteSet(own'[d])
  <2>1. own'[d] \subseteq {quad'[d]}
    BY DEF CallInv
  <2>2. IsFiniteSet({quad'[d]})
    BY FS_Singleton
  <2> QED BY <2>1, <2>2, FS_Subset
<1>3. IsFiniteSet(delta' \cup rare' \cup own'[d])
  BY <1>1, <1>2, FS_Union
<1>4. /\ Cardinality(S) \in Nat /\ Cardinality(delta' \cup rare' \cup own'[d]) \in Nat
      /\ Cardinality(S) <= Cardinality(delta' \cup rare' \cup own'[d])
  BY <1>3, Grows
<1>5. Threshold \in Nat
  BY PromotionAssumption
<1> QED BY <1>4, <1>5

(* A session that sees the threshold reached sees that many rows. *)
LEMMA ThresholdMeansRows ==
    ASSUME PInv, ~padded, NEW c \in Sessions, CheckThreshold(c), pc'[c] = "promote"
    PROVE  Cardinality(delta \cup rare \cup own[c]) >= Threshold
<1> DEFINE S == delta \cup (rare \cup own[c])
<1>1. /\ Cardinality(S) \in Nat /\ Cardinality(rare \cup own[c]) \in Nat /\ Cardinality(delta) <= Cardinality(S)
      /\ Cardinality(rare) <= Cardinality(S) /\ Cardinality(rare \cup own[c]) <= Cardinality(S)
  BY SeenCovered DEF PInv
<1>2. Cardinality(rare) \in Nat /\ Cardinality(delta) \in Nat /\ Threshold \in Nat /\ count \in Nat
  BY FS_CardinalityType, PromotionAssumption DEF PInv, TypeInv, TypeOK
<1>3. S = delta \cup rare \cup own[c]
  OBVIOUS
<1> HIDE DEF S
<1>4. CASE dedicated
  BY <1>1, <1>2, <1>3, <1>4 DEF PInv, DueInv
<1>5. CASE ~dedicated /\ kind[c] = "single"
  <2>1. CountSeen(c) >= Threshold
    BY <1>5 DEF CheckThreshold, Goto, PInv, TypeInv, TypeOK
  <2>2. count = Cardinality(rare) /\ ~Moved(c)
    BY <1>5 DEF PInv, ExactInv, Moved, CheckThreshold
  <2>3. CASE rowLock = c
    <3>1. cnt[c] = count + 1 /\ own[c] # {}
      BY <2>2, <2>3 DEF PInv, MoveInv, ExactInv
    <3>2. Cardinality(rare \cup own[c]) = Cardinality(rare) + 1
      BY <3>1, OwnAdds
    <3> QED BY <1>1, <1>2, <1>3, <2>1, <2>2, <3>1, <3>2 DEF CountSeen
  <2>4. CASE rowLock # c
    BY <1>1, <1>2, <1>3, <2>1, <2>2, <2>4 DEF CountSeen, PInv, LockInv
  <2> QED BY <2>3, <2>4
<1>6. CASE kind[c] # "single"
  <2>1. Cardinality(RareSeen(c)) >= Threshold
    BY <1>6 DEF CheckThreshold, Goto, PInv, TypeInv, TypeOK
  <2> QED BY <1>1, <1>2, <1>3, <2>1 DEF RareSeen
<1> QED BY <1>4, <1>5, <1>6

(* Rows a promotion counts on are moved or kept, never taken away. *)
LEMMA DueStep ==
    ASSUME PInv, [Next]_vars
    PROVE  DueInv'
<1> USE PromotionAssumption DEF PInv, DueInv, Moved, store, locks
<1>0. TypeInv' /\ CallInv'
  BY TypeStep, CallStep
<1>1. ASSUME NEW c \in Sessions, NEW k \in AllKinds, NEW q \in Quads, Route(c, k, q)
      PROVE  DueInv'
  BY <1>1 DEF Route, Goto, TypeInv, Idle
<1>2. ASSUME NEW c \in Sessions, WorkerPromotes(c)
      PROVE  DueInv'
  <2>1. ASSUME NEW d \in Sessions, d # c
        PROVE  pc'[d] = pc[d]
    BY <1>2, <2>1 DEF WorkerPromotes, Goto, TypeInv
  <2>2. UNCHANGED <<rare, delta, dedicated, own, advisory, padded>> /\ Cardinality(rare) >= Threshold
    BY <1>2 DEF WorkerPromotes
  <2>3. Cardinality(delta' \cup rare' \cup own'[c]) >= Threshold
    <3>1. rare \subseteq delta' \cup rare' \cup own'[c]
      BY <2>2
    <3> QED BY <2>2, <3>1, <1>0, SeesEnough
  <2> QED BY <2>1, <2>2, <2>3
<1>3. ASSUME NEW c \in Sessions, RareInsert(c)
      PROVE  DueInv'
  <2>1. ASSUME NEW d \in Sessions, d # c
        PROVE  pc'[d] = pc[d] /\ own'[d] = own[d]
    BY <1>3, <2>1 DEF RareInsert, TypeInv, TypeOK, Goto
  <2>2. UNCHANGED <<rare, delta, dedicated, advisory, padded>>
    BY <1>3 DEF RareInsert
  <2>3. pc'[c] \notin {"promote", "move"} /\ advisory # c
    BY <1>3 DEF RareInsert, TypeInv, Goto, LockInv, CallInv, AllKinds
  <2> QED BY <2>1, <2>2, <2>3
<1>4. ASSUME NEW c \in Sessions, CountUp(c)
      PROVE  DueInv'
  BY <1>4 DEF CountUp, Goto, TypeInv, TypeOK, LockInv
<1>5. ASSUME NEW c \in Sessions, CheckThreshold(c)
      PROVE  DueInv'
  <2>1. ASSUME NEW d \in Sessions, d # c
        PROVE  pc'[d] = pc[d]
    BY <1>5, <2>1 DEF CheckThreshold, Goto, TypeInv
  <2>2. UNCHANGED <<rare, delta, dedicated, own, advisory, padded>>
    BY <1>5 DEF CheckThreshold
  <2>3. pc'[c] = "promote" /\ ~padded => Cardinality(delta \cup rare \cup own[c]) >= Threshold
    BY <1>5, ThresholdMeansRows
  <2>4. pc'[c] \in {"promote", "commit"} /\ advisory # c
    BY <1>5 DEF CheckThreshold, Goto, TypeInv, LockInv
  <2> QED BY <2>1, <2>2, <2>3, <2>4
<1>6. ASSUME NEW c \in Sessions, PromoteLock(c)
      PROVE  DueInv'
  BY <1>6 DEF PromoteLock, Goto, TypeInv
<1>7. ASSUME NEW c \in Sessions, PromoteMove(c)
      PROVE  DueInv'
  BY <1>7 DEF PromoteMove, Goto, TypeInv
<1>8. ASSUME NEW c \in Sessions, DeltaInsert(c)
      PROVE  DueInv'
  <2>1. rare' = rare /\ delta \subseteq delta' /\ own' = own /\ dedicated' = dedicated
    BY <1>8 DEF DeltaInsert
  <2>2. Cardinality(delta) >= Threshold /\ ~padded' => Cardinality(delta') >= Threshold
    <3>1. IsFiniteSet(delta') /\ IsFiniteSet(delta)
      BY <1>0 DEF TypeInv
    <3> QED BY <2>1, <3>1, Grows
  <2>3. ASSUME NEW d \in Sessions, Cardinality(delta \cup rare \cup own[d]) >= Threshold
        PROVE  Cardinality(delta' \cup rare' \cup own'[d]) >= Threshold
    <3>1. delta \cup rare \cup own[d] \subseteq delta' \cup rare' \cup own'[d]
      BY <2>1
    <3> QED BY <2>3, <3>1, <1>0, SeesEnough
  <2>4. /\ padded' = padded /\ advisory' = advisory
        /\ \A d \in Sessions : pc'[d] = pc[d] \/ pc'[d] = Idle
    BY <1>8 DEF DeltaInsert, Goto, TypeInv
  <2> QED BY <2>1, <2>2, <2>3, <2>4 DEF Idle
<1>9. ASSUME NEW c \in Sessions, Commit(c)
      PROVE  DueInv'
  <2>1. rare \cup delta \cup own[c] \subseteq rare' \cup delta'
    BY <1>9, CommitMoved, CommitKept
  <2>2. ASSUME NEW d \in Sessions, d # c, Cardinality(delta \cup rare \cup own[d]) >= Threshold
        PROVE  Cardinality(delta' \cup rare' \cup own'[d]) >= Threshold
    <3>1. own'[d] = own[d]
      BY <1>9, <2>2 DEF Commit, EndSession, TypeInv, TypeOK
    <3>2. delta \cup rare \cup own[d] \subseteq delta' \cup rare' \cup own'[d]
      BY <2>1, <3>1
    <3> QED BY <2>2, <3>2, <1>0, SeesEnough
  <2>3. ~padded /\ dedicated' => Cardinality(delta') >= Threshold
    <3>1. CASE Moved(c)
      <4>1. delta' = delta \cup rare \cup own[c]
        BY <1>9, <3>1, CommitMoved
      <4> QED BY <3>1, <4>1
    <3>2. CASE ~Moved(c)
      <4>1. delta' = delta /\ dedicated' = dedicated
        BY <1>9, <3>2, CommitKept
      <4> QED BY <4>1
    <3> QED BY <3>1, <3>2
  <2>4. /\ padded' = padded /\ pc'[c] = Idle
        /\ \A d \in Sessions \ {c} : pc'[d] = pc[d] /\ (advisory' = d => advisory = d)
    BY <1>9 DEF Commit, EndSession, Goto, TypeInv
  <2> QED BY <2>2, <2>3, <2>4 DEF Idle
<1>10. ASSUME NEW c \in Sessions, Abort(c)
      PROVE  DueInv'
  <2>1. UNCHANGED <<rare, delta, dedicated, padded>> /\ pc'[c] = Idle
    BY <1>10 DEF Abort, EndSession, Goto, TypeInv
  <2>2. \A d \in Sessions \ {c} : pc'[d] = pc[d] /\ own'[d] = own[d] /\ (advisory' = d => advisory = d)
    BY <1>10 DEF Abort, EndSession, Goto, TypeInv, TypeOK
  <2> QED BY <2>1, <2>2 DEF Idle
<1>11. ASSUME UNCHANGED vars
      PROVE  DueInv'
  BY <1>11 DEF vars, session
<1> QED BY <1>1, <1>2, <1>3, <1>4, <1>5, <1>6, <1>7, <1>8, <1>9, <1>10, <1>11 DEF Next, SessionStep

(* Once the predicate is dedicated, insert_triple always sees the threshold *)
(* reached.                                                                 *)
LEMMA SinglePromotes ==
    ASSUME PInv, dedicated, ~padded, NEW c \in Sessions, CheckThreshold(c), kind[c] = "single"
    PROVE  pc'[c] = "promote"
<1>1. /\ Cardinality(rare) \in Nat /\ Cardinality(delta) \in Nat
      /\ Threshold \in Nat /\ count \in Nat /\ cnt[c] \in Int
  BY FS_CardinalityType, PromotionAssumption DEF PInv, TypeInv, TypeOK
<1>2. Cardinality(delta) >= Threshold /\ Cardinality(rare) + Cardinality(delta) <= count
  BY DEF PInv, DueInv, CountCoversRows
<1>3. CountSeen(c) >= Threshold
  <2>1. cnt[c] = -1 \/ cnt[c] = count + 1
    BY DEF PInv, LockInv, MoveInv, Moved, CheckThreshold
  <2> QED BY <1>1, <1>2, <2>1 DEF CountSeen
<1> QED BY <1>3 DEF CheckThreshold, Goto, PInv, TypeInv

(* A row that insert_triple leaves in vp_rare is there with the others, and *)
(* the promotion that makes the predicate dedicated moves them all.         *)
LEMMA FoundStep ==
    ASSUME PInv, [Next]_vars
    PROVE  FoundInv'
<1> USE PromotionAssumption DEF PInv, FoundInv, Moved, store, locks, TypeInv, TypeOK, Idle
<1>1. ASSUME NEW c \in Sessions, NEW k \in AllKinds, NEW q \in Quads, Route(c, k, q)
      PROVE  FoundInv'
  BY <1>1 DEF Route, Goto
<1>2. ASSUME NEW c \in Sessions, WorkerPromotes(c)
      PROVE  FoundInv'
  BY <1>2 DEF WorkerPromotes, Goto
<1>3. ASSUME NEW c \in Sessions, RareInsert(c)
      PROVE  FoundInv'
  BY <1>3 DEF RareInsert, Goto, CallInv, AllKinds
<1>4. ASSUME NEW c \in Sessions, CountUp(c)
      PROVE  FoundInv'
  BY <1>4 DEF CountUp, Goto, LockInv
<1>5. ASSUME NEW c \in Sessions, CheckThreshold(c)
      PROVE  FoundInv'
  <2>1. dedicated /\ ~padded /\ kind[c] = "single" => pc'[c] = "promote"
    BY <1>5, SinglePromotes
  <2> QED BY <1>5, <2>1 DEF CheckThreshold, Goto
<1>6. ASSUME NEW c \in Sessions, PromoteLock(c)
      PROVE  FoundInv'
  BY <1>6 DEF PromoteLock, Goto
<1>7. ASSUME NEW c \in Sessions, PromoteMove(c)
      PROVE  FoundInv'
  BY <1>7 DEF PromoteMove, Goto, LockInv
<1>8. ASSUME NEW c \in Sessions, DeltaInsert(c)
      PROVE  FoundInv'
  BY <1>8 DEF DeltaInsert, Goto
<1>9. ASSUME NEW c \in Sessions, Commit(c)
      PROVE  FoundInv'
  <2>1. CASE Moved(c)
    <3>1. rare' = {} /\ delta' = delta \cup (rare \cup own[c]) /\ rowLock = c
      BY <1>9, <2>1, CommitMoved
    <3>2. ASSUME NEW d \in Sessions, pc'[d] = "commit", kind'[d] = "single", ~Moved(d)'
          PROVE  quad'[d] \in delta'
      <4>1. d # c /\ quad'[d] = quad[d] /\ pc[d] = "commit" /\ kind[d] = "single"
        BY <1>9, <3>2 DEF Commit, EndSession, Goto
      <4>2. own[d] = {} /\ quad[d] # NoQuad
        BY <3>1, <4>1 DEF LockInv, CallInv
      <4>3. quad[d] \in rare \cup delta
        BY <4>1, <4>2 DEF CallInv
      <4> QED BY <3>1, <4>1, <4>3
    <3> QED BY <3>1, <3>2
  <2>2. CASE ~Moved(c)
    <3>1. rare' = rare \cup own[c] /\ delta' = delta /\ dedicated' = dedicated /\ padded' = padded
      <4>1. padded' = padded
        BY <1>9 DEF Commit, EndSession
      <4> QED BY <1>9, <2>2, <4>1, CommitKept
    <3>2. ASSUME dedicated, ~padded, NEW q \in rare' \ delta'
          PROVE  via'[q] # "single"
      <4>1. CASE q = quad[c]
        <5>1. q \in Quads /\ quad[c] # NoQuad
          BY <3>1, <3>2, <4>1
        <5>2. via'[q] = Writer(kind[c])
          BY <1>9, <4>1, <5>1 DEF Commit
        <5>3. kind[c] # "single"
          BY <1>9, <2>2, <3>1, <3>2, <4>1 DEF Commit
        <5> QED BY <5>2, <5>3 DEF Writer
      <4>2. CASE q # quad[c]
        <5>1. q \in rare \ delta /\ q \in Quads
          BY <3>1, <3>2, <4>2 DEF CallInv
        <5>2. via'[q] = via[q]
          BY <1>9, <4>2, <5>1 DEF Commit
        <5> QED BY <3>2, <5>1, <5>2
      <4> QED BY <4>1, <4>2
    <3>3. ASSUME dedicated, ~padded, NEW d \in Sessions, pc'[d] = "commit", kind'[d] = "single", ~Moved(d)'
          PROVE  quad'[d] \in delta'
      <4>1. d # c /\ quad'[d] = quad[d] /\ pc[d] = "commit" /\ kind[d] = "single" /\ ~Moved(d)
        BY <1>9, <3>3 DEF Commit, EndSession, Goto
      <4> QED BY <3>1, <3>3, <4>1
    <3> QED BY <3>1, <3>2, <3>3
  <2> QED BY <2>1, <2>2
<1>10. ASSUME NEW c \in Sessions, Abort(c)
      PROVE  FoundInv'
  BY <1>10 DEF Abort, EndSession, Goto
<1>11. ASSUME UNCHANGED vars
      PROVE  FoundInv'
  BY <1>11 DEF vars, session
<1> QED BY <1>1, <1>2, <1>3, <1>4, <1>5, <1>6, <1>7, <1>8, <1>9, <1>10, <1>11 DEF Next, SessionStep

-----------------------------------------------------------------------------
(* The inductive invariant holds of every run. *)
THEOREM PromotionInvariant == Spec => []PInv
<1>1. PInv /\ [Next]_vars => PInv'
  <2> SUFFICES ASSUME PInv, [Next]_vars PROVE PInv'
    OBVIOUS
  <2>1. TypeInv' /\ CallInv' /\ LockInv' /\ MoveInv' /\ FreshInv'
    BY TypeStep, CallStep, LockStep, MoveStep, FreshStep
  <2>2. NoQuadLost' /\ CountCoversRows' /\ ExactInv' /\ DueInv' /\ FoundInv'
    BY KeptStep, CountStep, ExactStep, DueStep, FoundStep
  <2> QED BY <2>1, <2>2 DEF PInv
<1> QED BY <1>1, InitInv, PTL DEF Spec

(* The catalog, the tables and the sessions keep their types, and no        *)
(* transaction counts past the bound.                                       *)
THEOREM PromotionTyped == Spec => []TypeOK
<1>1. PInv => TypeOK
  BY DEF PInv, TypeInv
<1> QED BY <1>1, PromotionInvariant, PTL

(* insert_triple, insert_encoded_triple and the bulk load, racing with any  *)
(* number of promotions, lose no row they have committed.                   *)
THEOREM NoQuadIsLost == Spec => []NoQuadLost
<1>1. PInv => NoQuadLost
  BY DEF PInv
<1> QED BY <1>1, PromotionInvariant, PTL

(* predicates.triple_count never undercounts the rows stored, whatever      *)
(* order writers and promotions update it in.                               *)
THEOREM CountAlwaysCovers == Spec => []CountCoversRows
<1>1. PInv => CountCoversRows
  BY DEF PInv
<1> QED BY <1>1, PromotionInvariant, PTL

(* insert_triple's rows of a dedicated predicate are where SPARQL looks,    *)
(* for any threshold, as long as no duplicate has been counted.             *)
THEOREM SingleInsertsAreFound == Spec => []SingleInsertsFound
<1>1. PInv => SingleInsertsFound
  BY DEF PInv, FoundInv, SingleInsertsFound
<1> QED BY <1>1, PromotionInvariant, PTL
=============================================================================
