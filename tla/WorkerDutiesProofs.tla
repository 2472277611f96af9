------------------------- MODULE WorkerDutiesProofs -------------------------
(***************************************************************************)
(* Theorems about WorkerDuties, for any number of processors, focus nodes, *)
(* subjects and values, any batch size, and any number of errors and       *)
(* crashes.                                                                *)
(*                                                                         *)
(* WInv is the inductive invariant.  Of the validation queue, ForgetInv: a *)
(* focus node with too many values has a letter, or a row in the queue     *)
(* that no transaction is about to delete as conforming.  Of the           *)
(* write-back, PendingInv: a subject has an entry that the worker has not  *)
(* marked, or what the worker is about to commit agrees with its triples;  *)
(* MarkedInv, that the worker writes only rows it marks, so that a         *)
(* rollback brings their entries back; and LagInv, that a row lags behind  *)
(* the triples only by a value that is still to come.                      *)
(***************************************************************************)
EXTENDS WorkerDuties, FiniteSetTheorems, SequenceTheorems, TLAPS

-----------------------------------------------------------------------------
(* The validation queue. *)

VRow == [id : 1 .. MaxInserts, fact : Facts]

Draft == [row : VRow, letter : BOOLEAN]

(* Types, finite tables, and rows numbered by the identifiers handed out. *)
VTypeInv ==
    /\ VTypeOK
    /\ IsFiniteSet(facts) /\ letters \subseteq VRow
    /\ chosen \in [Processors -> SUBSET VRow] /\ drafted \in [Processors -> SUBSET Draft]
    /\ working \in [Processors -> BOOLEAN] /\ checking \in [Processors -> Facts \cup {NoFact}]
    /\ \A r \in vqueue : r.id <= sid
    /\ \A p \in Processors :
           /\ \A r \in chosen[p] : r.id <= sid
           /\ \A d \in drafted[p] : d.row.id <= sid

(* No transaction is about to delete row r and to say nothing. *)
Kept(r) == \A p \in Processors : \A d \in drafted[p] : d.row = r => d.letter

Lettered(f) == \E l \in letters : l.fact[1] = f

ForgetInv ==
    \A f \in Focus \ wrongly :
        \/ CountValues(f) <= MaxCount
        \/ Lettered(f)
        \/ \E r \in vqueue : r.fact[1] = f /\ Kept(r)

VInv == VTypeInv /\ ForgetInv

-----------------------------------------------------------------------------
(* The write-back. *)

(* The row of a subject as the worker's transaction sees it. *)
RowSeen(s) == IF s \in DOMAIN written THEN written[s] ELSE target[s]

(* Types; an open transaction only has entries and rows. *)
JTypeInv ==
    /\ JTypeOK
    /\ clock \in 0 .. MaxClock
    /\ batch \in Seq(Entry)
    /\ \A i, j \in DOMAIN batch : batch[i] = batch[j] => i = j
    /\ \A s \in DOMAIN written : written[s] \in Row \cup {NoRow}
    /\ ~draining => batch = <<>> /\ marked = {} /\ DOMAIN written = {}
    /\ \A e \in jqueue : e.at <= clock

MarkedInv == \A s \in DOMAIN written : \E e \in marked : e.s = s

(* Subjects whose rows are to agree with their triples. *)
Due == Subjects \ (strayed \cup moved)

UpsertInv == \A e \in jqueue : e.s \in Due => e.op = "upsert"

Lags(s, row) == row \in {NoRow, [value |-> NoValue], [value |-> column[s]]}

LagInv == \A s \in Due : Lags(s, target[s]) /\ Lags(s, RowSeen(s))

PendingInv ==
    \A s \in Due \cap keyed :
        \/ Policy # "replace"
        \/ \E e \in jqueue \ marked : e.s = s
        \/ RowSeen(s) = [value |-> column[s]]

JInv == JTypeInv /\ MarkedInv /\ UpsertInv /\ LagInv /\ PendingInv

(* The inductive invariant. *)
WInv == VInv /\ JInv /\ duty \in Duties /\ errors \in 0 .. MaxErrors

-----------------------------------------------------------------------------
(* The number of a focus node's values, after a triple is inserted or       *)
(* deleted.                                                                 *)
LEMMA CountType ==
    ASSUME IsFiniteSet(facts), NEW f
    PROVE  IsFiniteSet({y \in facts : y[1] = f}) /\ CountValues(f) \in Nat
<1>1. IsFiniteSet({y \in facts : y[1] = f})
  BY FS_Subset
<1> QED BY <1>1, FS_CardinalityType DEF CountValues

(* One triple more adds at most one value, to its own focus node. *)
LEMMA CountAfterInsert ==
    ASSUME IsFiniteSet(facts), NEW x, facts' = facts \cup {x}, NEW f
    PROVE  /\ IsFiniteSet(facts')
           /\ CountValues(f)' \in Nat
           /\ CountValues(f)' <= CountValues(f) + 1
           /\ f # x[1] => CountValues(f)' = CountValues(f)
<1> DEFINE S == {y \in facts : y[1] = f}
           T == {y \in facts' : y[1] = f}
<1>1. IsFiniteSet(facts')
  BY FS_AddElement
<1>2. IsFiniteSet(S) /\ CountValues(f) \in Nat
  BY CountType
<1>3. CASE f = x[1]
  <2>1. T = S \cup {x}
    BY <1>3
  <2>2. Cardinality(S \cup {x}) \in {Cardinality(S), Cardinality(S) + 1}
    BY <1>2, FS_AddElement
  <2> HIDE DEF S, T
  <2>3. Cardinality(T) \in {Cardinality(S), Cardinality(S) + 1}
    BY <2>1, <2>2
  <2> QED BY <1>1, <1>2, <1>3, <2>3 DEF CountValues, S, T
<1>4. CASE f # x[1]
  <2>1. T = S
    BY <1>4
  <2> HIDE DEF S, T
  <2>2. Cardinality(T) = Cardinality(S)
    BY <2>1
  <2> QED BY <1>1, <1>2, <1>4, <2>2 DEF CountValues, S, T
<1> QED BY <1>3, <1>4

(* Fewer triples have no more values. *)
LEMMA CountAfterDelete ==
    ASSUME IsFiniteSet(facts), facts' \subseteq facts, NEW f
    PROVE  IsFiniteSet(facts') /\ CountValues(f)' \in Nat /\ CountValues(f)' <= CountValues(f)
<1>1. {y \in facts' : y[1] = f} \subseteq {y \in facts : y[1] = f}
  OBVIOUS
<1>2. IsFiniteSet({y \in facts : y[1] = f}) /\ IsFiniteSet(facts')
  BY CountType, FS_Subset
<1>3. /\ Cardinality({y \in facts' : y[1] = f}) <= Cardinality({y \in facts : y[1] = f})
      /\ IsFiniteSet({y \in facts' : y[1] = f})
  BY <1>1, <1>2, FS_Subset
<1> QED BY <1>2, <1>3, FS_CardinalityType DEF CountValues

(* A step that changes neither the triples nor the history forgets nothing  *)
(* if it keeps letters and the rows it is to keep.                          *)
LEMMA StillRemembered ==
    ASSUME ForgetInv, facts' = facts, wrongly \subseteq wrongly', letters \subseteq letters',
           \A r \in vqueue : Kept(r) => r \in vqueue' /\ Kept(r)'
    PROVE  ForgetInv'
<1> SUFFICES ASSUME NEW f \in Focus \ wrongly' PROVE CountValues(f)' <= MaxCount \/ Lettered(f)'
                    \/ \E r \in vqueue' : r.fact[1] = f /\ Kept(r)'
  BY DEF ForgetInv
<1>1. CountValues(f)' = CountValues(f)
  BY DEF CountValues
<1>2. Lettered(f) => Lettered(f)'
  BY DEF Lettered
<1> QED BY <1>1, <1>2 DEF ForgetInv

(* A new row is in nobody's hands. *)
LEMMA InsertAsyncStep ==
    ASSUME VInv, NEW x \in Facts, InsertAsync(x)
    PROVE  VInv'
<1> USE ValidationAssumption DEF VInv
<1>1. VTypeInv'
  <2>1. sid + 1 \in 1 .. MaxInserts /\ sid \in Nat
    BY DEF InsertAsync, VTypeInv, VTypeOK, VRow, Draft
  <2>2. [id |-> sid + 1, fact |-> x] \in VRow
    BY <2>1 DEF VRow
  <2>3. IsFiniteSet(facts')
    BY CountAfterInsert DEF InsertAsync, VTypeInv
  <2>4. vqueue' \subseteq VRow /\ \A r \in vqueue' : r.id <= sid'
    BY <2>1, <2>2 DEF InsertAsync, VTypeInv, VTypeOK, VRow, Draft
  <2>5. \A p \in Processors : /\ \A r \in chosen'[p] : r.id <= sid'
                              /\ \A d \in drafted'[p] : d.row.id <= sid'
    BY <2>1 DEF InsertAsync, VTypeInv, VTypeOK, VRow, Draft
  <2>6. facts' \subseteq Facts /\ sid' \in 0 .. MaxInserts
    BY <2>1 DEF InsertAsync, VTypeInv, VTypeOK, VRow, Draft
  <2> QED BY <2>3, <2>4, <2>5, <2>6 DEF InsertAsync, VTypeInv, VTypeOK, VRow, Draft
<1>2. ForgetInv'
  <2>1. PICK r \in vqueue' : r = [id |-> sid + 1, fact |-> x]
    BY DEF InsertAsync
  <2>2. sid \in Nat
    BY DEF VTypeInv, VTypeOK
  <2>3. \A p \in Processors : \A d \in drafted[p] : d.row.id \in Nat /\ d.row.id <= sid
    BY DEF VTypeInv, VTypeOK, VRow, Draft
  <2>4. Kept(r)'
    <3>1. \A p \in Processors : \A d \in drafted[p] : d.row # r
      BY <2>1, <2>2, <2>3
    <3> QED BY <3>1 DEF Kept, InsertAsync
  <2>5. vqueue \subseteq vqueue' /\ UNCHANGED <<letters, drafted, wrongly>> /\ facts' = facts \cup {x}
    BY DEF InsertAsync
  <2>6. \A q \in vqueue : Kept(q)' = Kept(q)
    BY <2>5 DEF Kept
  <2>7. ASSUME NEW f \in Focus \ wrongly', f # x[1]
        PROVE  CountValues(f)' = CountValues(f) /\ Lettered(f)' = Lettered(f)
    BY <2>5, <2>7, CountAfterInsert DEF VTypeInv, Lettered
  <2>8. r.fact[1] = x[1]
    BY <2>1
  <2> QED BY <2>4, <2>5, <2>6, <2>7, <2>8 DEF ForgetInv
<1> QED BY <1>1, <1>2

(* A check changes nothing that counts. *)
LEMMA CheckSyncStep ==
    ASSUME VInv, NEW p \in Processors, NEW x \in Facts, CheckSync(p, x)
    PROVE  VInv'
<1> USE ValidationAssumption DEF VInv
<1>1. VTypeInv'
  BY DEF CheckSync, VTypeInv, VTypeOK, VRow, Draft
<1>2. ForgetInv'
  BY StillRemembered DEF CheckSync, Kept
<1> QED BY <1>1, <1>2

(* A triple that still conforms leaves the count within bounds; one that    *)
(* does not is in the history.                                              *)
LEMMA InsertSyncStep ==
    ASSUME VInv, NEW p \in Processors, InsertSync(p)
    PROVE  VInv'
<1> USE ValidationAssumption DEF VInv
<1>1. VTypeInv'
  <2>1. checking[p] \in Facts /\ checking[p][1] \in Focus
    BY DEF InsertSync, VTypeInv, VTypeOK, VRow, Draft, Facts
  <2>2. IsFiniteSet(facts')
    BY CountAfterInsert DEF InsertSync, VTypeInv
  <2>3. sid \in Nat /\ sid' = sid + 1 /\ sid' \in 0 .. MaxInserts
    BY DEF InsertSync, VTypeInv, VTypeOK, VRow, Draft
  <2>4. /\ \A r \in vqueue' : r.id <= sid'
        /\ \A q \in Processors : /\ \A r \in chosen'[q] : r.id <= sid'
                                 /\ \A d \in drafted'[q] : d.row.id <= sid'
    BY <2>3 DEF InsertSync, VTypeInv, VTypeOK, VRow, Draft
  <2>5. facts' \subseteq Facts /\ wrongly' \subseteq Focus
    BY <2>1 DEF InsertSync, VTypeInv, VTypeOK, VRow, Draft
  <2> QED BY <2>1, <2>2, <2>3, <2>4, <2>5 DEF InsertSync, VTypeInv, VTypeOK, VRow, Draft
<1>2. ForgetInv'
  <2> DEFINE x == checking[p]
  <2>1. facts' = facts \cup {x} /\ UNCHANGED <<vqueue, letters, drafted>> /\ wrongly \subseteq wrongly'
    BY DEF InsertSync
  <2>2. ASSUME NEW f \in Focus \ wrongly'
        PROVE  CountValues(f)' <= MaxCount \/ CountValues(f)' = CountValues(f)
    <3>1. /\ CountValues(f)' \in Nat /\ CountValues(f)' <= CountValues(f) + 1 /\ CountValues(f) \in Nat
          /\ f # x[1] => CountValues(f)' = CountValues(f)
      BY <2>1, CountAfterInsert, CountType DEF VTypeInv
    <3>2. CASE f = x[1]
      <4>1. Validates(x)
        BY <2>2, <3>2 DEF InsertSync
      <4>2. CountValues(f) + 1 <= MaxCount
        BY <3>2, <4>1 DEF Validates
      <4> QED BY <3>1, <4>2
    <3> QED BY <3>1, <3>2
  <2>3. /\ \A f \in Focus : Lettered(f)' = Lettered(f)
        /\ \A q \in vqueue : Kept(q)' = Kept(q)
    BY <2>1 DEF Lettered, Kept
  <2> HIDE DEF x
  <2> QED BY <2>1, <2>2, <2>3 DEF ForgetInv
<1> QED BY <1>1, <1>2

(* Fewer triples forget nothing. *)
LEMMA DeleteFactStep ==
    ASSUME VInv, NEW x \in Facts, DeleteFact(x)
    PROVE  VInv'
<1> USE ValidationAssumption DEF VInv
<1>1. VTypeInv'
  <2>1. IsFiniteSet(facts')
    BY CountAfterDelete DEF DeleteFact, VTypeInv
  <2> QED BY <2>1 DEF DeleteFact, VTypeInv, VTypeOK, VRow, Draft
<1>2. ForgetInv'
  <2>1. facts' \subseteq facts /\ UNCHANGED <<vqueue, letters, drafted, wrongly>>
    BY DEF DeleteFact
  <2>2. ASSUME NEW f
        PROVE  CountValues(f)' <= CountValues(f) /\ CountValues(f) \in Nat /\ CountValues(f)' \in Nat
    BY <2>1, CountAfterDelete, CountType DEF VTypeInv
  <2>3. ASSUME NEW f
        PROVE  CountValues(f) <= MaxCount => CountValues(f)' <= MaxCount
    BY <2>2
  <2>4. /\ \A f \in Focus : Lettered(f)' = Lettered(f)
        /\ \A q \in vqueue : Kept(q)' = Kept(q)
    BY <2>1 DEF Lettered, Kept
  <2> QED BY <2>1, <2>3, <2>4 DEF ForgetInv
<1> QED BY <1>1, <1>2

(* Rows are selected without being taken. *)
LEMMA SelectStep ==
    ASSUME VInv, NEW p \in Processors, Select(p)
    PROVE  VInv'
<1> USE ValidationAssumption DEF VInv
<1>1. VTypeInv'
  <2>1. working' \in [Processors -> BOOLEAN]
    BY DEF Select, VTypeInv, VTypeOK, VRow, Draft
  <2>2. chosen' \in [Processors -> SUBSET VRow]
    BY DEF Select, VTypeInv, VTypeOK, VRow, Draft
  <2> QED BY <2>1, <2>2 DEF Select, VTypeInv, VTypeOK, VRow, Draft
<1>2. ForgetInv'
  BY StillRemembered DEF Select, Kept
<1> QED BY <1>1, <1>2

(* A row is judged conforming only when its focus node is within bounds. *)
LEMMA JudgeStep ==
    ASSUME VInv, NEW p \in Processors, NEW r \in chosen[p], Judge(p, r)
    PROVE  VInv'
<1> USE ValidationAssumption DEF VInv
<1>1. VTypeInv'
  <2> DEFINE e == [row |-> r, letter |-> ~Validates(r.fact)]
  <2>1. r \in VRow /\ r.id <= sid
    BY DEF VTypeInv, VTypeOK, VRow, Draft
  <2>2. e \in Draft /\ e.row = r
    BY <2>1 DEF Draft
  <2> HIDE DEF e
  <2>3. drafted' = [drafted EXCEPT ![p] = @ \cup {e}] /\ chosen' = [chosen EXCEPT ![p] = @ \ {r}]
    BY DEF Judge, e
  <2>4. drafted' \in [Processors -> SUBSET Draft] /\ chosen' \in [Processors -> SUBSET VRow]
    BY <2>2, <2>3 DEF VTypeInv
  <2>5. /\ drafted'[p] = drafted[p] \cup {e} /\ chosen'[p] = chosen[p] \ {r}
        /\ \A q \in Processors \ {p} : drafted'[q] = drafted[q] /\ chosen'[q] = chosen[q]
    BY <2>3 DEF VTypeInv
  <2>6. \A q \in Processors : /\ \A s \in chosen'[q] : s.id <= sid
                              /\ \A d \in drafted'[q] : d.row.id <= sid
    BY <2>1, <2>2, <2>5 DEF VTypeInv
  <2>7. \A q \in Processors : chosen'[q] \cap {d.row : d \in drafted'[q]} = {}
    BY <2>2, <2>5 DEF VTypeInv, VTypeOK
  <2>8. UNCHANGED <<facts, sid, vqueue, letters, working, checking, wrongly>> /\ working[p]
    BY DEF Judge
  <2>9. \A q \in Processors : ~working'[q] => chosen'[q] = {} /\ drafted'[q] = {}
    BY <2>5, <2>8 DEF VTypeInv, VTypeOK
  <2> QED BY <2>4, <2>6, <2>7, <2>8, <2>9 DEF VTypeInv, VTypeOK, VRow
<1>2. ForgetInv'
  <2> DEFINE e == [row |-> r, letter |-> ~Validates(r.fact)]
  <2>1. /\ UNCHANGED <<facts, vqueue, letters, wrongly>>
        /\ drafted' = [drafted EXCEPT ![p] = @ \cup {e}]
    BY DEF Judge
  <2>2. /\ \A f : CountValues(f)' = CountValues(f) /\ Lettered(f)' = Lettered(f)
    BY <2>1 DEF CountValues, Lettered
  <2>3. CASE Validates(r.fact)
    <3>1. CountValues(r.fact[1]) <= MaxCount
      <4>1. CountValues(r.fact[1]) + 1 <= MaxCount /\ CountValues(r.fact[1]) \in Nat
        BY <2>3, CountType DEF Validates, VTypeInv
      <4> QED BY <4>1
    <3>2. \A q \in vqueue : q # r /\ Kept(q) => Kept(q)'
      BY <2>1 DEF Kept, VTypeInv
    <3> QED BY <2>1, <2>2, <3>1, <3>2 DEF ForgetInv
  <2>4. CASE ~Validates(r.fact)
    <3>1. e.letter
      BY <2>4
    <3> HIDE DEF e
    <3>2. \A q \in vqueue : Kept(q) => Kept(q)'
      BY <2>1, <3>1 DEF Kept, VTypeInv
    <3> QED BY <2>1, <2>2, <3>2 DEF ForgetInv
  <2> QED BY <2>3, <2>4
<1> QED BY <1>1, <1>2

(* A row that is kept stays, or leaves a letter. *)
LEMMA FinishStep ==
    ASSUME VInv, NEW p \in Processors, Finish(p)
    PROVE  VInv'
<1> USE ValidationAssumption DEF VInv
<1>1. VTypeInv'
  <2>1. working' \in [Processors -> BOOLEAN]
    BY DEF Finish, Done, VTypeInv, VTypeOK, VRow, Draft
  <2>2. chosen' \in [Processors -> SUBSET VRow] /\ drafted' \in [Processors -> SUBSET Draft]
    BY DEF Finish, Done, VTypeInv, VTypeOK, VRow, Draft
  <2>3. letters' \subseteq VRow
    BY DEF Finish, VTypeInv, VTypeOK, VRow, Draft
  <2> QED BY <2>1, <2>2, <2>3 DEF Finish, Done, VTypeInv, VTypeOK, VRow, Draft
<1>2. ForgetInv'
  <2>1. /\ UNCHANGED <<facts, wrongly>>
        /\ letters \subseteq letters' /\ vqueue' = vqueue \ Dequeued(p)
        /\ \A d \in drafted[p] : d.letter => d.row \in letters'
        /\ \A q \in Processors : drafted'[q] \subseteq drafted[q]
    BY DEF Finish, Done, VTypeInv
  <2>2. \A r \in vqueue : Kept(r) => r \in vqueue' \/ r \in letters'
    BY <2>1 DEF Kept, Dequeued
  <2>3. \A r \in vqueue : Kept(r) => Kept(r)'
    BY <2>1 DEF Kept
  <2>4. \A f : CountValues(f)' = CountValues(f) /\ (Lettered(f) => Lettered(f)')
    BY <2>1 DEF CountValues, Lettered
  <2> QED BY <2>1, <2>2, <2>3, <2>4 DEF ForgetInv, Lettered
<1> QED BY <1>1, <1>2

(* A rollback leaves the rows in the queue. *)
LEMMA GiveUpStep ==
    ASSUME VInv, NEW p \in Processors, GiveUp(p)
    PROVE  VInv'
<1> USE ValidationAssumption DEF VInv
<1>1. VTypeInv'
  <2>1. working' \in [Processors -> BOOLEAN]
    BY DEF GiveUp, Done, VTypeInv, VTypeOK, VRow, Draft
  <2> QED BY <2>1 DEF GiveUp, Done, VTypeInv, VTypeOK, VRow, Draft
<1>2. ForgetInv'
  <2>1. /\ UNCHANGED <<facts, vqueue, letters, wrongly>>
        /\ \A q \in Processors : drafted'[q] \subseteq drafted[q]
    BY DEF GiveUp, Done, VTypeInv
  <2> QED BY <2>1, StillRemembered DEF Kept
<1> QED BY <1>1, <1>2

(* A crash takes the queue, and the focus nodes in it are in the history. *)
LEMMA VCrashStep ==
    ASSUME VInv, VCrash
    PROVE  VInv'
<1> USE ValidationAssumption DEF VInv
<1>1. VTypeInv'
  <2>1. working' \in [Processors -> BOOLEAN]
    BY DEF VCrash
  <2>2. wrongly' \subseteq Focus
    BY DEF VCrash, VTypeInv, VTypeOK, VRow, Draft, Facts
  <2> QED BY <2>1, <2>2 DEF VCrash, VTypeInv, VTypeOK, VRow, Draft
<1>2. ForgetInv'
  <2>1. UNCHANGED <<facts, letters>> /\ wrongly' = wrongly \cup {r.fact[1] : r \in vqueue}
    BY DEF VCrash
  <2>2. \A f : CountValues(f)' = CountValues(f) /\ Lettered(f)' = Lettered(f)
    BY <2>1 DEF CountValues, Lettered
  <2> QED BY <2>1, <2>2 DEF ForgetInv
<1> QED BY <1>1, <1>2

(* Steps of the write-back do not touch the validation queue. *)
LEMMA VStutter ==
    ASSUME VInv, UNCHANGED vvars
    PROVE  VInv'
<1> USE ValidationAssumption DEF VInv
<1>1. VTypeInv'
  BY DEF vvars, VTypeInv, VTypeOK, VRow, Draft
<1>2. ForgetInv'
  BY StillRemembered DEF vvars, Kept
<1> QED BY <1>1, <1>2
-----------------------------------------------------------------------------
(* A transaction that changes triples: the entry it puts into the queue is  *)
(* newer than any the worker has marked.  Where it does not put one, the    *)
(* subject's triples stay.                                                  *)
LEMMA EnqueueStep ==
    ASSUME JInv, NEW S \in SUBSET Subjects, NEW ops \in SUBSET Ops, NEW stray \in SUBSET Subjects,
           Enqueue(S, ops, stray),
           keyed' \subseteq Subjects, buried' \subseteq Subjects,
           column' \in [Subjects -> Values \cup {NoValue}],
           known' \subseteq {"key", "column"}, promoted' \in BOOLEAN,
           moved \subseteq moved', moved' \subseteq Subjects,
           \A s \in Due' : /\ s \in S => ops = {"upsert"}
                           /\ column'[s] = column[s] \/ column[s] = NoValue
                           /\ s \notin S => column'[s] = column[s] /\ (s \in keyed' => s \in keyed)
    PROVE  JInv'
<1> USE JsonAssumption DEF JInv
<1>0. /\ UNCHANGED <<enabled, target, batch, marked, written, draining>>
      /\ strayed \subseteq strayed' /\ strayed' \subseteq Subjects
      /\ clock \in Nat /\ clock' = clock + 1 /\ clock + 1 \in 1 .. MaxClock
      /\ jqueue \subseteq jqueue'
  BY DEF Enqueue, jworker, JTypeInv, JTypeOK
<1>1. Due' \subseteq Due
  BY <1>0 DEF Due
<1>2. ASSUME NEW e \in jqueue' \ jqueue
      PROVE  /\ enabled /\ e \in Entry /\ e.s \in S /\ e.op \in ops /\ e.at = clock + 1
  BY <1>0 DEF Enqueue, Entry
<1>3. ASSUME NEW e \in jqueue PROVE e \in Entry /\ e.at <= clock /\ e.at <= clock'
  <2>1. e \in Entry /\ e.at <= clock /\ e.at \in Nat
    BY DEF JTypeInv, JTypeOK, Entry
  <2> QED BY <2>1, <1>0
<1>4. JTypeInv'
  <2>1. jqueue' \subseteq Entry /\ \A e \in jqueue' : e.at <= clock'
    BY <1>0, <1>2, <1>3
  <2>2. JTypeOK'
    BY <1>0, <2>1 DEF JTypeInv, JTypeOK
  <2> QED BY <1>0, <2>1, <2>2 DEF JTypeInv
<1>5. MarkedInv'
  BY <1>0 DEF MarkedInv
<1>6. UpsertInv'
  <2> SUFFICES ASSUME NEW e \in jqueue', e.s \in Due' PROVE e.op = "upsert"
    BY DEF UpsertInv
  <2>1. CASE e \in jqueue
    BY <2>1, <1>1 DEF UpsertInv
  <2>2. CASE e \notin jqueue
    BY <2>2, <1>2
  <2> QED BY <2>1, <2>2
<1>7. \A s \in Due : RowSeen(s)' = RowSeen(s)
  BY <1>0 DEF RowSeen
<1>8. LagInv'
  <2> SUFFICES ASSUME NEW s \in Due' PROVE Lags(s, target[s])' /\ Lags(s, RowSeen(s))'
    BY DEF LagInv
  <2>1. Lags(s, target[s]) /\ Lags(s, RowSeen(s)) /\ (column'[s] = column[s] \/ column[s] = NoValue)
    BY <1>1 DEF LagInv
  <2>2. target'[s] = target[s] /\ RowSeen(s)' = RowSeen(s)
    BY <1>0, <1>1, <1>7
  <2> QED BY <2>1, <2>2 DEF Lags
<1>9. PendingInv'
  <2> SUFFICES ASSUME NEW s \in Due', s \in keyed', Policy = "replace"
               PROVE  (\E e \in jqueue' \ marked' : e.s = s) \/ RowSeen(s)' = [value |-> column'[s]]
    BY DEF PendingInv
  <2>1. CASE s \in S
    <3>1. enabled
      BY <2>1 DEF Enqueue, Due
    <3>2. ops = {"upsert"}
      BY <2>1
    <3>3. PICK e \in jqueue' : e = [s |-> s, op |-> "upsert", at |-> clock + 1]
      BY <2>1, <3>1, <3>2, <1>0 DEF Enqueue
    <3>4. e \notin marked
      BY <3>3, <1>0, <1>3 DEF JTypeInv, JTypeOK
    <3> QED BY <3>3, <3>4, <1>0
  <2>2. CASE s \notin S
    <3>1. s \in Due \cap keyed /\ column'[s] = column[s]
      BY <2>2, <1>1
    <3>2. (\E e \in jqueue \ marked : e.s = s) \/ RowSeen(s) = [value |-> column[s]]
      BY <3>1 DEF PendingInv
    <3> QED BY <3>1, <3>2, <1>0, <1>7
  <2> QED BY <2>1, <2>2
<1> QED BY <1>4, <1>5, <1>6, <1>8, <1>9

(* A key that is inserted is enqueued; one that is deleted strays. *)
LEMMA KeyStep ==
    ASSUME JInv, NEW s \in Subjects, InsertKey(s) \/ DeleteKey(s)
    PROVE  JInv'
<1>0. keyed \subseteq Subjects /\ buried \subseteq Subjects /\ moved \subseteq Subjects
      /\ column \in [Subjects -> Values \cup {NoValue}] /\ known \subseteq {"key", "column"} /\ promoted \in BOOLEAN
  BY DEF JInv, JTypeInv, JTypeOK
<1>1. CASE InsertKey(s)
  <2>1. Enqueue({s}, {"upsert"}, {})
    BY <1>1 DEF InsertKey
  <2>2. keyed' = keyed \cup {s} /\ known' = known \cup {"key"} /\ UNCHANGED <<moved, column, promoted, buried>>
    BY <1>1 DEF InsertKey
  <2> QED BY <1>0, <2>1, <2>2, EnqueueStep DEF Ops
<1>2. CASE DeleteKey(s)
  <2>1. Enqueue({s}, {"delete"}, {s})
    BY <1>2 DEF DeleteKey
  <2>2. keyed' = keyed \ {s} /\ UNCHANGED <<moved, column, known, promoted, buried>>
    BY <1>2 DEF DeleteKey
  <2>3. s \notin Due'
    BY <2>1 DEF Enqueue, Due
  <2> QED BY <1>0, <2>1, <2>2, <2>3, EnqueueStep DEF Ops
<1> QED BY <1>1, <1>2

(* A value that is inserted where there was none is enqueued; one that is   *)
(* deleted or changed strays.                                               *)
LEMMA ValueStep ==
    ASSUME JInv, NEW s \in Subjects, NEW v \in Values,
           InsertValue(s, v) \/ DeleteValue(s) \/ UpdateValue(s, v)
    PROVE  JInv'
<1>0. keyed \subseteq Subjects /\ buried \subseteq Subjects /\ moved \subseteq Subjects
      /\ column \in [Subjects -> Values \cup {NoValue}] /\ known \subseteq {"key", "column"} /\ promoted \in BOOLEAN
  BY DEF JInv, JTypeInv, JTypeOK
<1>1. CASE InsertValue(s, v)
  <2>1. Enqueue({s}, {"upsert"}, {})
    BY <1>1 DEF InsertValue
  <2>2. /\ column[s] = NoValue /\ column' = [column EXCEPT ![s] = v] /\ known' = known \cup {"column"}
        /\ UNCHANGED <<moved, keyed, promoted, buried>>
    BY <1>1 DEF InsertValue
  <2>3. \A t \in Subjects : column'[t] = column[t] \/ (t = s /\ column[t] = NoValue)
    BY <1>0, <2>2
  <2>4. Due' \subseteq Subjects /\ column' \in [Subjects -> Values \cup {NoValue}]
    BY <1>0, <2>2 DEF Due
  <2> QED BY <1>0, <2>1, <2>2, <2>3, <2>4, EnqueueStep DEF Ops
<1>2. CASE DeleteValue(s)
  <2>1. Enqueue({s}, {"delete"}, {s})
    BY <1>2 DEF DeleteValue
  <2>2. column' = [column EXCEPT ![s] = NoValue] /\ UNCHANGED <<moved, keyed, known, promoted, buried>>
    BY <1>2 DEF DeleteValue
  <2>3. \A t \in Subjects \ {s} : column'[t] = column[t]
    BY <1>0, <2>2
  <2>4. Due' \subseteq Subjects \ {s} /\ column' \in [Subjects -> Values \cup {NoValue}]
    BY <1>0, <2>1, <2>2 DEF Due, Enqueue
  <2> QED BY <1>0, <2>1, <2>2, <2>3, <2>4, EnqueueStep DEF Ops
<1>3. CASE UpdateValue(s, v)
  <2>1. Enqueue({s}, Ops, {s})
    BY <1>3 DEF UpdateValue
  <2>2. column' = [column EXCEPT ![s] = v] /\ UNCHANGED <<moved, keyed, known, promoted, buried>>
    BY <1>3 DEF UpdateValue
  <2>3. \A t \in Subjects \ {s} : column'[t] = column[t]
    BY <1>0, <2>2
  <2>4. Due' \subseteq Subjects \ {s} /\ column' \in [Subjects -> Values \cup {NoValue}]
    BY <1>0, <2>1, <2>2 DEF Due, Enqueue
  <2> QED BY <1>0, <2>1, <2>2, <2>3, <2>4, EnqueueStep
<1> QED BY <1>1, <1>2, <1>3

(* A tombstone for nothing strays; the rows a promotion moves are in the    *)
(* history.                                                                 *)
LEMMA TableStep ==
    ASSUME JInv, Promote \/ \E s \in Subjects : DeleteAbsent(s)
    PROVE  JInv'
<1>0. keyed \subseteq Subjects /\ buried \subseteq Subjects /\ moved \subseteq Subjects
      /\ column \in [Subjects -> Values \cup {NoValue}] /\ known \subseteq {"key", "column"} /\ promoted \in BOOLEAN
  BY DEF JInv, JTypeInv, JTypeOK
<1>1. CASE Promote
  <2> DEFINE rows == {s \in Subjects : column[s] # NoValue}
  <2>1. Enqueue(rows, Ops, {}) /\ rows \in SUBSET Subjects
    BY <1>1 DEF Promote
  <2>2. promoted' = TRUE /\ moved' = moved \cup rows /\ UNCHANGED <<keyed, column, known, buried>>
    BY <1>1 DEF Promote
  <2>3. \A s \in Due' : s \notin rows
    BY <2>2 DEF Due
  <2> HIDE DEF rows
  <2> QED BY <1>0, <2>1, <2>2, <2>3, EnqueueStep
<1>2. CASE \E s \in Subjects : DeleteAbsent(s)
  <2>1. PICK s \in Subjects : DeleteAbsent(s)
    BY <1>2
  <2>2. Enqueue({s}, {"delete"}, {s}) /\ buried' = buried \cup {s} /\ UNCHANGED <<moved, keyed, column, known, promoted>>
    BY <2>1 DEF DeleteAbsent
  <2>3. s \notin Due'
    BY <2>2 DEF Enqueue, Due
  <2> QED BY <1>0, <2>2, <2>3, EnqueueStep DEF Ops
<1> QED BY <1>1, <1>2

(* The triggers go on, and what is there strays; or they go off. *)
LEMMA TriggerStep ==
    ASSUME JInv, Enable \/ Disable
    PROVE  JInv'
<1>1. /\ strayed \subseteq strayed' /\ strayed' \subseteq Subjects /\ enabled' \in BOOLEAN
      /\ UNCHANGED <<keyed, column, known, promoted, buried, jqueue, clock, target, batch, marked, written, draining, moved>>
  BY DEF Enable, Disable, Stray, triples, jworker, strays, JInv, JTypeInv, JTypeOK
<1>2. Due' \subseteq Due
  BY <1>1 DEF Due
<1>3. JTypeInv' /\ MarkedInv'
  BY <1>1 DEF JInv, JTypeInv, JTypeOK, MarkedInv
<1>4. UpsertInv' /\ LagInv' /\ PendingInv'
  BY <1>1, <1>2 DEF JInv, UpsertInv, LagInv, PendingInv, Lags, RowSeen
<1> QED BY <1>3, <1>4 DEF JInv

(* A row that lags agrees once it is written, and never comes to say what   *)
(* the triples do not.                                                      *)
LEMMA UpsertedLags ==
    ASSUME JTypeInv, NEW s \in Subjects, NEW row, Lags(s, row)
    PROVE  /\ Lags(s, Upserted(s, row))
           /\ s \in keyed /\ Policy = "replace" => Upserted(s, row) = [value |-> column[s]]
           /\ row = [value |-> column[s]] => Upserted(s, row) = [value |-> column[s]]
BY DEF Lags, Upserted, Bare, KeyMissing

(* A row that is written is a row, or none. *)
LEMMA RowTypes ==
    ASSUME JTypeInv, NEW s \in Subjects, NEW row \in Row \cup {NoRow}
    PROVE  Upserted(s, row) \in Row \cup {NoRow} /\ Deleted(s, row) \in Row \cup {NoRow}
BY DEF JTypeInv, JTypeOK, Row, Upserted, Deleted

(* A session writes a row the worker has not written: it lags as before, or *)
(* agrees.                                                                  *)
LEMMA WritebackRowStep ==
    ASSUME JInv, NEW s \in Subjects, WritebackRow(s)
    PROVE  JInv'
<1> USE DEF JInv
<1>1. /\ s \notin DOMAIN written /\ target' = [target EXCEPT ![s] = Upserted(s, target[s])]
      /\ UNCHANGED <<keyed, column, known, promoted, buried, enabled, jqueue, clock, batch, marked, written, draining,
                     strayed, moved>>
  BY DEF WritebackRow, triples, jworker, strays
<1>2. target \in [Subjects -> Row \cup {NoRow}]
  BY DEF JTypeInv, JTypeOK
<1>3. target' \in [Subjects -> Row \cup {NoRow}]
  BY <1>1, <1>2, RowTypes
<1>4. JTypeInv'
  <2>1. JTypeOK'
    BY <1>1, <1>3 DEF JTypeInv, JTypeOK
  <2> QED BY <1>1, <2>1 DEF JTypeInv
<1>5. MarkedInv' /\ UpsertInv' /\ Due' = Due
  BY <1>1 DEF MarkedInv, UpsertInv, Due
<1>6. ASSUME NEW t \in Due
      PROVE  /\ Lags(t, target[t])' /\ Lags(t, RowSeen(t))'
             /\ RowSeen(t) = [value |-> column[t]] => RowSeen(t)' = [value |-> column[t]]
  <2>1. t \in Subjects /\ Lags(t, target[t]) /\ Lags(t, RowSeen(t))
    BY DEF Due, LagInv
  <2>2. CASE t = s
    <3>1. RowSeen(t) = target[s] /\ RowSeen(t)' = Upserted(s, target[s]) /\ target'[t] = Upserted(s, target[s])
      BY <1>1, <1>2, <2>2 DEF RowSeen
    <3>2. /\ Lags(s, Upserted(s, target[s]))
          /\ target[s] = [value |-> column[s]] => Upserted(s, target[s]) = [value |-> column[s]]
      BY <2>1, <2>2, UpsertedLags
    <3> QED BY <1>1, <2>2, <3>1, <3>2 DEF Lags
  <2>3. CASE t # s
    <3>1. target'[t] = target[t] /\ RowSeen(t)' = RowSeen(t)
      BY <1>1, <1>2, <2>1, <2>3 DEF RowSeen
    <3> QED BY <1>1, <2>1, <3>1 DEF Lags
  <2> QED BY <2>2, <2>3
<1>7. LagInv'
  BY <1>5, <1>6 DEF LagInv
<1>8. PendingInv'
  BY <1>1, <1>5, <1>6 DEF PendingInv
<1> QED BY <1>4, <1>5, <1>7, <1>8

(* One that deletes a row strays. *)
LEMMA WritebackRowDeleteStep ==
    ASSUME JInv, NEW s \in Subjects, WritebackRowDelete(s)
    PROVE  JInv'
<1> USE DEF JInv
<1>1. /\ target' = [target EXCEPT ![s] = Deleted(s, target[s])] /\ strayed' = strayed \cup {s}
      /\ UNCHANGED <<keyed, column, known, promoted, buried, enabled, jqueue, clock, batch, marked, written, draining,
                     moved>>
  BY DEF WritebackRowDelete, Stray, triples, jworker
<1>2. target \in [Subjects -> Row \cup {NoRow}]
  BY DEF JTypeInv, JTypeOK
<1>3. target' \in [Subjects -> Row \cup {NoRow}]
  BY <1>1, <1>2, RowTypes
<1>4. JTypeInv'
  <2>1. JTypeOK'
    BY <1>1, <1>3 DEF JTypeInv, JTypeOK
  <2> QED BY <1>1, <2>1 DEF JTypeInv
<1>5. MarkedInv' /\ UpsertInv' /\ Due' \subseteq Due \ {s}
  BY <1>1 DEF MarkedInv, UpsertInv, Due
<1>6. \A t \in Due' : target'[t] = target[t] /\ RowSeen(t)' = RowSeen(t)
  BY <1>1, <1>2, <1>5 DEF RowSeen, Due
<1>7. LagInv'
  BY <1>1, <1>5, <1>6 DEF LagInv, Lags
<1>8. PendingInv'
  BY <1>1, <1>5, <1>6 DEF PendingInv
<1> QED BY <1>4, <1>5, <1>7, <1>8

(* As many entries as places: none is taken twice. *)
LEMMA BatchDistinct ==
    ASSUME NEW m \in Nat, NEW b, NEW S, b \in [1 .. m -> S], m = Cardinality({b[i] : i \in 1 .. m})
    PROVE  \A i, j \in 1 .. m : b[i] = b[j] => i = j
<1> DEFINE T == {b[i] : i \in 1 .. m}
<1>1. b \in Surjection(1 .. m, T)
  BY DEF Surjection
<1>2. IsFiniteSet(1 .. m) /\ Cardinality(1 .. m) = m
  BY FS_Interval
<1>3. b \in Injection(1 .. m, T)
  BY <1>1, <1>2, FS_SurjSameCardinalityImpliesInj
<1> QED BY <1>3 DEF Injection, IsInjective

(* The batch holds pending entries, each once. *)
LEMMA DrainSelectStep ==
    ASSUME JInv, DrainSelect
    PROVE  JInv'
<1> USE JsonAssumption DEF JInv
<1>1. /\ ~draining /\ draining' = TRUE
      /\ UNCHANGED <<keyed, column, known, promoted, buried, enabled, jqueue, clock, target, marked, written, strayed,
                     moved>>
  BY DEF DrainSelect, triples, strays
<1>2. PICK b \in UpTo(BatchSize, jqueue) : IsBatch(b) /\ batch' = b
  BY DEF DrainSelect
<1>3. PICK m \in 1 .. BatchSize : b \in [1 .. m -> jqueue]
  BY <1>2 DEF UpTo
<1>4. m \in Nat /\ DOMAIN b = 1 .. m /\ b \in Seq(jqueue) /\ Len(b) = m
  BY <1>3
<1>5. m = Cardinality({b[i] : i \in 1 .. m})
  BY <1>2, <1>4 DEF IsBatch
<1>6. \A i, j \in 1 .. m : b[i] = b[j] => i = j
  BY <1>3, <1>4, <1>5, BatchDistinct
<1>7. marked = {} /\ jqueue \subseteq Entry
  BY <1>1 DEF JTypeInv, JTypeOK
<1>8. /\ \A i \in DOMAIN batch' : batch'[i] \in jqueue \ marked
      /\ batch' \in Seq(Entry)
  BY <1>2, <1>3, <1>4, <1>7
<1>9. JTypeInv'
  <2>1. JTypeOK'
    BY <1>1, <1>8 DEF JTypeInv, JTypeOK
  <2>2. \A i, j \in DOMAIN batch' : batch'[i] = batch'[j] => i = j
    BY <1>2, <1>4, <1>6
  <2> QED BY <1>1, <1>8, <2>1, <2>2 DEF JTypeInv
<1>10. MarkedInv' /\ UpsertInv' /\ LagInv' /\ PendingInv'
  BY <1>1 DEF MarkedInv, UpsertInv, LagInv, PendingInv, Due, Lags, RowSeen
<1> QED BY <1>9, <1>10

(* The worker marks an entry and writes the row from the triples that are   *)
(* there now: it agrees, whatever entries of the subject are still to come. *)
LEMMA DrainRowStep ==
    ASSUME JInv, DrainRow
    PROVE  JInv'
<1> USE JsonAssumption DEF JInv
<1>a. PICK e : e = Head(batch)
  OBVIOUS
<1>b. PICK new : new = Written(e, RowSeen(e.s))
  OBVIOUS
<1>1. /\ batch # <<>> /\ batch' = Tail(batch) /\ marked' = marked \cup {e}
      /\ written' = IF new = RowSeen(e.s) THEN written
                    ELSE [s \in DOMAIN written \cup {e.s} |-> IF s = e.s THEN new ELSE written[s]]
      /\ UNCHANGED <<keyed, column, known, promoted, buried, enabled, jqueue, clock, target, draining, strayed, moved>>
  BY <1>a, <1>b DEF DrainRow, RowSeen, triples, strays
<1>2. batch \in Seq(Entry) /\ Len(batch) \in Nat \ {0} /\ DOMAIN batch = 1 .. Len(batch)
  BY <1>1, EmptySeq, LenProperties DEF JTypeInv
<1>3. e = batch[1] /\ 1 \in DOMAIN batch
  BY <1>a, <1>1, <1>2
<1>4. e \in jqueue \ marked /\ e \in Entry /\ e.s \in Subjects /\ e.op \in Ops
  BY <1>3 DEF JTypeInv, JTypeOK, Entry
<1>5. /\ batch' \in Seq(Entry) /\ DOMAIN batch' = 1 .. (Len(batch) - 1)
      /\ \A i \in DOMAIN batch' : i + 1 \in DOMAIN batch /\ batch'[i] = batch[i + 1] /\ i \in Nat
  BY <1>1, <1>2, HeadTailProperties
<1>6. RowSeen(e.s) \in Row \cup {NoRow}
  BY <1>4 DEF RowSeen, JTypeInv, JTypeOK
<1>7. new \in Row \cup {NoRow}
  BY <1>b, <1>4, <1>6, RowTypes DEF Written
<1>8. /\ DOMAIN written \subseteq DOMAIN written' /\ DOMAIN written' \subseteq DOMAIN written \cup {e.s}
      /\ \A s \in DOMAIN written' : written'[s] = IF s = e.s /\ new # RowSeen(e.s) THEN new ELSE written[s]
  BY <1>1
<1>9. RowSeen(e.s)' = new /\ \A s \in Subjects \ {e.s} : RowSeen(s)' = RowSeen(s)
  BY <1>1, <1>8 DEF RowSeen
<1>10. JTypeInv'
  <2>1. \A i \in DOMAIN batch' : batch'[i] \in jqueue' \ marked'
    <3> SUFFICES ASSUME NEW i \in DOMAIN batch' PROVE batch'[i] \in jqueue /\ batch'[i] \notin marked /\ batch'[i] # e
      BY <1>1
    <3>1. i + 1 \in DOMAIN batch /\ batch'[i] = batch[i + 1] /\ i + 1 # 1
      BY <1>5
    <3> QED BY <1>3, <3>1 DEF JTypeInv, JTypeOK
  <2>2. \A i, j \in DOMAIN batch' : batch'[i] = batch'[j] => i = j
    <3> SUFFICES ASSUME NEW i \in DOMAIN batch', NEW j \in DOMAIN batch', batch'[i] = batch'[j] PROVE i = j
      OBVIOUS
    <3>1. i + 1 = j + 1 /\ i \in Nat /\ j \in Nat
      BY <1>5 DEF JTypeInv
    <3> QED BY <3>1
  <2>3. DOMAIN written' \subseteq Subjects /\ \A s \in DOMAIN written' : written'[s] \in Row \cup {NoRow}
    <3>1. DOMAIN written \subseteq Subjects /\ \A s \in DOMAIN written : written[s] \in Row \cup {NoRow}
      BY DEF JTypeInv, JTypeOK
    <3>2. ASSUME NEW s \in DOMAIN written', s \notin DOMAIN written PROVE s = e.s /\ new # RowSeen(e.s)
      BY <1>1, <3>2
    <3> QED BY <1>4, <1>7, <1>8, <3>1, <3>2
  <2>4. JTypeOK'
    BY <1>1, <1>4, <2>1, <2>3 DEF JTypeInv, JTypeOK
  <2>5. draining
    BY <1>1 DEF JTypeInv
  <2> QED BY <1>1, <1>5, <2>2, <2>3, <2>4, <2>5 DEF JTypeInv
<1>11. MarkedInv'
  BY <1>1, <1>8 DEF MarkedInv
<1>12. UpsertInv' /\ Due' = Due
  BY <1>1 DEF UpsertInv, Due
<1>13. ASSUME e.s \in Due
       PROVE  /\ Lags(e.s, new)
              /\ e.s \in keyed /\ Policy = "replace" => new = [value |-> column[e.s]]
  <2>1. e.op = "upsert" /\ Lags(e.s, RowSeen(e.s))
    BY <1>4, <1>13 DEF UpsertInv, LagInv
  <2>2. new = Upserted(e.s, RowSeen(e.s))
    BY <1>b, <2>1 DEF Written
  <2> QED BY <1>4, <2>1, <2>2, UpsertedLags
<1>14. LagInv'
  <2> SUFFICES ASSUME NEW s \in Due PROVE Lags(s, target[s])' /\ Lags(s, RowSeen(s))'
    BY <1>12 DEF LagInv
  <2>1. Lags(s, target[s]) /\ Lags(s, RowSeen(s)) /\ s \in Subjects
    BY DEF LagInv, Due
  <2>2. Lags(s, target[s])'
    BY <1>1, <2>1 DEF Lags
  <2>3. CASE s = e.s
    BY <1>1, <1>9, <1>13, <2>2, <2>3 DEF Lags
  <2>4. CASE s # e.s
    <3>1. RowSeen(s)' = RowSeen(s)
      BY <1>9, <2>1, <2>4
    <3> QED BY <1>1, <2>1, <2>2, <3>1 DEF Lags
  <2> QED BY <2>3, <2>4
<1>15. PendingInv'
  <2> SUFFICES ASSUME NEW s \in Due, s \in keyed, Policy = "replace"
               PROVE  (\E x \in jqueue' \ marked' : x.s = s) \/ RowSeen(s)' = [value |-> column'[s]]
    BY <1>1, <1>12 DEF PendingInv
  <2>1. CASE s = e.s
    BY <1>1, <1>9, <1>13, <2>1
  <2>2. CASE s # e.s
    <3>1. (\E x \in jqueue \ marked : x.s = s) \/ RowSeen(s) = [value |-> column[s]]
      BY DEF PendingInv
    <3>2. RowSeen(s)' = RowSeen(s)
      BY <1>9, <2>2 DEF Due
    <3> QED BY <1>1, <2>2, <3>1, <3>2
  <2> QED BY <2>1, <2>2
<1> QED BY <1>10, <1>11, <1>12, <1>14, <1>15

(* The worker holds nothing after its transaction. *)
LEMMA EndDrainEffect ==
    ASSUME EndDrain
    PROVE  batch' = <<>> /\ marked' = {} /\ DOMAIN written' = {} /\ draining' = FALSE
BY DEF EndDrain, Nothing

(* What the worker saw is committed, and what it marked is gone. *)
LEMMA DrainCommitStep ==
    ASSUME JInv, DrainCommit
    PROVE  JInv'
<1> USE JsonAssumption DEF JInv
<1>1. /\ jqueue' = jqueue \ marked
      /\ target' = [s \in Subjects |-> RowSeen(s)]
      /\ batch' = <<>> /\ marked' = {} /\ DOMAIN written' = {} /\ draining' = FALSE
      /\ UNCHANGED <<keyed, column, known, promoted, buried, enabled, clock, strayed, moved>>
  BY EndDrainEffect DEF DrainCommit, StillPending, RowSeen, triples, strays
<1>2. \A s \in Subjects : RowSeen(s) \in Row \cup {NoRow}
  BY DEF JTypeInv, JTypeOK, RowSeen
<1>3. \A s \in Subjects : target'[s] = RowSeen(s) /\ RowSeen(s)' = RowSeen(s)
  BY <1>1 DEF RowSeen
<1>4. JTypeInv'
  <2>1. target' \in [Subjects -> Row \cup {NoRow}] /\ batch' \in Seq(Entry) /\ DOMAIN batch' = {}
    BY <1>1, <1>2
  <2>2. JTypeOK'
    BY <1>1, <2>1 DEF JTypeInv, JTypeOK
  <2> QED BY <1>1, <2>1, <2>2 DEF JTypeInv
<1>5. MarkedInv' /\ UpsertInv' /\ Due' = Due /\ Due \subseteq Subjects
  BY <1>1 DEF MarkedInv, UpsertInv, Due
<1>6. LagInv'
  BY <1>1, <1>3, <1>5 DEF LagInv, Lags
<1>7. PendingInv'
  BY <1>1, <1>3, <1>5 DEF PendingInv
<1> QED BY <1>4, <1>5, <1>6, <1>7

(* A rollback takes back rows only with the marks of their entries. *)
LEMMA DrainAbortStep ==
    ASSUME JInv, DrainAbort
    PROVE  JInv'
<1> USE JsonAssumption DEF JInv
<1>1. /\ batch' = <<>> /\ marked' = {} /\ DOMAIN written' = {} /\ draining' = FALSE
      /\ UNCHANGED <<keyed, column, known, promoted, buried, enabled, jqueue, clock, target, strayed, moved>>
  BY EndDrainEffect DEF DrainAbort, triples, strays
<1>2. JTypeInv'
  <2>1. batch' \in Seq(Entry) /\ DOMAIN batch' = {}
    BY <1>1
  <2>2. JTypeOK'
    BY <1>1, <2>1 DEF JTypeInv, JTypeOK
  <2> QED BY <1>1, <2>1, <2>2 DEF JTypeInv
<1>3. MarkedInv' /\ UpsertInv' /\ Due' = Due
  BY <1>1 DEF MarkedInv, UpsertInv, Due
<1>4. \A s \in Subjects : RowSeen(s)' = target[s]
  BY <1>1 DEF RowSeen
<1>5. LagInv'
  BY <1>1, <1>3, <1>4 DEF LagInv, Lags, Due
<1>6. PendingInv'
  <2> SUFFICES ASSUME NEW s \in Due, s \in keyed, Policy = "replace"
               PROVE  (\E x \in jqueue : x.s = s) \/ target[s] = [value |-> column[s]]
    BY <1>1, <1>3, <1>4 DEF PendingInv, Due
  <2>1. (\E x \in jqueue \ marked : x.s = s) \/ RowSeen(s) = [value |-> column[s]]
    BY DEF PendingInv
  <2>2. s \in DOMAIN written => \E x \in jqueue : x.s = s
    BY DEF MarkedInv, JTypeInv, JTypeOK
  <2> QED BY <2>1, <2>2 DEF RowSeen
<1> QED BY <1>2, <1>3, <1>5, <1>6

(* A step of the other queue changes nothing here. *)
LEMMA JStutter ==
    ASSUME JInv, UNCHANGED jvars
    PROVE  JInv'
BY DEF JInv, jvars, triples, jworker, strays, JTypeInv, JTypeOK, MarkedInv, UpsertInv, LagInv, PendingInv, Due, Lags,
       RowSeen

(* Whatever a session does to the triples, the triggers and the rows. *)
LEMMA SessionNextStep ==
    ASSUME JInv, SessionNext
    PROVE  JInv'
<1>1. CASE \E s \in Subjects : InsertKey(s) \/ DeleteKey(s)
  BY <1>1, KeyStep
<1>2. CASE \E s \in Subjects : DeleteValue(s)
  <2>1. PICK s \in Subjects : DeleteValue(s)
    BY <1>2
  <2>2. column[s] \in Values
    BY <2>1 DEF DeleteValue, JInv, JTypeInv, JTypeOK
  <2> QED BY <2>1, <2>2, ValueStep
<1>3. CASE \E s \in Subjects, v \in Values : InsertValue(s, v) \/ UpdateValue(s, v)
  BY <1>3, ValueStep
<1>4. CASE Promote \/ \E s \in Subjects : DeleteAbsent(s)
  BY <1>4, TableStep
<1>5. CASE Enable \/ Disable
  BY <1>5, TriggerStep
<1>6. CASE \E s \in Subjects : WritebackRow(s)
  BY <1>6, WritebackRowStep
<1>7. CASE \E s \in Subjects : WritebackRowDelete(s)
  BY <1>7, WritebackRowDeleteStep
<1> QED BY <1>1, <1>2, <1>3, <1>4, <1>5, <1>6, <1>7 DEF SessionNext

-----------------------------------------------------------------------------
(* The worker and the sessions together. *)

(* Both queues are empty at first. *)
LEMMA InitInv == Init => WInv
<1> SUFFICES ASSUME Init PROVE WInv
  OBVIOUS
<1> USE JsonAssumption, ValidationAssumption, WorkerAssumption DEF Init
<1>1. VInv
  <2>1. IsFiniteSet(facts)
    BY FS_EmptySet DEF VInit
  <2>2. VTypeInv
    BY <2>1 DEF VInit, VTypeInv, VTypeOK, VRow, Draft
  <2>3. \A f \in Focus : CountValues(f) <= MaxCount
    <3> SUFFICES ASSUME NEW f \in Focus PROVE CountValues(f) <= MaxCount
      OBVIOUS
    <3>1. {x \in facts : x[1] = f} = {}
      BY DEF VInit
    <3>2. CountValues(f) = 0
      BY <3>1, FS_EmptySet DEF CountValues
    <3> QED BY <3>2
  <2> QED BY <2>2, <2>3 DEF VInv, ForgetInv
<1>2. JInv
  <2>1. DOMAIN written = {} /\ batch = <<>> /\ DOMAIN batch = {} /\ batch \in Seq(Entry)
    BY DEF JInit, Nothing
  <2>2. JTypeInv
    <3>1. known \subseteq {"key", "column"} /\ clock \in 0 .. MaxClock
      BY DEF JInit
    <3>2. JTypeOK
      BY <2>1, <3>1 DEF JInit, JTypeOK
    <3> QED BY <2>1, <3>1, <3>2 DEF JInit, JTypeInv
  <2>3. MarkedInv /\ UpsertInv /\ LagInv /\ PendingInv
    BY <2>1 DEF JInit, MarkedInv, UpsertInv, LagInv, PendingInv, Lags, RowSeen, Due
  <2> QED BY <2>2, <2>3 DEF JInv
<1>3. duty \in Duties /\ errors \in 0 .. MaxErrors
  BY DEF Duties
<1> QED BY <1>1, <1>2, <1>3 DEF WInv

(* A step of the worker's cycle works on one queue and leaves the other. *)
LEMMA WorkerStepInv ==
    ASSUME WInv, WorkerStep
    PROVE  WInv'
<1> USE WorkerAssumption DEF WInv
<1>1. duty' \in Duties /\ errors' \in 0 .. MaxErrors
  BY DEF WorkerStep, Merge, ValidateSelect, ValidateJudge, ValidateFinish, ValidateNothing, WorkerSelect, WorkerRow,
         WorkerCommit, DrainNothing, Backoff, At, Stays, Duties
<1>2. CASE Merge \/ ValidateNothing \/ DrainNothing \/ Backoff
  BY <1>1, <1>2, VStutter, JStutter DEF Merge, ValidateNothing, DrainNothing, Backoff
<1>3. CASE ValidateSelect
  BY <1>1, <1>3, SelectStep, JStutter DEF ValidateSelect
<1>4. CASE ValidateJudge
  BY <1>1, <1>4, JudgeStep, JStutter DEF ValidateJudge
<1>5. CASE ValidateFinish
  BY <1>1, <1>5, FinishStep, JStutter DEF ValidateFinish
<1>6. CASE WorkerSelect
  BY <1>1, <1>6, DrainSelectStep, VStutter DEF WorkerSelect
<1>7. CASE WorkerRow
  BY <1>1, <1>7, DrainRowStep, VStutter DEF WorkerRow
<1>8. CASE WorkerCommit
  BY <1>1, <1>8, DrainCommitStep, VStutter DEF WorkerCommit
<1> QED BY <1>2, <1>3, <1>4, <1>5, <1>6, <1>7, <1>8 DEF WorkerStep

(* An error or a crash rolls both transactions back. *)
LEMMA FailureInv ==
    ASSUME WInv, Error \/ Crash
    PROVE  WInv'
<1> USE WorkerAssumption DEF WInv
<1>1. duty' \in Duties /\ errors' \in 0 .. MaxErrors
  BY DEF Error, Crash, Duties
<1>2. JInv'
  <2>1. DrainAbort \/ UNCHANGED jvars
    BY DEF Error, Crash
  <2> QED BY <2>1, DrainAbortStep, JStutter
<1>3. VInv'
  <2>1. GiveUp(Worker) \/ VCrash \/ UNCHANGED vvars
    BY DEF Error, Crash
  <2> QED BY <2>1, GiveUpStep, VCrashStep, VStutter
<1> QED BY <1>1, <1>2, <1>3

(* A step of a session works on one queue and leaves the other. *)
LEMMA SessionInv ==
    ASSUME WInv, Writeback \/ \E p \in Processors \ {Worker} : Session(p)
    PROVE  WInv'
<1> USE DEF WInv
<1>1. CASE Writeback
  BY <1>1, SessionNextStep, VStutter DEF Writeback
<1>2. CASE \E p \in Processors \ {Worker} : Session(p)
  <2>1. PICK p \in Processors : Session(p)
    BY <1>2
  <2>2. JInv' /\ duty' \in Duties /\ errors' \in 0 .. MaxErrors
    BY <2>1, JStutter DEF Session
  <2>3. \/ \E x \in Facts : InsertAsync(x)
        \/ \E x \in Facts : CheckSync(p, x)
        \/ InsertSync(p)
        \/ \E x \in Facts : DeleteFact(x)
        \/ Select(p)
        \/ \E r \in chosen[p] : Judge(p, r)
        \/ Finish(p)
        \/ GiveUp(p)
    BY <2>1 DEF Session
  <2>4. VInv'
    BY <2>3, InsertAsyncStep, CheckSyncStep, InsertSyncStep, DeleteFactStep, SelectStep, JudgeStep, FinishStep, GiveUpStep
  <2> QED BY <2>2, <2>4
<1> QED BY <1>1, <1>2

(* Stuttering. *)
LEMMA StutterInv ==
    ASSUME WInv, UNCHANGED vars
    PROVE  WInv'
BY VStutter, JStutter DEF WInv, vars

(* The invariant is inductive: it holds whatever the sessions, the worker,  *)
(* errors and crashes do in whatever order (the loop of                     *)
(* pg_ripple_merge_worker_main, run_validation_cycle and                    *)
(* drain_json_writeback_queue).                                             *)
THEOREM DutiesInvariant == Spec => []WInv
<1>1. WInv /\ [Next]_vars => WInv'
  BY WorkerStepInv, FailureInv, SessionInv, StutterInv DEF Next
<1> QED BY InitInv, <1>1, PTL DEF Spec

(* Every variable of the worker and of both queues keeps its type, and a    *)
(* batch holds only entries that are pending and not yet marked             *)
(* (drain_json_writeback_queue).                                            *)
THEOREM DutiesTyped == Spec => []TypeOK
<1>1. WInv => TypeOK
  BY DEF WInv, VInv, VTypeInv, JInv, JTypeInv, TypeOK
<1> QED BY <1>1, DutiesInvariant, PTL

(* No violation is forgotten: a focus node that has too many values is in   *)
(* the queue or has a letter, unless a synchronous check let it through     *)
(* (process_validation_batch and run_validation_cycle, whatever sessions    *)
(* work the queue off meanwhile).                                           *)
THEOREM ViolationsRemembered == Spec => []NoViolationForgotten
<1>1. WInv => NoViolationForgotten
  <2> SUFFICES ASSUME WInv, NEW f \in Focus \ wrongly, CountValues(f) > MaxCount
               PROVE  (\E r \in vqueue : r.fact[1] = f) \/ \E l \in letters : l.fact[1] = f
    BY DEF NoViolationForgotten
  <2>1. CountValues(f) \in Nat /\ MaxCount \in Nat
    BY CountType, ValidationAssumption DEF WInv, VInv, VTypeInv
  <2>2. ~(CountValues(f) <= MaxCount)
    BY <2>1
  <2> QED BY <2>2 DEF WInv, VInv, ForgetInv, Lettered
<1> QED BY <1>1, DutiesInvariant, PTL

(* A row agrees with its triples once no entry of its subject is pending,   *)
(* however many batches were rolled back before (drain_json_writeback_queue *)
(* and mark_queue_row_processed).                                           *)
THEOREM RowsAgree == Spec => []DrainedRowsAgree
<1>1. WInv => DrainedRowsAgree
  <2> SUFFICES ASSUME WInv, NEW s \in keyed \ (strayed \cup moved), Policy = "replace", \A e \in jqueue : e.s # s
               PROVE  target[s] = [value |-> column[s]]
    BY DEF DrainedRowsAgree, RowAgrees
  <2> USE DEF WInv, JInv
  <2>1. s \in Due \cap keyed
    BY DEF JTypeInv, JTypeOK, Due
  <2>2. s \notin DOMAIN written
    BY DEF MarkedInv, JTypeInv, JTypeOK
  <2> QED BY <2>1, <2>2 DEF PendingInv, RowSeen
<1> QED BY <1>1, DutiesInvariant, PTL
=============================================================================
