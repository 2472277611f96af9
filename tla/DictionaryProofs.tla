-------------------------- MODULE DictionaryProofs --------------------------
(***************************************************************************)
(* Theorems about Dictionary, for any sets of backends, terms and ways and *)
(* any capacity of the caches, and about the inline identifiers it uses.   *)
(*                                                                         *)
(* DInv is the inductive invariant.  Besides types: an identifier names    *)
(* one term wherever it is remembered (NamesInv), a term has at most one   *)
(* row, which one transaction owns (RowsInv), a term has two copies in the *)
(* shared cache only when its row is committed, which is what makes the    *)
(* eviction of one copy enough (CopyInv), and identifiers in use or in a   *)
(* backend's own cache are committed, borrowed or the backend's own        *)
(* (UseInv).                                                               *)
(***************************************************************************)
EXTENDS DictionaryProps, FiniteSetTheorems, TLAPS

-----------------------------------------------------------------------------
(* Inline identifiers: what their bit layout guarantees, for every Offset. *)

(* Packing lays the types out side by side, each 2 * Offset wide.          *)
LEMMA PackedBits ==
    ASSUME NEW t \in Types, NEW v \in Int, Inlineable(v)
    PROVE  /\ try_encode(t, v) - Flag = t * (2 * Offset) + (v + Offset)
           /\ v + Offset \in 0 .. 2 * Offset - 1
           /\ try_encode(t, v) \in Int
  BY OffsetAssumption
     DEF Types, TYPE_INTEGER, TYPE_DATE, Inlineable, try_encode, pack, Flag

(* inline.rs: `all dictionary IDENTITY IDs have bit 63 = 0', every inline   *)
(* identifier has it set: is_inline tells the two apart.                    *)
THEOREM InlineIsNegative ==
    \A t \in Types : \A v \in Int : Inlineable(v) => is_inline(try_encode(t, v))
<1> SUFFICES ASSUME NEW t \in Types, NEW v \in Int, Inlineable(v)
             PROVE  try_encode(t, v) < 0
    BY DEF is_inline
<1>1. t \in 0 .. 3
    BY DEF Types, TYPE_INTEGER, TYPE_DATE
<1>2. CASE t = 0
    BY <1>2, PackedBits, OffsetAssumption DEF Flag, try_encode, pack
<1>3. CASE t = 1
    BY <1>3, PackedBits, OffsetAssumption DEF Flag, try_encode, pack
<1>4. CASE t = 2
    BY <1>4, PackedBits, OffsetAssumption DEF Flag, try_encode, pack
<1>5. CASE t = 3
    BY <1>5, PackedBits, OffsetAssumption DEF Flag, try_encode, pack
<1> QED
    BY <1>1, <1>2, <1>3, <1>4, <1>5

(* inline.rs: the offset `preserves i64 sort order across the full signed   *)
(* range': within a type, identifiers compare as their values do, which is  *)
(* what range filters compiled to comparisons of identifiers rely on.       *)
THEOREM InlineOrder ==
    \A t \in Types : \A v, w \in Int :
        Inlineable(v) /\ Inlineable(w) =>
            (v < w <=> try_encode(t, v) < try_encode(t, w))
<1> SUFFICES ASSUME NEW t \in Types, NEW v \in Int, NEW w \in Int,
                    Inlineable(v), Inlineable(w)
             PROVE  v < w <=> try_encode(t, v) < try_encode(t, w)
    OBVIOUS
<1>1. t * (2 * Offset) \in Int
    BY OffsetAssumption DEF Types, TYPE_INTEGER, TYPE_DATE
<1>2. Flag \in Int
    BY OffsetAssumption DEF Flag
<1> DEFINE base == Flag + t * (2 * Offset)
<1>3. base \in Int
    BY <1>1, <1>2
<1>4. try_encode(t, v) = base + (v + Offset) /\ try_encode(t, w) = base + (w + Offset)
    BY DEF try_encode, pack
<1> HIDE DEF base
<1> QED
    BY <1>3, <1>4, OffsetAssumption

(* decode_integer, decode_datetime_micros and decode_date_days return what  *)
(* was encoded, and inline_type the type it was encoded as.                 *)
THEOREM InlineRoundTrip ==
    \A t \in Types : \A v \in Int :
        Inlineable(v) => /\ decode_value(try_encode(t, v)) = v
                         /\ unpack_type(try_encode(t, v)) = t
<1> SUFFICES ASSUME NEW t \in Types, NEW v \in Int, Inlineable(v)
             PROVE  /\ decode_value(try_encode(t, v)) = v
                    /\ unpack_type(try_encode(t, v)) = t
    OBVIOUS
<1> DEFINE W == 2 * Offset
           x == v + Offset
<1>1. W \in Nat /\ W > 0 /\ x \in 0 .. W - 1 /\ t \in 0 .. 3
    BY PackedBits, OffsetAssumption DEF Types, TYPE_INTEGER, TYPE_DATE
<1>2. try_encode(t, v) - Flag = t * W + x
    BY PackedBits
<1>3. (t * W + x) \div W = t /\ (t * W + x) % W = x
  <2> HIDE DEF W, x
  <2>1. CASE t = 0
      BY <2>1, <1>1
  <2>2. CASE t = 1
      BY <2>2, <1>1
  <2>3. CASE t = 2
      BY <2>3, <1>1
  <2>4. CASE t = 3
      BY <2>4, <1>1
  <2> QED
      BY <2>1, <2>2, <2>3, <2>4, <1>1
<1> QED
    BY <1>1, <1>2, <1>3, OffsetAssumption DEF decode_value, unpack_value_bits, unpack_type

-----------------------------------------------------------------------------
(* The inductive invariant. *)

(* Terms of rows that a savepoint rollback or a vacuum has taken away. *)
GoneTerms == {r.term : r \in undone \cup vacuumed}

TypeInv ==
    /\ dict \subseteq Entry /\ stored \subseteq Entry /\ next \in 1 .. MaxId + 1
    /\ shared \in [Ways -> Entry \cup {NoEntry}]
    /\ encode \in [Backends -> UNION {[D -> Ids] : D \in SUBSET Terms}]
    /\ tracked \in [Backends -> SUBSET Terms]
    /\ rows \in [Backends -> SUBSET Entry] /\ subRows \in [Backends -> SUBSET Entry]
    /\ uses \in [Backends -> SUBSET Entry] /\ subUses \in [Backends -> SUBSET Entry]
    /\ savepoint \in [Backends -> BOOLEAN]
    /\ pc \in [Backends -> {"idle", "wait", "insert"}]
    /\ term \in [Backends -> Terms \cup {NoTerm}]
    /\ undone \subseteq Entry /\ vacuumed \subseteq Entry /\ borrowed \subseteq Entry
    /\ \A b \in Backends : pc[b] # "idle" => term[b] \in Terms

(* The pairs of term and identifier that the table or a cache remembers. *)
OpenRows == UNION {Rows(b) : b \in Backends}

SharedPairs == {shared[w] : w \in Ways} \ {NoEntry}

LocalOf(b) == {[term |-> t, id |-> encode[b][t]] : t \in DOMAIN encode[b]}

LocalPairs == UNION {LocalOf(b) : b \in Backends}

Known == dict \cup OpenRows \cup SharedPairs \cup LocalPairs

(* An identifier names one term, and came from the sequence. *)
NamesInv ==
    /\ \A e, f \in Known : e.id = f.id => e.term = f.term
    /\ \A e \in Known : e.id < next

(* A term has at most one row, and a row is either committed or of one      *)
(* transaction.                                                             *)
RowsInv ==
    /\ \A r, s \in dict \cup OpenRows : r.term = s.term => r.id = s.id
    /\ \A b \in Backends : Rows(b) \cap dict = {}
    /\ \A b, c \in Backends : b # c => Rows(b) \cap Rows(c) = {}

(* A term has two copies only if its row is committed; and a backend that   *)
(* is about to publish a row of its own has met no copy.                    *)
CopyInv ==
    /\ \A v, w \in Ways :
           v # w /\ shared[v] # NoEntry /\ shared[w].term = shared[v].term =>
               shared[v] \in dict \/ shared[v].term \in GoneTerms
    /\ \A b \in Backends : \A r \in Rows(b) :
           r.term = term[b] =>
               /\ pc[b] # "wait"
               /\ pc[b] = "insert" => Hits(r.term) = {} \/ r.term \in GoneTerms

Used(b) == uses[b] \cup subUses[b]

(* What a backend has in use or in its own cache. *)
UseInv ==
    \A b \in Backends :
        \A e \in Used(b) \cup LocalOf(b) :
            e \in dict \cup borrowed \cup Rows(b) \/ e.term \in GoneTerms

(* The inductive invariant. *)
DInv ==
    /\ TypeInv /\ NamesInv /\ RowsInv /\ CopyInv /\ UseInv
    /\ SharedEntriesBacked /\ LostIdsExplained

-----------------------------------------------------------------------------
(* Every part holds of the empty dictionary. *)
LEMMA InitInv == Init => DInv
<1> SUFFICES ASSUME Init PROVE DInv
  OBVIOUS
<1> USE DictionaryAssumption DEF Init
<1>1. TypeInv
  <2>1. next \in 1 .. MaxId + 1
    OBVIOUS
  <2>2. Empty \in [{} -> Ids] /\ {} \in SUBSET Terms
    BY DEF Empty
  <2>3. encode \in [Backends -> UNION {[D -> Ids] : D \in SUBSET Terms}]
    BY <2>2
  <2>4. savepoint \in [Backends -> BOOLEAN]
    OBVIOUS
  <2> QED BY <2>1, <2>3, <2>4 DEF TypeInv
<1>2. dict \cup OpenRows = {} /\ \A b \in Backends : Rows(b) = {}
  BY DEF OpenRows, Rows
<1>3. Known = {}
  <2>1. SharedPairs = {}
    BY DEF SharedPairs
  <2>2. LocalPairs = {}
    BY DEF LocalPairs, LocalOf, Empty
  <2> QED BY <1>2, <2>1, <2>2 DEF Known
<1>4. NamesInv /\ RowsInv
  BY <1>2, <1>3 DEF NamesInv, RowsInv
<1>5. CopyInv /\ SharedEntriesBacked
  BY <1>2 DEF CopyInv, SharedEntriesBacked
<1>6. UseInv
  BY DEF UseInv, Used, LocalOf, Empty
<1>7. LostIdsExplained
  BY DEF LostIdsExplained
<1> QED BY <1>1, <1>4, <1>5, <1>6, <1>7 DEF DInv

(* An entry is a term and an identifier of the sequence; no entry has       *)
(* neither.                                                                 *)
LEMMA EntryFacts ==
    /\ NoEntry \notin Entry
    /\ \A t \in Terms, i \in Ids : [term |-> t, id |-> i] \in Entry
    /\ \A e \in Entry : e.term \in Terms /\ e.id \in Ids /\ e = [term |-> e.term, id |-> e.id]
    /\ \A i \in Ids : i \in Nat /\ i # 0
<1>1. \A i \in Ids : i \in Nat /\ i # 0
  BY DictionaryAssumption DEF Ids
<1> QED BY <1>1 DEF NoEntry, Entry

(* LruCache::put leaves the new entry and some of the old ones. *)
LEMMA PutsEffect ==
    ASSUME NEW f \in UNION {[D -> Ids] : D \in SUBSET Terms}, NEW k \in Terms, NEW v \in Ids,
           NEW g \in Puts(f, k, v)
    PROVE  /\ g \in UNION {[D -> Ids] : D \in SUBSET Terms}
           /\ \A x \in DOMAIN g : (x = k /\ g[x] = v) \/ (x \in DOMAIN f /\ g[x] = f[x])
<1>1. PICK D \in SUBSET DOMAIN f : g = [x \in D \cup {k} |-> IF x = k THEN v ELSE f[x]]
  BY DEF Puts
<1>2. DOMAIN f \subseteq Terms /\ \A x \in DOMAIN f : f[x] \in Ids
  OBVIOUS
<1>3. g \in [D \cup {k} -> Ids] /\ D \cup {k} \in SUBSET Terms
  BY <1>1, <1>2
<1> QED BY <1>1, <1>2, <1>3

(* EncodeInsert found or added row r, and published it in way w. *)
Publishes(b, r, w) ==
    /\ r.term = term[b] /\ term[b] \in Terms
    /\ shared' = [shared EXCEPT ![w] = r]
    /\ tracked' = [tracked EXCEPT ![b] = @ \cup {term[b]}]
    /\ \E f \in Puts(encode[b], term[b], r.id) : encode' = [encode EXCEPT ![b] = f]
    /\ Use(b, term[b], r.id)
    /\ \/ r \in Seen(b) /\ UNCHANGED <<next, rows, subRows>>
       \/ /\ \A s \in Seen(b) : s.term # term[b]
          /\ ~Claimed(b, term[b]) /\ r.id = next /\ next \in Ids /\ next' = next + 1
          /\ AddTo(b, rows, subRows, r)

(* The call publishes the row it sees, or a new one with the next identifier. *)
LEMMA InsertPublishes ==
    ASSUME TypeInv, NEW b \in Backends, EncodeInsert(b)
    PROVE  \E r \in Entry, w \in Ways : Publishes(b, r, w)
<1> DEFINE t == term[b]
           mine == {r \in Seen(b) : r.term = t}
           new == [term |-> t, id |-> next]
           r == IF mine = {} THEN new ELSE CHOOSE x \in mine : TRUE
<1>1. term[b] \in Terms /\ Seen(b) \subseteq Entry
  BY DEF EncodeInsert, TypeInv, Seen, Rows
<1>2. /\ \/ mine # {} /\ UNCHANGED <<next, rows, subRows>>
         \/ /\ mine = {} /\ ~Claimed(b, t) /\ next \in Ids
            /\ next' = next + 1
            /\ AddTo(b, rows, subRows, new)
      /\ \E w \in Slots : shared' = [shared EXCEPT ![w] = r]
      /\ tracked' = [tracked EXCEPT ![b] = @ \cup {t}]
      /\ \E f \in Puts(encode[b], t, r.id) : encode' = [encode EXCEPT ![b] = f]
      /\ Use(b, t, r.id)
  BY DEF EncodeInsert
<1>3. Slots \subseteq Ways
  BY DEF Slots
<1>4. CASE mine # {}
  <2>1. r \in mine
    BY <1>4
  <2>2. r \in Entry /\ r.term = t /\ r \in Seen(b)
    BY <1>1, <2>1
  <2> HIDE DEF r
  <2> QED BY <1>1, <1>2, <1>3, <1>4, <2>2 DEF Publishes
<1>5. CASE mine = {}
  <2>1. r = new /\ next \in Ids
    BY <1>2, <1>5
  <2>2. r \in Entry /\ r.term = t /\ r.id = next
    BY <1>1, <2>1, EntryFacts
  <2>3. \A s \in Seen(b) : s.term # t
    BY <1>5
  <2> HIDE DEF r
  <2> QED BY <1>1, <1>2, <1>3, <1>5, <2>1, <2>2, <2>3 DEF Publishes
<1> QED BY <1>4, <1>5

(* A use, a row and an entry of a backend's own cache are added to its own  *)
(* and to nobody else's.                                                    *)
LEMMA UseEffect ==
    ASSUME TypeInv, NEW b \in Backends, NEW t \in Terms, NEW i \in Ids, Use(b, t, i)
    PROVE  /\ uses' \in [Backends -> SUBSET Entry] /\ subUses' \in [Backends -> SUBSET Entry]
           /\ Used(b)' = Used(b) \cup {[term |-> t, id |-> i]}
           /\ \A c \in Backends \ {b} : Used(c)' = Used(c)
<1> DEFINE e == [term |-> t, id |-> i]
<1>1. e \in Entry
  BY EntryFacts
<1> HIDE DEF e
<1>2. \/ /\ subUses' = [subUses EXCEPT ![b] = @ \cup {e}] /\ uses' = uses
      \/ /\ uses' = [uses EXCEPT ![b] = @ \cup {e}] /\ subUses' = subUses
  BY DEF Use, AddTo, e
<1>3. uses' \in [Backends -> SUBSET Entry] /\ subUses' \in [Backends -> SUBSET Entry]
  BY <1>1, <1>2 DEF TypeInv
<1>4. Used(b)' = Used(b) \cup {e} /\ \A c \in Backends \ {b} : Used(c)' = Used(c)
  BY <1>2 DEF TypeInv, Used
<1> QED BY <1>3, <1>4 DEF e

(* Rows inserted into the dictionary by the open transaction. *)
LEMMA RowsEffect ==
    ASSUME TypeInv, NEW b \in Backends, NEW e \in Entry, AddTo(b, rows, subRows, e)
    PROVE  /\ rows' \in [Backends -> SUBSET Entry] /\ subRows' \in [Backends -> SUBSET Entry]
           /\ Rows(b)' = Rows(b) \cup {e}
           /\ \A c \in Backends \ {b} : Rows(c)' = Rows(c)
<1>1. \/ /\ subRows' = [subRows EXCEPT ![b] = @ \cup {e}] /\ rows' = rows
      \/ /\ rows' = [rows EXCEPT ![b] = @ \cup {e}] /\ subRows' = subRows
  BY DEF AddTo
<1>2. rows' \in [Backends -> SUBSET Entry] /\ subRows' \in [Backends -> SUBSET Entry]
  BY <1>1 DEF TypeInv
<1>3. Rows(b)' = Rows(b) \cup {e} /\ \A c \in Backends \ {b} : Rows(c)' = Rows(c)
  BY <1>1 DEF TypeInv, Rows
<1> QED BY <1>2, <1>3

(* An entry put into a backend's own cache; the LRU may drop others. *)
LEMMA LocalEffect ==
    ASSUME TypeInv, NEW b \in Backends, NEW t \in Terms, NEW i \in Ids,
           NEW f \in Puts(encode[b], t, i), encode' = [encode EXCEPT ![b] = f]
    PROVE  /\ encode' \in [Backends -> UNION {[D -> Ids] : D \in SUBSET Terms}]
           /\ LocalOf(b)' \subseteq LocalOf(b) \cup {[term |-> t, id |-> i]}
           /\ \A c \in Backends \ {b} : LocalOf(c)' = LocalOf(c)
<1>1. encode[b] \in UNION {[D -> Ids] : D \in SUBSET Terms}
  BY DEF TypeInv
<1>2. /\ f \in UNION {[D -> Ids] : D \in SUBSET Terms}
      /\ \A x \in DOMAIN f : (x = t /\ f[x] = i) \/ (x \in DOMAIN encode[b] /\ f[x] = encode[b][x])
  BY <1>1, PutsEffect
<1>3. encode' \in [Backends -> UNION {[D -> Ids] : D \in SUBSET Terms}]
  BY <1>2 DEF TypeInv
<1>4. encode'[b] = f /\ \A c \in Backends \ {b} : encode'[c] = encode[c]
  BY DEF TypeInv
<1>5. LocalOf(b)' \subseteq LocalOf(b) \cup {[term |-> t, id |-> i]}
  BY <1>2, <1>4 DEF LocalOf
<1>6. \A c \in Backends \ {b} : LocalOf(c)' = LocalOf(c)
  BY <1>4 DEF LocalOf
<1> QED BY <1>3, <1>5, <1>6

(* An emptied cache of one's own. *)
LEMMA EmptyEffect ==
    ASSUME TypeInv, NEW b \in Backends, encode' = [encode EXCEPT ![b] = Empty]
    PROVE  /\ encode' \in [Backends -> UNION {[D -> Ids] : D \in SUBSET Terms}]
           /\ LocalOf(b)' = {} /\ \A c \in Backends \ {b} : LocalOf(c)' = LocalOf(c)
<1>1. Empty \in [{} -> Ids] /\ {} \in SUBSET Terms
  BY DEF Empty
<1>2. encode' \in [Backends -> UNION {[D -> Ids] : D \in SUBSET Terms}]
  BY <1>1 DEF TypeInv
<1>3. LocalOf(b)' = {} /\ \A c \in Backends \ {b} : LocalOf(c)' = LocalOf(c)
  BY <1>1 DEF LocalOf, TypeInv
<1> QED BY <1>2, <1>3

(* clear_caches empties a backend's own cache and only evicts. *)
LEMMA ClearEffect ==
    ASSUME TypeInv, NEW b \in Backends, ClearCaches(b)
    PROVE  /\ encode' \in [Backends -> UNION {[D -> Ids] : D \in SUBSET Terms}]
           /\ LocalOf(b)' = {} /\ \A c \in Backends \ {b} : LocalOf(c)' = LocalOf(c)
           /\ shared' \in [Ways -> Entry \cup {NoEntry}]
           /\ \A w \in Ways : shared'[w] \in {shared[w], NoEntry}
           /\ tracked' \in [Backends -> SUBSET Terms]
           /\ \A c \in Backends \ {b} : tracked'[c] = tracked[c]
<1>1. encode' = [encode EXCEPT ![b] = Empty]
  BY DEF ClearCaches
<1>2. PICK W \in SUBSET Ways : shared' = [w \in Ways |-> IF w \in W THEN NoEntry ELSE shared[w]]
  BY DEF ClearCaches, Evictions
<1>3. shared' \in [Ways -> Entry \cup {NoEntry}] /\ \A w \in Ways : shared'[w] \in {shared[w], NoEntry}
  BY <1>2 DEF TypeInv
<1>4. tracked' \in [Backends -> SUBSET Terms] /\ \A c \in Backends \ {b} : tracked'[c] = tracked[c]
  BY DEF ClearCaches, TypeInv
<1> QED BY <1>1, <1>3, <1>4, EmptyEffect

(* Types. *)
LEMMA TypeStep ==
    ASSUME TypeInv, [Next]_vars
    PROVE  TypeInv'
<1> USE DictionaryAssumption DEF table, caches, open, call, cleaner, history, Goto
<1>1. ASSUME NEW b \in Backends, NEW v \in Numbers, EncodeInline(b, v)
      PROVE  TypeInv'
  BY <1>1 DEF EncodeInline, vars, TypeInv
<1>2. ASSUME NEW b \in Backends, NEW t \in Terms, EncodeShared(b, t)
      PROVE  TypeInv'
  <2>1. PICK w \in Hits(t) :
          /\ \E f \in Puts(encode[b], t, shared[w].id) : encode' = [encode EXCEPT ![b] = f]
          /\ Use(b, t, shared[w].id)
          /\ Borrow(b, shared[w])
    BY <1>2 DEF EncodeShared
  <2>2. shared[w] \in Entry /\ shared[w].id \in Ids
    BY <2>1, EntryFacts DEF Hits, TypeInv, NoEntry, Terms, InlineTerms
  <2>3. encode' \in [Backends -> UNION {[D -> Ids] : D \in SUBSET Terms}]
    BY <2>1, <2>2, LocalEffect
  <2>4. uses' \in [Backends -> SUBSET Entry] /\ subUses' \in [Backends -> SUBSET Entry]
    BY <2>1, <2>2, UseEffect
  <2>5. borrowed' \subseteq Entry
    BY <2>1, <2>2 DEF Borrow, TypeInv
  <2> QED BY <1>2, <2>3, <2>4, <2>5 DEF EncodeShared, TypeInv
<1>3. ASSUME NEW b \in Backends, NEW t \in Terms, EncodeLocal(b, t)
      PROVE  TypeInv'
  <2>1. t \in DOMAIN encode[b] /\ Use(b, t, encode[b][t]) /\ Borrow(b, [term |-> t, id |-> encode[b][t]])
    BY <1>3 DEF EncodeLocal
  <2>2. encode[b][t] \in Ids
    BY <2>1 DEF TypeInv
  <2>3. uses' \in [Backends -> SUBSET Entry] /\ subUses' \in [Backends -> SUBSET Entry]
    BY <2>1, <2>2, UseEffect
  <2>4. borrowed' \subseteq Entry
    BY <2>1, <2>2, EntryFacts DEF Borrow, TypeInv
  <2> QED BY <1>3, <2>3, <2>4 DEF EncodeLocal, TypeInv
<1>4. ASSUME NEW b \in Backends, NEW t \in Terms, EncodeMiss(b, t)
      PROVE  TypeInv'
  BY <1>4 DEF EncodeMiss, TypeInv
<1>5. ASSUME NEW b \in Backends, EncodeInsert(b)
      PROVE  TypeInv'
  <2>1. PICK r \in Entry, w \in Ways : Publishes(b, r, w)
    BY <1>5, InsertPublishes
  <2>2. r.id \in Ids /\ term[b] \in Terms
    BY <2>1, EntryFacts DEF Publishes
  <2>3. encode' \in [Backends -> UNION {[D -> Ids] : D \in SUBSET Terms}]
    BY <2>1, <2>2, LocalEffect DEF Publishes
  <2>4. uses' \in [Backends -> SUBSET Entry] /\ subUses' \in [Backends -> SUBSET Entry]
    BY <2>1, <2>2, UseEffect DEF Publishes
  <2>5. rows' \in [Backends -> SUBSET Entry] /\ subRows' \in [Backends -> SUBSET Entry]
    BY <2>1, RowsEffect DEF TypeInv, Publishes
  <2>6. next' \in 1 .. MaxId + 1
    BY <2>1 DEF TypeInv, Ids, Publishes
  <2>7. shared' \in [Ways -> Entry \cup {NoEntry}]
    BY <2>1 DEF TypeInv, Publishes
  <2>8. tracked' \in [Backends -> SUBSET Terms]
    BY <2>1 DEF TypeInv, Publishes
  <2> QED BY <1>5, <2>3, <2>4, <2>5, <2>6, <2>7, <2>8 DEF EncodeInsert, TypeInv
<1>6. ASSUME NEW b \in Backends, EncodeWaited(b)
      PROVE  TypeInv'
  BY <1>6 DEF EncodeWaited, TypeInv
<1>7. ASSUME NEW b \in Backends, Commit(b)
      PROVE  TypeInv'
  <2>1. dict' \subseteq Entry /\ stored' \subseteq Entry
    BY <1>7 DEF Commit, TypeInv, Rows
  <2>2. savepoint' \in [Backends -> BOOLEAN]
    BY <1>7 DEF Commit, TypeInv
  <2> QED BY <1>7, <2>1, <2>2 DEF Commit, TypeInv
<1>8. ASSUME NEW b \in Backends, Abort(b)
      PROVE  TypeInv'
  <2>1. /\ encode' \in [Backends -> UNION {[D -> Ids] : D \in SUBSET Terms}]
        /\ shared' \in [Ways -> Entry \cup {NoEntry}] /\ tracked' \in [Backends -> SUBSET Terms]
    BY <1>8, ClearEffect DEF Abort
  <2>2. savepoint' \in [Backends -> BOOLEAN]
    BY <1>8 DEF Abort, TypeInv
  <2> QED BY <1>8, <2>1, <2>2 DEF Abort, TypeInv
<1>9. ASSUME NEW b \in Backends, Savepoint(b)
      PROVE  TypeInv'
  <2>1. savepoint' \in [Backends -> BOOLEAN]
    BY <1>9 DEF Savepoint, TypeInv
  <2> QED BY <1>9, <2>1 DEF Savepoint, TypeInv
<1>10. ASSUME NEW b \in Backends, RollbackToSavepoint(b)
      PROVE  TypeInv'
  <2>1. savepoint' \in [Backends -> BOOLEAN]
    BY <1>10 DEF RollbackToSavepoint, TypeInv
  <2>2. encode' \in [Backends -> UNION {[D -> Ids] : D \in SUBSET Terms}]
    BY <1>10, EmptyEffect DEF RollbackToSavepoint
  <2> QED BY <1>10, <2>1, <2>2 DEF RollbackToSavepoint, TypeInv
<1>11. ASSUME NEW b \in Backends, FlushEncodeCache(b)
      PROVE  TypeInv'
  <2>1. encode' \in [Backends -> UNION {[D -> Ids] : D \in SUBSET Terms}]
    BY <1>11, EmptyEffect DEF FlushEncodeCache
  <2> QED BY <1>11, <2>1 DEF FlushEncodeCache, TypeInv
<1>12. ASSUME NEW u \in stored, DeleteUse(u)
      PROVE  TypeInv'
  BY <1>12 DEF DeleteUse, TypeInv
<1>13. ASSUME VacuumScan
      PROVE  TypeInv'
  BY <1>13 DEF VacuumScan, TypeInv
<1>14. ASSUME VacuumDelete
      PROVE  TypeInv'
  BY <1>14 DEF VacuumDelete, TypeInv
<1>15. ASSUME UNCHANGED vars
      PROVE  TypeInv'
  BY <1>15 DEF vars, TypeInv
<1> QED BY <1>1, <1>2, <1>3, <1>4, <1>5, <1>6, <1>7, <1>8, <1>9, <1>10, <1>11, <1>12, <1>13, <1>14, <1>15 DEF Next

(* What EncodeInsert changes. *)
LEMMA PublishEffect ==
    ASSUME TypeInv, NEW b \in Backends, EncodeInsert(b),
           NEW r \in Entry, NEW w \in Ways, Publishes(b, r, w)
    PROVE  /\ pc[b] = "insert" /\ pc'[b] = "idle" /\ r.term = term[b]
           /\ \A c \in Backends \ {b} : pc'[c] = pc[c] /\ term'[c] = term[c]
           /\ shared'[w] = r /\ \A v \in Ways \ {w} : shared'[v] = shared[v]
           /\ tracked'[b] = tracked[b] \cup {r.term}
           /\ \A c \in Backends \ {b} : tracked'[c] = tracked[c]
           /\ LocalOf(b)' \subseteq LocalOf(b) \cup {r}
           /\ Used(b)' = Used(b) \cup {r}
           /\ \A c \in Backends \ {b} : Rows(c)' = Rows(c) /\ LocalOf(c)' = LocalOf(c) /\ Used(c)' = Used(c)
           /\ UNCHANGED <<dict, stored, undone, vacuumed, borrowed>>
           /\ \/ r \in dict \cup Rows(b) /\ Rows(b)' = Rows(b) /\ next' = next
              \/ /\ \A s \in dict \cup Rows(b) : s.term # r.term
                 /\ \A c \in Backends \ {b} : \A s \in Rows(c) : s.term # r.term
                 /\ r.id = next /\ next' = next + 1
                 /\ Rows(b)' = Rows(b) \cup {r}
<1>1. r.id \in Ids /\ r.term \in Terms /\ r = [term |-> r.term, id |-> r.id] /\ r.term = term[b]
  BY EntryFacts DEF Publishes
<1>2. pc[b] = "insert" /\ pc'[b] = "idle" /\ \A c \in Backends \ {b} : pc'[c] = pc[c] /\ term'[c] = term[c]
  BY DEF EncodeInsert, Goto, TypeInv
<1>3. shared'[w] = r /\ \A v \in Ways \ {w} : shared'[v] = shared[v]
  BY DEF Publishes, TypeInv
<1>4. tracked'[b] = tracked[b] \cup {r.term} /\ \A c \in Backends \ {b} : tracked'[c] = tracked[c]
  BY <1>1 DEF Publishes, TypeInv
<1>5. LocalOf(b)' \subseteq LocalOf(b) \cup {r} /\ \A c \in Backends \ {b} : LocalOf(c)' = LocalOf(c)
  BY <1>1, LocalEffect DEF Publishes
<1>6. Used(b)' = Used(b) \cup {r} /\ \A c \in Backends \ {b} : Used(c)' = Used(c)
  BY <1>1, UseEffect DEF Publishes
<1>7. UNCHANGED <<dict, stored, undone, vacuumed, borrowed>>
  BY DEF EncodeInsert, history
<1>8. CASE r \in Seen(b) /\ UNCHANGED <<next, rows, subRows>>
  BY <1>1, <1>2, <1>3, <1>4, <1>5, <1>6, <1>7, <1>8 DEF Rows, Seen
<1>9. CASE /\ \A s \in Seen(b) : s.term # term[b]
           /\ ~Claimed(b, term[b]) /\ r.id = next /\ next \in Ids /\ next' = next + 1
           /\ AddTo(b, rows, subRows, r)
  <2>1. Rows(b)' = Rows(b) \cup {r} /\ \A c \in Backends \ {b} : Rows(c)' = Rows(c)
    BY <1>9, RowsEffect
  <2>2. /\ \A s \in dict \cup Rows(b) : s.term # r.term
        /\ \A c \in Backends \ {b} : \A s \in Rows(c) : s.term # r.term
    BY <1>1, <1>9 DEF Seen, Claimed
  <2> QED BY <1>1, <1>2, <1>3, <1>4, <1>5, <1>6, <1>7, <1>9, <2>1, <2>2
<1> QED BY <1>8, <1>9 DEF Publishes

(* What a hit in the shared cache changes, and a hit in the backend's own. *)
LEMMA SharedHitEffect ==
    ASSUME TypeInv, NEW b \in Backends, NEW t \in Terms, EncodeShared(b, t)
    PROVE  \E w \in Ways :
             /\ shared[w] \in Entry
             /\ LocalOf(b)' \subseteq LocalOf(b) \cup {shared[w]}
             /\ Used(b)' = Used(b) \cup {shared[w]}
             /\ \A c \in Backends \ {b} : LocalOf(c)' = LocalOf(c) /\ Used(c)' = Used(c)
             /\ \A c \in Backends \ {b} : shared[w] \in Rows(c) => shared[w] \in borrowed'
             /\ borrowed \subseteq borrowed'
<1>1. PICK w \in Hits(t) :
        /\ \E f \in Puts(encode[b], t, shared[w].id) : encode' = [encode EXCEPT ![b] = f]
        /\ Use(b, t, shared[w].id)
        /\ Borrow(b, shared[w])
  BY DEF EncodeShared
<1>2. w \in Ways /\ shared[w] \in Entry /\ shared[w].term = t
  BY <1>1, DictionaryAssumption DEF Hits, TypeInv, NoEntry, Terms, InlineTerms
<1>3. shared[w].id \in Ids /\ shared[w] = [term |-> t, id |-> shared[w].id]
  BY <1>2, EntryFacts
<1>4. LocalOf(b)' \subseteq LocalOf(b) \cup {shared[w]} /\ \A c \in Backends \ {b} : LocalOf(c)' = LocalOf(c)
  BY <1>1, <1>3, LocalEffect
<1>5. Used(b)' = Used(b) \cup {shared[w]} /\ \A c \in Backends \ {b} : Used(c)' = Used(c)
  BY <1>1, <1>3, UseEffect
<1>6. /\ \A c \in Backends \ {b} : shared[w] \in Rows(c) => shared[w] \in borrowed'
      /\ borrowed \subseteq borrowed'
  BY <1>1 DEF Borrow
<1> QED BY <1>2, <1>4, <1>5, <1>6

(* A hit in the own cache uses an entry of it. *)
LEMMA LocalHitEffect ==
    ASSUME TypeInv, NEW b \in Backends, NEW t \in Terms, EncodeLocal(b, t)
    PROVE  \E e \in LocalOf(b) :
             /\ Used(b)' = Used(b) \cup {e}
             /\ \A c \in Backends \ {b} : Used(c)' = Used(c)
             /\ borrowed \subseteq borrowed'
<1> DEFINE e == [term |-> t, id |-> encode[b][t]]
<1>1. e \in LocalOf(b) /\ encode[b][t] \in Ids
  BY DEF EncodeLocal, LocalOf, TypeInv
<1>2. Used(b)' = Used(b) \cup {e} /\ \A c \in Backends \ {b} : Used(c)' = Used(c)
  BY <1>1, UseEffect DEF EncodeLocal
<1>3. borrowed \subseteq borrowed'
  BY DEF EncodeLocal, Borrow
<1> HIDE DEF e
<1> QED BY <1>1, <1>2, <1>3

(* The ends of transactions and savepoints: what is kept and what goes. *)
LEMMA CommitEffect ==
    ASSUME TypeInv, NEW b \in Backends, Commit(b)
    PROVE  /\ dict' = dict \cup Rows(b) /\ stored' = stored \cup Used(b)
           /\ Rows(b)' = {} /\ Used(b)' = {}
           /\ \A c \in Backends \ {b} : Rows(c)' = Rows(c) /\ Used(c)' = Used(c) /\ tracked'[c] = tracked[c]
           /\ UNCHANGED <<next, shared, encode, pc, term, undone, vacuumed, borrowed>>
  BY DEF Commit, TypeInv, Rows, Used, call, history

(* An abort drops what the transaction inserted and used. *)
LEMMA AbortEffect ==
    ASSUME TypeInv, NEW b \in Backends, Abort(b)
    PROVE  /\ Rows(b)' = {} /\ Used(b)' = {} /\ pc'[b] = "idle"
           /\ \A c \in Backends \ {b} : Rows(c)' = Rows(c) /\ Used(c)' = Used(c) /\ pc'[c] = pc[c] /\ term'[c] = term[c]
           /\ UNCHANGED <<dict, stored, next, undone, vacuumed, borrowed>>
  BY DEF Abort, TypeInv, Rows, Used, table, history, Goto

(* A rollback to a savepoint drops part of it, and the own cache. *)
LEMMA RollbackEffect ==
    ASSUME TypeInv, NEW b \in Backends, RollbackToSavepoint(b)
    PROVE  /\ Rows(b)' \subseteq Rows(b) /\ Rows(b) \subseteq Rows(b)' \cup undone'
           /\ undone \subseteq undone'
           /\ Used(b)' \subseteq Used(b) /\ pc'[b] = "idle"
           /\ LocalOf(b)' = {}
           /\ \A c \in Backends \ {b} :
                /\ Rows(c)' = Rows(c) /\ Used(c)' = Used(c) /\ LocalOf(c)' = LocalOf(c)
                /\ pc'[c] = pc[c] /\ term'[c] = term[c]
           /\ UNCHANGED <<dict, stored, next, shared, tracked, vacuumed, borrowed>>
<1>1. LocalOf(b)' = {} /\ \A c \in Backends \ {b} : LocalOf(c)' = LocalOf(c)
  BY EmptyEffect DEF RollbackToSavepoint
<1>2. /\ Rows(b)' \subseteq Rows(b) /\ Rows(b) \subseteq Rows(b)' \cup undone'
      /\ undone \subseteq undone'
      /\ \A c \in Backends \ {b} : Rows(c)' = Rows(c)
  BY DEF RollbackToSavepoint, TypeInv, Rows
<1>3. Used(b)' \subseteq Used(b) /\ \A c \in Backends \ {b} : Used(c)' = Used(c)
  BY DEF RollbackToSavepoint, TypeInv, Used
<1>4. pc'[b] = "idle" /\ \A c \in Backends \ {b} : pc'[c] = pc[c] /\ term'[c] = term[c]
  BY DEF RollbackToSavepoint, TypeInv, Goto
<1> QED BY <1>1, <1>2, <1>3, <1>4 DEF RollbackToSavepoint, table

(* The parts of Known. *)
LEMMA KnownParts ==
    ASSUME TypeInv
    PROVE  /\ dict \subseteq Known
           /\ \A b \in Backends : Rows(b) \subseteq Known /\ LocalOf(b) \subseteq Known
           /\ \A w \in Ways : shared[w] \in Known \cup {NoEntry}
           /\ Known \subseteq Entry
<1>1. dict \subseteq Known /\ \A b \in Backends : Rows(b) \subseteq Known
  BY DEF Known, OpenRows
<1>2. \A b \in Backends : LocalOf(b) \subseteq Known
  BY DEF Known, LocalPairs
<1>3. \A w \in Ways : shared[w] \in Known \cup {NoEntry}
  BY DEF Known, SharedPairs
<1>4. OpenRows \subseteq Entry
  BY DEF OpenRows, Rows, TypeInv
<1>5. SharedPairs \subseteq Entry
  BY DEF SharedPairs, TypeInv
<1>6. LocalPairs \subseteq Entry
  <2>1. \A b \in Backends : \A t \in DOMAIN encode[b] : t \in Terms /\ encode[b][t] \in Ids
    BY DEF TypeInv
  <2> QED BY <2>1, EntryFacts DEF LocalPairs, LocalOf
<1> QED BY <1>1, <1>2, <1>3, <1>4, <1>5, <1>6 DEF Known, TypeInv

(* What is known after a step is in one of its parts. *)
LEMMA KnownBounded ==
    ASSUME NEW S, dict' \subseteq S,
           \A b \in Backends : Rows(b)' \subseteq S /\ LocalOf(b)' \subseteq S,
           \A w \in Ways : shared'[w] \in S \cup {NoEntry}
    PROVE  Known' \subseteq S
<1>1. OpenRows' \subseteq S
  BY DEF OpenRows
<1>2. LocalPairs' \subseteq S
  BY DEF LocalPairs
<1>3. SharedPairs' \subseteq S
  BY DEF SharedPairs
<1> QED BY <1>1, <1>2, <1>3 DEF Known

(* Nothing, or one pair with the next identifier, becomes known. *)
KnownGrows ==
    \/ Known' \subseteq Known /\ next' = next
    \/ \E e \in Entry : Known' \subseteq Known \cup {e} /\ e.id = next /\ next' = next + 1

(* A step only copies pairs, except EncodeInsert, which may number a term. *)
LEMMA KnownStep ==
    ASSUME TypeInv, [Next]_vars
    PROVE  KnownGrows
<1> USE KnownParts DEF KnownGrows, table, caches, open, history
<1>1. ASSUME NEW b \in Backends, NEW v \in Numbers, EncodeInline(b, v)
      PROVE  KnownGrows
  BY <1>1, KnownBounded DEF EncodeInline, vars, Rows, LocalOf
<1>2. ASSUME NEW b \in Backends, NEW t \in Terms, EncodeShared(b, t)
      PROVE  KnownGrows
  <2>1. PICK w \in Ways : /\ shared[w] \in Entry
                          /\ LocalOf(b)' \subseteq LocalOf(b) \cup {shared[w]}
                          /\ \A c \in Backends \ {b} : LocalOf(c)' = LocalOf(c)
    BY <1>2, SharedHitEffect
  <2>2. shared[w] \in Known
    BY <2>1, EntryFacts
  <2>3. /\ dict' = dict /\ next' = next /\ \A v \in Ways : shared'[v] = shared[v]
        /\ \A c \in Backends : Rows(c)' = Rows(c)
    BY <1>2 DEF EncodeShared, Rows
  <2>4. \A c \in Backends : LocalOf(c)' \subseteq Known
    BY <2>1, <2>2
  <2> QED BY <2>3, <2>4, KnownBounded
<1>3. ASSUME NEW b \in Backends, NEW t \in Terms, EncodeLocal(b, t)
      PROVE  KnownGrows
  BY <1>3, KnownBounded DEF EncodeLocal, Rows, LocalOf
<1>4. ASSUME NEW b \in Backends, NEW t \in Terms, EncodeMiss(b, t)
      PROVE  KnownGrows
  BY <1>4, KnownBounded DEF EncodeMiss, Rows, LocalOf
<1>5. ASSUME NEW b \in Backends, EncodeInsert(b)
      PROVE  KnownGrows
  <2>1. PICK r \in Entry, w \in Ways : Publishes(b, r, w)
    BY <1>5, InsertPublishes
  <2>2. /\ shared'[w] = r /\ \A v \in Ways \ {w} : shared'[v] = shared[v]
        /\ LocalOf(b)' \subseteq LocalOf(b) \cup {r} /\ Rows(b)' \subseteq Rows(b) \cup {r}
        /\ \A c \in Backends \ {b} : Rows(c)' = Rows(c) /\ LocalOf(c)' = LocalOf(c)
        /\ dict' = dict
        /\ \/ r \in dict \cup Rows(b) /\ next' = next
           \/ r.id = next /\ next' = next + 1
    BY <1>5, <2>1, PublishEffect
  <2>3. /\ \A c \in Backends : Rows(c)' \subseteq Known \cup {r} /\ LocalOf(c)' \subseteq Known \cup {r}
        /\ \A v \in Ways : shared'[v] \in (Known \cup {r}) \cup {NoEntry}
    BY <2>2
  <2>4. Known' \subseteq Known \cup {r}
    BY <2>2, <2>3, KnownBounded
  <2> QED BY <2>2, <2>4
<1>6. ASSUME NEW b \in Backends, EncodeWaited(b)
      PROVE  KnownGrows
  BY <1>6, KnownBounded DEF EncodeWaited, Rows, LocalOf
<1>7. ASSUME NEW b \in Backends, Commit(b)
      PROVE  KnownGrows
  <2>1. /\ dict' = dict \cup Rows(b) /\ Rows(b)' = {} /\ next' = next /\ shared' = shared /\ encode' = encode
        /\ \A c \in Backends \ {b} : Rows(c)' = Rows(c)
    BY <1>7, CommitEffect
  <2>2. \A c \in Backends : LocalOf(c)' = LocalOf(c) /\ Rows(c)' \subseteq Known
    BY <2>1 DEF LocalOf
  <2> QED BY <2>1, <2>2, KnownBounded
<1>8. ASSUME NEW b \in Backends, Abort(b)
      PROVE  KnownGrows
  <2>1. /\ dict' = dict /\ Rows(b)' = {} /\ next' = next
        /\ \A c \in Backends \ {b} : Rows(c)' = Rows(c)
    BY <1>8, AbortEffect
  <2>2. /\ LocalOf(b)' = {} /\ \A c \in Backends \ {b} : LocalOf(c)' = LocalOf(c)
        /\ \A w \in Ways : shared'[w] \in {shared[w], NoEntry}
    BY <1>8, ClearEffect DEF Abort
  <2>3. \A c \in Backends : LocalOf(c)' \subseteq Known /\ Rows(c)' \subseteq Known
    BY <2>1, <2>2
  <2> QED BY <2>1, <2>2, <2>3, KnownBounded
<1>9. ASSUME NEW b \in Backends, Savepoint(b)
      PROVE  KnownGrows
  BY <1>9, KnownBounded DEF Savepoint, Rows, LocalOf
<1>10. ASSUME NEW b \in Backends, RollbackToSavepoint(b)
      PROVE  KnownGrows
  <2>1. /\ dict' = dict /\ Rows(b)' \subseteq Rows(b) /\ next' = next /\ shared' = shared
        /\ LocalOf(b)' = {}
        /\ \A c \in Backends \ {b} : Rows(c)' = Rows(c) /\ LocalOf(c)' = LocalOf(c)
    BY <1>10, RollbackEffect
  <2>2. \A c \in Backends : LocalOf(c)' \subseteq Known /\ Rows(c)' \subseteq Known
    BY <2>1
  <2> QED BY <2>1, <2>2, KnownBounded
<1>11. ASSUME NEW b \in Backends, FlushEncodeCache(b)
      PROVE  KnownGrows
  <2>1. dict' = dict /\ next' = next /\ \A w \in Ways : shared'[w] = NoEntry
    BY <1>11 DEF FlushEncodeCache
  <2>2. \A c \in Backends : Rows(c)' = Rows(c)
    BY <1>11 DEF FlushEncodeCache, Rows
  <2>3. LocalOf(b)' = {} /\ \A c \in Backends \ {b} : LocalOf(c)' = LocalOf(c)
    BY <1>11, EmptyEffect DEF FlushEncodeCache
  <2>4. \A c \in Backends : LocalOf(c)' \subseteq Known /\ Rows(c)' \subseteq Known
    BY <2>2, <2>3
  <2> QED BY <2>1, <2>4, KnownBounded
<1>12. ASSUME NEW u \in stored, DeleteUse(u)
      PROVE  KnownGrows
  BY <1>12, KnownBounded DEF DeleteUse, Rows, LocalOf
<1>13. ASSUME VacuumScan
      PROVE  KnownGrows
  BY <1>13, KnownBounded DEF VacuumScan, Rows, LocalOf
<1>14. ASSUME VacuumDelete
      PROVE  KnownGrows
  BY <1>14, KnownBounded DEF VacuumDelete, Rows, LocalOf
<1>15. ASSUME UNCHANGED vars
      PROVE  KnownGrows
  BY <1>15, KnownBounded DEF vars, Rows, LocalOf
<1> QED BY <1>1, <1>2, <1>3, <1>4, <1>5, <1>6, <1>7, <1>8, <1>9, <1>10, <1>11, <1>12, <1>13, <1>14, <1>15 DEF Next

(* So an identifier keeps naming one term. *)
LEMMA NamesStep ==
    ASSUME TypeInv, NamesInv, [Next]_vars
    PROVE  NamesInv'
<1>1. Known \subseteq Entry /\ \A e \in Entry : e.id \in Nat
  BY KnownParts, EntryFacts
<1>2. next \in Nat
  BY DictionaryAssumption DEF TypeInv
<1>3. CASE Known' \subseteq Known /\ next' = next
  BY <1>3 DEF NamesInv
<1>4. ASSUME NEW e \in Entry, Known' \subseteq Known \cup {e}, e.id = next, next' = next + 1
      PROVE  NamesInv'
  <2>1. \A f \in Known : f.id # e.id /\ f.id < next + 1
    BY <1>1, <1>2, <1>4 DEF NamesInv
  <2>2. \A f \in Known' : f.id < next'
    BY <1>2, <1>4, <2>1
  <2>3. \A f, g \in Known' : f.id = g.id => f.term = g.term
    BY <1>4, <2>1 DEF NamesInv
  <2> QED BY <2>2, <2>3 DEF NamesInv
<1> QED BY <1>3, <1>4, KnownStep DEF KnownGrows

(* A term gets a row only if nobody sees or has open another one. *)
LEMMA RowsStep ==
    ASSUME TypeInv, RowsInv, [Next]_vars
    PROVE  RowsInv'
<1> USE DEF RowsInv, OpenRows, table, open
<1>1. ASSUME NEW b \in Backends, NEW v \in Numbers, EncodeInline(b, v)
      PROVE  RowsInv'
  BY <1>1 DEF EncodeInline, vars, Rows
<1>2. ASSUME NEW b \in Backends, NEW t \in Terms, EncodeShared(b, t)
      PROVE  RowsInv'
  BY <1>2 DEF EncodeShared, Rows
<1>3. ASSUME NEW b \in Backends, NEW t \in Terms, EncodeLocal(b, t)
      PROVE  RowsInv'
  BY <1>3 DEF EncodeLocal, Rows
<1>4. ASSUME NEW b \in Backends, NEW t \in Terms, EncodeMiss(b, t)
      PROVE  RowsInv'
  BY <1>4 DEF EncodeMiss, Rows
<1>5. ASSUME NEW b \in Backends, EncodeInsert(b)
      PROVE  RowsInv'
  <2>1. PICK r \in Entry, w \in Ways : Publishes(b, r, w)
    BY <1>5, InsertPublishes
  <2>2. /\ \A c \in Backends \ {b} : Rows(c)' = Rows(c)
        /\ dict' = dict
        /\ \/ Rows(b)' = Rows(b)
           \/ /\ \A s \in dict \cup Rows(b) : s.term # r.term
              /\ \A c \in Backends \ {b} : \A s \in Rows(c) : s.term # r.term
              /\ Rows(b)' = Rows(b) \cup {r}
    BY <1>5, <2>1, PublishEffect
  <2>3. CASE Rows(b)' = Rows(b)
    <3>1. \A c \in Backends : Rows(c)' = Rows(c)
      BY <2>2, <2>3
    <3> QED BY <2>2, <3>1
  <2>4. CASE /\ \A s \in dict \cup Rows(b) : s.term # r.term
             /\ \A c \in Backends \ {b} : \A s \in Rows(c) : s.term # r.term
             /\ Rows(b)' = Rows(b) \cup {r}
    <3>1. \A s \in dict \cup OpenRows : s.term # r.term
      BY <2>4
    <3>2. dict' \cup OpenRows' = dict \cup OpenRows \cup {r}
      BY <2>2, <2>4
    <3>3. \A s, u \in dict' \cup OpenRows' : s.term = u.term => s.id = u.id
      BY <3>1, <3>2
    <3>4. /\ \A c \in Backends : Rows(c)' \cap dict' = {}
          /\ \A c, d \in Backends : c # d => Rows(c)' \cap Rows(d)' = {}
      BY <2>2, <2>4
    <3> QED BY <3>3, <3>4
  <2> QED BY <2>2, <2>3, <2>4
<1>6. ASSUME NEW b \in Backends, EncodeWaited(b)
      PROVE  RowsInv'
  BY <1>6 DEF EncodeWaited, Rows
<1>7. ASSUME NEW b \in Backends, Commit(b)
      PROVE  RowsInv'
  <2>1. /\ dict' = dict \cup Rows(b) /\ Rows(b)' = {}
        /\ \A c \in Backends \ {b} : Rows(c)' = Rows(c)
    BY <1>7, CommitEffect
  <2> QED BY <2>1
<1>8. ASSUME NEW b \in Backends, Abort(b)
      PROVE  RowsInv'
  <2>1. /\ dict' = dict /\ Rows(b)' = {}
        /\ \A c \in Backends \ {b} : Rows(c)' = Rows(c)
    BY <1>8, AbortEffect
  <2> QED BY <2>1
<1>9. ASSUME NEW b \in Backends, Savepoint(b)
      PROVE  RowsInv'
  BY <1>9 DEF Savepoint, Rows
<1>10. ASSUME NEW b \in Backends, RollbackToSavepoint(b)
      PROVE  RowsInv'
  <2>1. /\ dict' = dict /\ Rows(b)' \subseteq Rows(b)
        /\ \A c \in Backends \ {b} : Rows(c)' = Rows(c)
    BY <1>10, RollbackEffect
  <2> QED BY <2>1
<1>11. ASSUME NEW b \in Backends, FlushEncodeCache(b)
      PROVE  RowsInv'
  BY <1>11 DEF FlushEncodeCache, Rows
<1>12. ASSUME NEW u \in stored, DeleteUse(u)
      PROVE  RowsInv'
  BY <1>12 DEF DeleteUse, Rows
<1>13. ASSUME VacuumScan
      PROVE  RowsInv'
  BY <1>13 DEF VacuumScan, Rows
<1>14. ASSUME VacuumDelete
      PROVE  RowsInv'
  BY <1>14 DEF VacuumDelete, Rows
<1>15. ASSUME UNCHANGED vars
      PROVE  RowsInv'
  BY <1>15 DEF vars, Rows
<1> QED BY <1>1, <1>2, <1>3, <1>4, <1>5, <1>6, <1>7, <1>8, <1>9, <1>10, <1>11, <1>12, <1>13, <1>14, <1>15 DEF Next

(* What is gone stays gone. *)
LEMMA GoneGrows ==
    ASSUME undone \subseteq undone', vacuumed \subseteq vacuumed'
    PROVE  GoneTerms \subseteq GoneTerms'
  BY DEF GoneTerms

(* Two rows of a term are one, and of one owner. *)
LEMMA RowsAreOne ==
    ASSUME TypeInv, RowsInv,
           NEW r \in dict \cup OpenRows, NEW s \in dict \cup OpenRows, r.term = s.term
    PROVE  r = s
<1>1. r \in Entry /\ s \in Entry
  BY DEF TypeInv, OpenRows, Rows
<1> QED BY <1>1, EntryFacts DEF RowsInv

(* An entry of the shared cache is an entry or nothing. *)
LEMMA SharedFacts ==
    ASSUME TypeInv, SharedEntriesBacked, NEW w \in Ways, shared[w].term \in Terms
    PROVE  /\ shared[w] \in Entry
           /\ \/ shared[w] \in dict
              \/ \E b \in Backends : shared[w] \in Rows(b) /\ shared[w].term \in tracked[b]
              \/ shared[w].term \in GoneTerms
<1>1. NoEntry.term \notin Terms
  BY DictionaryAssumption DEF NoEntry, Terms, InlineTerms
<1> QED BY <1>1 DEF TypeInv, SharedEntriesBacked, GoneTerms

(* A second copy is published of committed rows only. *)
LEMMA CopyStep ==
    ASSUME TypeInv, RowsInv, CopyInv, SharedEntriesBacked, [Next]_vars
    PROVE  CopyInv'
<1> USE DEF CopyInv, table, caches, open, call, history
<1>1. ASSUME NEW b \in Backends, NEW v \in Numbers, EncodeInline(b, v)
      PROVE  CopyInv'
  BY <1>1 DEF EncodeInline, vars, Hits, Rows, GoneTerms, Goto, TypeInv
<1>2. ASSUME NEW b \in Backends, NEW t \in Terms, EncodeShared(b, t)
      PROVE  CopyInv'
  BY <1>2 DEF EncodeShared, Hits, Rows, GoneTerms, Goto, TypeInv
<1>3. ASSUME NEW b \in Backends, NEW t \in Terms, EncodeLocal(b, t)
      PROVE  CopyInv'
  BY <1>3 DEF EncodeLocal, Hits, Rows, GoneTerms, Goto, TypeInv
<1>4. ASSUME NEW b \in Backends, NEW t \in Terms, EncodeMiss(b, t)
      PROVE  CopyInv'
  <2>1. UNCHANGED <<dict, shared, rows, subRows, undone, vacuumed>> /\ Hits(t) = {}
    BY <1>4 DEF EncodeMiss
  <2>2. \A c \in Backends : Rows(c)' = Rows(c)
    BY <2>1 DEF Rows
  <2>3. /\ \A c \in Backends \ {b} : pc'[c] = pc[c] /\ term'[c] = term[c]
        /\ term'[b] = t /\ pc'[b] = "wait" => \A r \in Rows(b) : r.term # t
        /\ term'[b] = t
    BY <1>4 DEF EncodeMiss, Goto, TypeInv, Seen
  <2> QED BY <2>1, <2>2, <2>3 DEF Hits, GoneTerms
<1>5. ASSUME NEW b \in Backends, EncodeInsert(b)
      PROVE  CopyInv'
  <2>1. PICK r \in Entry, w \in Ways : Publishes(b, r, w)
    BY <1>5, InsertPublishes
  <2>2. /\ pc[b] = "insert" /\ pc'[b] = "idle" /\ r.term = term[b]
        /\ \A c \in Backends \ {b} : pc'[c] = pc[c] /\ term'[c] = term[c]
        /\ shared'[w] = r /\ \A v \in Ways \ {w} : shared'[v] = shared[v]
        /\ \A c \in Backends \ {b} : Rows(c)' = Rows(c)
        /\ UNCHANGED <<dict, undone, vacuumed>>
        /\ \/ r \in dict \cup Rows(b)
           \/ /\ \A s \in dict \cup Rows(b) : s.term # r.term
              /\ \A c \in Backends \ {b} : \A s \in Rows(c) : s.term # r.term
    BY <1>5, <2>1, PublishEffect
  <2>3. GoneTerms' = GoneTerms
    BY <2>2 DEF GoneTerms
  <2>4. r.term \in Terms
    BY EntryFacts
  <2>5. ASSUME NEW v \in Ways \ {w}, shared[v].term = r.term, r.term \notin GoneTerms
        PROVE  shared[v] \in dict /\ r \in dict
    <3>1. /\ shared[v] \in Entry
          /\ \/ shared[v] \in dict
             \/ \E c \in Backends : shared[v] \in Rows(c)
      BY <2>4, <2>5, SharedFacts
    <3>2. r \notin Rows(b)
      BY <2>2, <2>5 DEF Hits
    <3>3. r \in dict
      BY <2>2, <2>5, <3>1, <3>2
    <3>4. shared[v] = r
      BY <2>5, <3>1, <3>3, RowsAreOne DEF OpenRows
    <3> QED BY <3>3, <3>4
  <2>6. ASSUME NEW v \in Ways, NEW x \in Ways, v # x, shared'[v] # NoEntry, shared'[x].term = shared'[v].term
        PROVE  shared'[v] \in dict' \/ shared'[v].term \in GoneTerms'
    BY <2>2, <2>3, <2>5, <2>6
  <2>7. ASSUME NEW c \in Backends, NEW s \in Rows(c)', s.term = term'[c]
        PROVE  /\ pc'[c] # "wait"
               /\ pc'[c] = "insert" => Hits(s.term)' = {} \/ s.term \in GoneTerms'
    <3>1. CASE c = b
      BY <2>2, <3>1
    <3>2. CASE c # b
      <4>1. s \in Rows(c) /\ s.term = term[c] /\ pc'[c] = pc[c]
        BY <2>2, <2>7, <3>2
      <4>2. r.term # s.term
        <5>1. SUFFICES ASSUME r.term = s.term PROVE FALSE
          OBVIOUS
        <5>2. r \in dict \cup Rows(b)
          BY <2>2, <3>2, <4>1, <5>1
        <5>3. r = s
          BY <4>1, <5>1, <5>2, RowsAreOne DEF OpenRows
        <5> QED BY <3>2, <4>1, <5>2, <5>3 DEF RowsInv
      <4>3. Hits(s.term)' \subseteq Hits(s.term)
        BY <2>2, <4>2 DEF Hits
      <4> QED BY <2>3, <4>1, <4>3
    <3> QED BY <3>1, <3>2
  <2> QED BY <2>6, <2>7
<1>6. ASSUME NEW b \in Backends, EncodeWaited(b)
      PROVE  CopyInv'
  <2>1. UNCHANGED <<dict, shared, rows, subRows, undone, vacuumed, term>> /\ pc[b] = "wait"
    BY <1>6 DEF EncodeWaited
  <2>2. \A c \in Backends : Rows(c)' = Rows(c)
    BY <2>1 DEF Rows
  <2>3. \A c \in Backends \ {b} : pc'[c] = pc[c]
    BY <1>6 DEF EncodeWaited, Goto, TypeInv
  <2> QED BY <2>1, <2>2, <2>3 DEF Hits, GoneTerms
<1>7. ASSUME NEW b \in Backends, Commit(b)
      PROVE  CopyInv'
  <2>1. /\ dict \subseteq dict' /\ Rows(b)' = {}
        /\ \A c \in Backends \ {b} : Rows(c)' = Rows(c)
        /\ UNCHANGED <<shared, pc, term, undone, vacuumed>>
    BY <1>7, CommitEffect
  <2> QED BY <2>1 DEF Hits, GoneTerms
<1>8. ASSUME NEW b \in Backends, Abort(b)
      PROVE  CopyInv'
  <2>1. /\ Rows(b)' = {}
        /\ \A c \in Backends \ {b} : Rows(c)' = Rows(c) /\ pc'[c] = pc[c] /\ term'[c] = term[c]
        /\ UNCHANGED <<dict, undone, vacuumed>>
    BY <1>8, AbortEffect
  <2>2. \A w \in Ways : shared'[w] \in {shared[w], NoEntry}
    BY <1>8, ClearEffect DEF Abort
  <2>3. ASSUME NEW v \in Ways, NEW w \in Ways, v # w, shared'[v] # NoEntry, shared'[w].term = shared'[v].term
        PROVE  shared'[v] \in dict' \/ shared'[v].term \in GoneTerms'
    <3>1. shared'[v] = shared[v] /\ shared[v] \in Entry /\ shared[v].term \in Terms
      BY <2>2, <2>3, EntryFacts DEF TypeInv
    <3>2. shared'[w] = shared[w]
      BY <2>2, <2>3, <3>1, DictionaryAssumption DEF NoEntry, Terms, InlineTerms
    <3> QED BY <2>1, <2>3, <3>1, <3>2 DEF GoneTerms
  <2>4. ASSUME NEW c \in Backends, NEW s \in Rows(c)', s.term = term'[c]
        PROVE  /\ pc'[c] # "wait"
               /\ pc'[c] = "insert" => Hits(s.term)' = {} \/ s.term \in GoneTerms'
    <3>1. c # b /\ s \in Rows(c) /\ s.term \in Terms
      BY <2>1, <2>4, EntryFacts DEF TypeInv, Rows
    <3>2. Hits(s.term)' \subseteq Hits(s.term)
      BY <2>2, <3>1, DictionaryAssumption DEF Hits, NoEntry, Terms, InlineTerms
    <3> QED BY <2>1, <2>4, <3>1, <3>2 DEF GoneTerms
  <2> QED BY <2>3, <2>4
<1>9. ASSUME NEW b \in Backends, Savepoint(b)
      PROVE  CopyInv'
  BY <1>9 DEF Savepoint, Hits, Rows, GoneTerms, Goto, TypeInv
<1>10. ASSUME NEW b \in Backends, RollbackToSavepoint(b)
      PROVE  CopyInv'
  <2>1. /\ Rows(b)' \subseteq Rows(b) /\ undone \subseteq undone' /\ pc'[b] = "idle"
        /\ \A c \in Backends \ {b} : Rows(c)' = Rows(c) /\ pc'[c] = pc[c] /\ term'[c] = term[c]
        /\ UNCHANGED <<dict, shared, vacuumed>>
    BY <1>10, RollbackEffect
  <2>2. GoneTerms \subseteq GoneTerms'
    BY <2>1, GoneGrows
  <2> QED BY <2>1, <2>2 DEF Hits
<1>11. ASSUME NEW b \in Backends, FlushEncodeCache(b)
      PROVE  CopyInv'
  <2>1. \A w \in Ways : shared'[w] = NoEntry
    BY <1>11 DEF FlushEncodeCache
  <2>2. UNCHANGED <<dict, rows, subRows, pc, term>>
    BY <1>11 DEF FlushEncodeCache
  <2>3. \A t \in Terms : Hits(t)' = {}
    BY <2>1, DictionaryAssumption DEF Hits, NoEntry, Terms, InlineTerms
  <2>4. \A c \in Backends : Rows(c)' = Rows(c) /\ \A r \in Rows(c) : r.term \in Terms
    BY <2>2, EntryFacts DEF Rows, TypeInv
  <2> QED BY <2>1, <2>2, <2>3, <2>4
<1>12. ASSUME NEW u \in stored, DeleteUse(u)
      PROVE  CopyInv'
  BY <1>12 DEF DeleteUse, Hits, Rows, GoneTerms, Goto, TypeInv
<1>13. ASSUME VacuumScan
      PROVE  CopyInv'
  BY <1>13 DEF VacuumScan, Hits, Rows, GoneTerms, Goto, TypeInv
<1>14. ASSUME VacuumDelete
      PROVE  CopyInv'
  <2>1. /\ dict \subseteq dict' \cup vacuumed' /\ vacuumed \subseteq vacuumed'
        /\ UNCHANGED <<shared, rows, subRows, pc, term, undone>>
    BY <1>14 DEF VacuumDelete
  <2>2. GoneTerms \subseteq GoneTerms' /\ \A r \in dict \ dict' : r.term \in GoneTerms'
    BY <2>1, GoneGrows DEF GoneTerms
  <2>3. \A c \in Backends : Rows(c)' = Rows(c)
    BY <2>1 DEF Rows
  <2> QED BY <2>1, <2>2, <2>3 DEF Hits
<1>15. ASSUME UNCHANGED vars
      PROVE  CopyInv'
  BY <1>15 DEF vars, Hits, Rows, GoneTerms, Goto, TypeInv
<1> QED BY <1>1, <1>2, <1>3, <1>4, <1>5, <1>6, <1>7, <1>8, <1>9, <1>10, <1>11, <1>12, <1>13, <1>14, <1>15 DEF Next

(* A rollback that leaves an entry of one of its terms has evicted another  *)
(* copy.                                                                    *)
LEMMA OtherCopyEvicted ==
    ASSUME TypeInv, NEW b \in Backends, ClearCaches(b), NEW w \in Ways,
           shared[w].term \in tracked[b], shared'[w] # NoEntry
    PROVE  \E v \in Ways : v # w /\ shared[v].term = shared[w].term
<1> DEFINE t == shared[w].term
<1>1. PICK W \in SUBSET Ways :
        /\ shared' = [x \in Ways |-> IF x \in W THEN NoEntry ELSE shared[x]]
        /\ \A u \in tracked[b] : Hits(u) # {} => Cardinality(W \cap Hits(u)) = 1
  BY DEF ClearCaches, Evictions
<1>2. w \in Hits(t) /\ w \notin W
  BY <1>1 DEF Hits
<1>3. Cardinality(W \cap Hits(t)) = 1
  BY <1>1, <1>2
<1>4. W \cap Hits(t) # {}
  BY <1>3, FS_EmptySet
<1> QED BY <1>2, <1>4 DEF Hits

(* A shared entry loses its row only to a savepoint rollback or a vacuum. *)
LEMMA BackedStep ==
    ASSUME TypeInv, RowsInv, CopyInv, SharedEntriesBacked, [Next]_vars
    PROVE  SharedEntriesBacked'
<1> USE DEF SharedEntriesBacked, table, caches, open, history
<1>1. ASSUME NEW b \in Backends, NEW v \in Numbers, EncodeInline(b, v)
      PROVE  SharedEntriesBacked'
  BY <1>1 DEF EncodeInline, vars, Rows, TypeInv
<1>2. ASSUME NEW b \in Backends, NEW t \in Terms, EncodeShared(b, t)
      PROVE  SharedEntriesBacked'
  BY <1>2 DEF EncodeShared, Rows, TypeInv
<1>3. ASSUME NEW b \in Backends, NEW t \in Terms, EncodeLocal(b, t)
      PROVE  SharedEntriesBacked'
  BY <1>3 DEF EncodeLocal, Rows, TypeInv
<1>4. ASSUME NEW b \in Backends, NEW t \in Terms, EncodeMiss(b, t)
      PROVE  SharedEntriesBacked'
  BY <1>4 DEF EncodeMiss, Rows, TypeInv
<1>5. ASSUME NEW b \in Backends, EncodeInsert(b)
      PROVE  SharedEntriesBacked'
  <2>1. PICK r \in Entry, w \in Ways : Publishes(b, r, w)
    BY <1>5, InsertPublishes
  <2>2. /\ shared'[w] = r /\ \A v \in Ways \ {w} : shared'[v] = shared[v]
        /\ tracked'[b] = tracked[b] \cup {r.term}
        /\ \A c \in Backends \ {b} : tracked'[c] = tracked[c] /\ Rows(c)' = Rows(c)
        /\ UNCHANGED <<dict, undone, vacuumed>>
        /\ Rows(b) \subseteq Rows(b)' /\ r \in dict \cup Rows(b)'
    BY <1>5, <2>1, PublishEffect
  <2>3. \A c \in Backends : Rows(c) \subseteq Rows(c)' /\ tracked[c] \subseteq tracked'[c]
    BY <2>2
  <2> QED BY <2>2, <2>3
<1>6. ASSUME NEW b \in Backends, EncodeWaited(b)
      PROVE  SharedEntriesBacked'
  BY <1>6 DEF EncodeWaited, Rows, TypeInv
<1>7. ASSUME NEW b \in Backends, Commit(b)
      PROVE  SharedEntriesBacked'
  <2>1. /\ dict' = dict \cup Rows(b)
        /\ \A c \in Backends \ {b} : Rows(c)' = Rows(c) /\ tracked'[c] = tracked[c]
        /\ UNCHANGED <<shared, undone, vacuumed>>
    BY <1>7, CommitEffect
  <2> QED BY <2>1
<1>8. ASSUME NEW b \in Backends, Abort(b)
      PROVE  SharedEntriesBacked'
  <2>1. /\ \A c \in Backends \ {b} : Rows(c)' = Rows(c)
        /\ UNCHANGED <<dict, undone, vacuumed>>
    BY <1>8, AbortEffect
  <2>2. /\ \A w \in Ways : shared'[w] \in {shared[w], NoEntry}
        /\ \A c \in Backends \ {b} : tracked'[c] = tracked[c]
    BY <1>8, ClearEffect DEF Abort
  <2>3. ASSUME NEW w \in Ways, shared'[w] # NoEntry, shared[w] \in Rows(b), shared[w].term \in tracked[b]
        PROVE  shared[w].term \in GoneTerms
    <3>1. PICK v \in Ways : v # w /\ shared[v].term = shared[w].term
      BY <1>8, <2>3, OtherCopyEvicted DEF Abort
    <3>2. shared[w] # NoEntry
      BY <2>2, <2>3
    <3>3. shared[w] \notin dict
      BY <2>3 DEF RowsInv
    <3> QED BY <3>1, <3>2, <3>3 DEF CopyInv
  <2> QED BY <2>1, <2>2, <2>3 DEF GoneTerms
<1>9. ASSUME NEW b \in Backends, Savepoint(b)
      PROVE  SharedEntriesBacked'
  BY <1>9 DEF Savepoint, Rows, TypeInv
<1>10. ASSUME NEW b \in Backends, RollbackToSavepoint(b)
      PROVE  SharedEntriesBacked'
  <2>1. /\ Rows(b) \subseteq Rows(b)' \cup undone' /\ undone \subseteq undone'
        /\ \A c \in Backends \ {b} : Rows(c)' = Rows(c)
        /\ UNCHANGED <<dict, shared, tracked, vacuumed>>
    BY <1>10, RollbackEffect
  <2> QED BY <2>1
<1>11. ASSUME NEW b \in Backends, FlushEncodeCache(b)
      PROVE  SharedEntriesBacked'
  BY <1>11 DEF FlushEncodeCache, Rows, TypeInv
<1>12. ASSUME NEW u \in stored, DeleteUse(u)
      PROVE  SharedEntriesBacked'
  BY <1>12 DEF DeleteUse, Rows, TypeInv
<1>13. ASSUME VacuumScan
      PROVE  SharedEntriesBacked'
  BY <1>13 DEF VacuumScan, Rows, TypeInv
<1>14. ASSUME VacuumDelete
      PROVE  SharedEntriesBacked'
  BY <1>14 DEF VacuumDelete, Rows, TypeInv
<1>15. ASSUME UNCHANGED vars
      PROVE  SharedEntriesBacked'
  BY <1>15 DEF vars, Rows, TypeInv
<1> QED BY <1>1, <1>2, <1>3, <1>4, <1>5, <1>6, <1>7, <1>8, <1>9, <1>10, <1>11, <1>12, <1>13, <1>14, <1>15 DEF Next

(* A backend's uses and its own cache hold committed, borrowed or its own   *)
(* rows.                                                                    *)
LEMMA UseStep ==
    ASSUME TypeInv, UseInv, SharedEntriesBacked, [Next]_vars
    PROVE  UseInv'
<1> USE DEF UseInv, table, caches, open, history
<1>1. ASSUME NEW b \in Backends, NEW v \in Numbers, EncodeInline(b, v)
      PROVE  UseInv'
  BY <1>1 DEF EncodeInline, vars, Rows, Used, LocalOf, GoneTerms
<1>2. ASSUME NEW b \in Backends, NEW t \in Terms, EncodeShared(b, t)
      PROVE  UseInv'
  <2>1. PICK w \in Ways :
          /\ shared[w] \in Entry
          /\ LocalOf(b)' \subseteq LocalOf(b) \cup {shared[w]}
          /\ Used(b)' = Used(b) \cup {shared[w]}
          /\ \A c \in Backends \ {b} : LocalOf(c)' = LocalOf(c) /\ Used(c)' = Used(c)
          /\ \A c \in Backends \ {b} : shared[w] \in Rows(c) => shared[w] \in borrowed'
          /\ borrowed \subseteq borrowed'
    BY <1>2, SharedHitEffect
  <2>2. UNCHANGED <<dict, rows, subRows, undone, vacuumed>>
    BY <1>2 DEF EncodeShared
  <2>3. \A c \in Backends : Rows(c)' = Rows(c)
    BY <2>2 DEF Rows
  <2>4. GoneTerms' = GoneTerms
    BY <2>2 DEF GoneTerms
  <2>5. shared[w] \in dict \cup borrowed' \cup Rows(b) \/ shared[w].term \in GoneTerms
    BY <2>1, SharedFacts, EntryFacts
  <2> QED BY <2>1, <2>2, <2>3, <2>4, <2>5
<1>3. ASSUME NEW b \in Backends, NEW t \in Terms, EncodeLocal(b, t)
      PROVE  UseInv'
  <2>1. PICK e \in LocalOf(b) :
          /\ Used(b)' = Used(b) \cup {e}
          /\ \A c \in Backends \ {b} : Used(c)' = Used(c)
          /\ borrowed \subseteq borrowed'
    BY <1>3, LocalHitEffect
  <2>2. UNCHANGED <<dict, encode, rows, subRows, undone, vacuumed>>
    BY <1>3 DEF EncodeLocal
  <2>3. \A c \in Backends : Rows(c)' = Rows(c) /\ LocalOf(c)' = LocalOf(c)
    BY <2>2 DEF Rows, LocalOf
  <2>4. GoneTerms' = GoneTerms
    BY <2>2 DEF GoneTerms
  <2> QED BY <2>1, <2>2, <2>3, <2>4
<1>4. ASSUME NEW b \in Backends, NEW t \in Terms, EncodeMiss(b, t)
      PROVE  UseInv'
  BY <1>4 DEF EncodeMiss, Rows, Used, LocalOf, GoneTerms
<1>5. ASSUME NEW b \in Backends, EncodeInsert(b)
      PROVE  UseInv'
  <2>1. PICK r \in Entry, w \in Ways : Publishes(b, r, w)
    BY <1>5, InsertPublishes
  <2>2. /\ LocalOf(b)' \subseteq LocalOf(b) \cup {r}
        /\ Used(b)' = Used(b) \cup {r}
        /\ \A c \in Backends \ {b} : Rows(c)' = Rows(c) /\ LocalOf(c)' = LocalOf(c) /\ Used(c)' = Used(c)
        /\ UNCHANGED <<dict, undone, vacuumed, borrowed>>
        /\ Rows(b) \subseteq Rows(b)' /\ r \in dict \cup Rows(b)'
    BY <1>5, <2>1, PublishEffect
  <2>3. GoneTerms' = GoneTerms
    BY <2>2 DEF GoneTerms
  <2> QED BY <2>2, <2>3
<1>6. ASSUME NEW b \in Backends, EncodeWaited(b)
      PROVE  UseInv'
  BY <1>6 DEF EncodeWaited, Rows, Used, LocalOf, GoneTerms
<1>7. ASSUME NEW b \in Backends, Commit(b)
      PROVE  UseInv'
  <2>1. /\ dict' = dict \cup Rows(b) /\ Used(b)' = {}
        /\ \A c \in Backends \ {b} : Rows(c)' = Rows(c) /\ Used(c)' = Used(c)
        /\ UNCHANGED <<encode, undone, vacuumed, borrowed>>
    BY <1>7, CommitEffect
  <2>2. GoneTerms' = GoneTerms /\ \A c \in Backends : LocalOf(c)' = LocalOf(c)
    BY <2>1 DEF GoneTerms, LocalOf
  <2> QED BY <2>1, <2>2
<1>8. ASSUME NEW b \in Backends, Abort(b)
      PROVE  UseInv'
  <2>1. /\ Used(b)' = {}
        /\ \A c \in Backends \ {b} : Rows(c)' = Rows(c) /\ Used(c)' = Used(c)
        /\ UNCHANGED <<dict, undone, vacuumed, borrowed>>
    BY <1>8, AbortEffect
  <2>2. LocalOf(b)' = {} /\ \A c \in Backends \ {b} : LocalOf(c)' = LocalOf(c)
    BY <1>8, ClearEffect DEF Abort
  <2>3. GoneTerms' = GoneTerms
    BY <2>1 DEF GoneTerms
  <2> QED BY <2>1, <2>2, <2>3
<1>9. ASSUME NEW b \in Backends, Savepoint(b)
      PROVE  UseInv'
  BY <1>9 DEF Savepoint, Rows, Used, LocalOf, GoneTerms
<1>10. ASSUME NEW b \in Backends, RollbackToSavepoint(b)
      PROVE  UseInv'
  <2>1. /\ Rows(b) \subseteq Rows(b)' \cup undone' /\ undone \subseteq undone'
        /\ Used(b)' \subseteq Used(b) /\ LocalOf(b)' = {}
        /\ \A c \in Backends \ {b} :
             Rows(c)' = Rows(c) /\ Used(c)' = Used(c) /\ LocalOf(c)' = LocalOf(c)
        /\ UNCHANGED <<dict, vacuumed, borrowed>>
    BY <1>10, RollbackEffect
  <2>2. GoneTerms \subseteq GoneTerms' /\ \A e \in Rows(b) \ Rows(b)' : e.term \in GoneTerms'
    BY <2>1, GoneGrows DEF GoneTerms
  <2> QED BY <2>1, <2>2
<1>11. ASSUME NEW b \in Backends, FlushEncodeCache(b)
      PROVE  UseInv'
  <2>1. LocalOf(b)' = {} /\ \A c \in Backends \ {b} : LocalOf(c)' = LocalOf(c)
    BY <1>11, EmptyEffect DEF FlushEncodeCache
  <2>2. \A c \in Backends : Rows(c)' = Rows(c) /\ Used(c)' = Used(c)
    BY <1>11 DEF FlushEncodeCache, Rows, Used
  <2>3. dict' = dict /\ borrowed' = borrowed /\ GoneTerms' = GoneTerms
    BY <1>11 DEF FlushEncodeCache, GoneTerms
  <2> QED BY <2>1, <2>2, <2>3
<1>12. ASSUME NEW u \in stored, DeleteUse(u)
      PROVE  UseInv'
  BY <1>12 DEF DeleteUse, Rows, Used, LocalOf, GoneTerms
<1>13. ASSUME VacuumScan
      PROVE  UseInv'
  BY <1>13 DEF VacuumScan, Rows, Used, LocalOf, GoneTerms
<1>14. ASSUME VacuumDelete
      PROVE  UseInv'
  <2>1. /\ dict \subseteq dict' \cup vacuumed' /\ vacuumed \subseteq vacuumed'
        /\ UNCHANGED <<encode, rows, subRows, uses, subUses, undone, borrowed>>
    BY <1>14 DEF VacuumDelete
  <2>2. GoneTerms \subseteq GoneTerms' /\ \A r \in dict \ dict' : r.term \in GoneTerms'
    BY <2>1, GoneGrows DEF GoneTerms
  <2>3. \A c \in Backends : Rows(c)' = Rows(c) /\ Used(c)' = Used(c) /\ LocalOf(c)' = LocalOf(c)
    BY <2>1 DEF Rows, Used, LocalOf
  <2> QED BY <2>1, <2>2, <2>3
<1>15. ASSUME UNCHANGED vars
      PROVE  UseInv'
  BY <1>15 DEF vars, Rows, Used, LocalOf, GoneTerms
<1> QED BY <1>1, <1>2, <1>3, <1>4, <1>5, <1>6, <1>7, <1>8, <1>9, <1>10, <1>11, <1>12, <1>13, <1>14, <1>15 DEF Next

(* A commit stores what the backend has in use. *)
LEMMA LostStep ==
    ASSUME TypeInv, UseInv, LostIdsExplained, [Next]_vars
    PROVE  LostIdsExplained'
<1> USE DEF LostIdsExplained, table, history
<1>1. ASSUME NEW b \in Backends, NEW v \in Numbers, EncodeInline(b, v)
      PROVE  LostIdsExplained'
  BY <1>1 DEF EncodeInline, vars
<1>2. ASSUME NEW b \in Backends, NEW t \in Terms, EncodeShared(b, t)
      PROVE  LostIdsExplained'
  BY <1>2 DEF EncodeShared, Borrow
<1>3. ASSUME NEW b \in Backends, NEW t \in Terms, EncodeLocal(b, t)
      PROVE  LostIdsExplained'
  BY <1>3 DEF EncodeLocal, Borrow
<1>4. ASSUME NEW b \in Backends, NEW t \in Terms, EncodeMiss(b, t)
      PROVE  LostIdsExplained'
  BY <1>4 DEF EncodeMiss
<1>5. ASSUME NEW b \in Backends, EncodeInsert(b)
      PROVE  LostIdsExplained'
  BY <1>5 DEF EncodeInsert
<1>6. ASSUME NEW b \in Backends, EncodeWaited(b)
      PROVE  LostIdsExplained'
  BY <1>6 DEF EncodeWaited
<1>7. ASSUME NEW b \in Backends, Commit(b)
      PROVE  LostIdsExplained'
  <2>1. /\ dict' = dict \cup Rows(b) /\ stored' = stored \cup Used(b)
        /\ UNCHANGED <<undone, vacuumed, borrowed>>
    BY <1>7, CommitEffect
  <2>2. \A e \in Used(b) : e \in dict' \cup borrowed \/ e.term \in GoneTerms
    BY <2>1 DEF UseInv
  <2> QED BY <2>1, <2>2 DEF GoneTerms
<1>8. ASSUME NEW b \in Backends, Abort(b)
      PROVE  LostIdsExplained'
  BY <1>8 DEF Abort
<1>9. ASSUME NEW b \in Backends, Savepoint(b)
      PROVE  LostIdsExplained'
  BY <1>9 DEF Savepoint
<1>10. ASSUME NEW b \in Backends, RollbackToSavepoint(b)
      PROVE  LostIdsExplained'
  BY <1>10 DEF RollbackToSavepoint
<1>11. ASSUME NEW b \in Backends, FlushEncodeCache(b)
      PROVE  LostIdsExplained'
  BY <1>11 DEF FlushEncodeCache
<1>12. ASSUME NEW u \in stored, DeleteUse(u)
      PROVE  LostIdsExplained'
  BY <1>12 DEF DeleteUse
<1>13. ASSUME VacuumScan
      PROVE  LostIdsExplained'
  BY <1>13 DEF VacuumScan
<1>14. ASSUME VacuumDelete
      PROVE  LostIdsExplained'
  BY <1>14 DEF VacuumDelete
<1>15. ASSUME UNCHANGED vars
      PROVE  LostIdsExplained'
  BY <1>15 DEF vars
<1> QED BY <1>1, <1>2, <1>3, <1>4, <1>5, <1>6, <1>7, <1>8, <1>9, <1>10, <1>11, <1>12, <1>13, <1>14, <1>15 DEF Next

-----------------------------------------------------------------------------
(* The inductive invariant holds of every run. *)
THEOREM DictionaryInvariant == Spec => []DInv
<1>1. DInv /\ [Next]_vars => DInv'
  <2> SUFFICES ASSUME DInv, [Next]_vars PROVE DInv'
    OBVIOUS
  <2> USE DEF DInv
  <2>1. TypeInv' /\ NamesInv' /\ RowsInv'
    BY TypeStep, NamesStep, RowsStep
  <2>2. CopyInv' /\ SharedEntriesBacked'
    BY CopyStep, BackedStep
  <2>3. UseInv' /\ LostIdsExplained'
    BY UseStep, LostStep
  <2> QED BY <2>1, <2>2, <2>3
<1> QED BY <1>1, InitInv, PTL DEF Spec

(* Over the table, open transactions and every cache, a term has one        *)
(* identifier and an identifier one term, whatever is rolled back, evicted, *)
(* flushed or vacuumed.                                                     *)
THEOREM CachesAlwaysNameTheTerm == Spec => []CachesNameTheTerm
<1>1. DInv => CachesNameTheTerm
  <2> SUFFICES ASSUME DInv PROVE CachesNameTheTerm
    OBVIOUS
  <2> DEFINE all == dict \cup UNION {Rows(b) : b \in Backends}
  <2>1. all \subseteq Known /\ all \subseteq Entry
    BY KnownParts DEF DInv
  <2>2. \A r, s \in all : r.term = s.term <=> r.id = s.id
    BY <2>1 DEF DInv, NamesInv, RowsInv, OpenRows
  <2>3. ASSUME NEW r \in all, NEW w \in Ways, shared[w].id = r.id PROVE shared[w].term = r.term
    <3>1. shared[w] # NoEntry
      BY <2>1, <2>3, EntryFacts DEF NoEntry
    <3> QED BY <2>1, <2>3, <3>1, KnownParts DEF DInv, NamesInv
  <2>4. ASSUME NEW r \in all, NEW b \in Backends, NEW t \in DOMAIN encode[b], encode[b][t] = r.id
        PROVE  t = r.term
    <3>1. [term |-> t, id |-> encode[b][t]] \in Known
      BY KnownParts DEF DInv, LocalOf
    <3> QED BY <2>1, <2>4, <3>1 DEF DInv, NamesInv
  <2> QED BY <2>2, <2>3, <2>4 DEF CachesNameTheTerm
<1> QED BY <1>1, DictionaryInvariant, PTL

(* Outside savepoint rollbacks and vacuums, clear_caches is enough to keep  *)
(* the shared encode cache free of rolled-back rows, though it evicts one   *)
(* copy per term.                                                           *)
THEOREM SharedEntriesAlwaysBacked == Spec => []SharedEntriesBacked
<1>1. DInv => SharedEntriesBacked
  BY DEF DInv
<1> QED BY <1>1, DictionaryInvariant, PTL

(* Identifiers stored in triples lose their dictionary row in the three     *)
(* named ways only.                                                         *)
THEOREM LostIdsAlwaysExplained == Spec => []LostIdsExplained
<1>1. DInv => LostIdsExplained
  BY DEF DInv
<1> QED BY <1>1, DictionaryInvariant, PTL
=============================================================================
