------------------------------ MODULE Dictionary ------------------------------
(***************************************************************************)
(* The dictionary of terms and its caches (src/src/dictionary/mod.rs,      *)
(* src/src/shmem.rs, the transaction callbacks of src/src/lib.rs, and      *)
(* vacuum_dictionary of src/src/maintenance_api/vacuum.rs).                *)
(*                                                                         *)
(* A backend that stores a triple first encodes its terms: it asks the     *)
(* shared cache, then its own, then the table, where a new term gets the   *)
(* next identifier of a sequence, and publishes what it found in both      *)
(* caches while its transaction is still open.  Rollbacks undo the table   *)
(* and not the caches; the callbacks do that.  One set of the shared       *)
(* cache is modelled; which of its ways an insert overwrites is decided by *)
(* their ages, which are left out: any may be the oldest.                  *)
(*                                                                         *)
(* dict and stored are committed; rows and uses are what the open          *)
(* transaction of a backend has added, the sub parts under its savepoint.  *)
(***************************************************************************)
EXTENDS InlineIds, FiniteSets

CONSTANTS
    Backends,    \* sessions
    Names,       \* terms that need a dictionary row
    Numbers,     \* integer literals
    NoTerm,      \* nothing
    Ways,        \* the ways of a set of the shared cache (four)
    Local,       \* entries of a backend's own caches (CACHE_CAPACITY)
    MaxId,       \* bound on the sequence of identifiers
    MaxUses,     \* bound on the identifiers a transaction stores
    Savepoints,  \* the sessions that use savepoints
    Vacuums      \* do sessions run vacuum_dictionary?

ASSUME DictionaryAssumption ==
    /\ Numbers \subseteq Int /\ Ways # {} /\ NoTerm \notin Names \cup Numbers
    /\ Local \in Nat \ {0} /\ MaxId \in Nat \ {0} /\ MaxUses \in Nat \ {0}
    /\ Savepoints \subseteq Backends /\ Vacuums \in BOOLEAN

(* encode_typed_literal keeps integers out of the dictionary when they fit. *)
InlineTerms == {v \in Numbers : Inlineable(v)}

(* What gets a row: names, and integers that are too large. *)
Terms == Names \cup (Numbers \ InlineTerms)

Ids == 1 .. MaxId

Entry == [term : Terms, id : Ids]

VARIABLES
    dict,      \* committed rows of _pg_ripple.dictionary
    stored,    \* committed uses of an identifier in a triple, [term, id]
    next,      \* the next value of the identity sequence
    shared,    \* ENCODE_CACHE_S0 / ENCODE_CACHE_IDS: an entry per way, or none
    encode,    \* per backend, ENCODE_CACHE: term -> id, partial
    tracked,   \* per backend, TX_SHMEM_INSERTS
    rows, subRows,   \* per backend: its uncommitted dictionary rows
    uses, subUses,   \* per backend: its uncommitted uses
    savepoint, \* per backend: is a savepoint open?
    pc, term,  \* per backend: where its call is, and of which term
    vacuum, live,  \* is a vacuum between its two steps, and the ids it has seen in use
    undone, vacuumed,  \* history: rows that went with a savepoint or a vacuum
    borrowed   \* history: rows handed out while another transaction had them open

table   == <<dict, stored, next>>
caches  == <<shared, encode, tracked>>
open    == <<rows, subRows, uses, subUses, savepoint>>
call    == <<pc, term>>
cleaner == <<vacuum, live>>
history == <<undone, vacuumed, borrowed>>
vars    == <<table, caches, open, call, cleaner, history>>

NoEntry == [term |-> NoTerm, id |-> 0]

Empty == [x \in {} |-> 0]

Init ==
    /\ dict = {} /\ stored = {} /\ next = 1
    /\ shared = [w \in Ways |-> NoEntry]
    /\ encode = [b \in Backends |-> Empty]
    /\ tracked = [b \in Backends |-> {}]
    /\ rows = [b \in Backends |-> {}] /\ subRows = [b \in Backends |-> {}]
    /\ uses = [b \in Backends |-> {}] /\ subUses = [b \in Backends |-> {}]
    /\ savepoint = [b \in Backends |-> FALSE]
    /\ pc = [b \in Backends |-> "idle"] /\ term = [b \in Backends |-> NoTerm]
    /\ vacuum = FALSE /\ live = {}
    /\ undone = {} /\ vacuumed = {} /\ borrowed = {}

-----------------------------------------------------------------------------
(* The caches. *)

(* LruCache::put: at capacity the least recently used entry, here any other *)
(* one, makes room.                                                         *)
Puts(f, k, v) ==
    LET With(D) == [x \in D \cup {k} |-> IF x = k THEN v ELSE f[x]]
    IN  IF k \in DOMAIN f \/ Cardinality(DOMAIN f) < Local
        THEN {With(DOMAIN f)}
        ELSE {With(DOMAIN f \ {x}) : x \in DOMAIN f}

(* encode_cache_lookup: the ways that hold the term. *)
Hits(t) == {w \in Ways : shared[w].term = t}

(* encode_cache_insert: an empty way, or else the oldest; copies of the     *)
(* term in other ways are not looked for.                                   *)
Slots ==
    LET free == {w \in Ways : shared[w] = NoEntry}
    IN  IF free # {} THEN free ELSE Ways

(* encode_cache_evict of each term of T: one way of each. *)
Evictions(T) ==
    {[w \in Ways |-> IF w \in W THEN NoEntry ELSE shared[w]] :
        W \in {V \in SUBSET Ways :
                  /\ \A w \in V : shared[w].term \in T
                  /\ \A t \in T : Hits(t) # {} => Cardinality(V \cap Hits(t)) = 1}}

Rows(b) == rows[b] \cup subRows[b]

Seen(b) == dict \cup Rows(b)

(* Mutant: no unique index on the hash. *)
NeverClaimed(b, t) == FALSE

(* Another open transaction has inserted the term's hash. *)
Claimed(b, t) == \E c \in Backends \ {b} : \E r \in Rows(c) : r.term = t

(* Backend b may encode one more term. *)
MayEncode(b) == pc[b] = "idle" /\ Cardinality(uses[b] \cup subUses[b]) < MaxUses

Goto(b, l) == pc' = [pc EXCEPT ![b] = l]

(* A write of b's transaction, under its savepoint if there is one. *)
AddTo(b, top, sub, x) ==
    IF savepoint[b]
    THEN sub' = [sub EXCEPT ![b] = @ \cup {x}] /\ UNCHANGED top
    ELSE top' = [top EXCEPT ![b] = @ \cup {x}] /\ UNCHANGED sub

(* The caller stores the identifier it got in a triple. *)
Use(b, t, i) == AddTo(b, uses, subUses, [term |-> t, id |-> i])

(* History: a cache hands out the row of another, still open transaction. *)
Borrow(b, e) ==
    borrowed' = borrowed \cup ({e} \cap UNION {Rows(c) : c \in Backends \ {b}})

-----------------------------------------------------------------------------
(* encode: the three tiers. *)

(* encode_typed_literal of an integer that fits: no row, no cache, and the  *)
(* triple that uses it needs no dictionary.                                 *)
EncodeInline(b, v) ==
    /\ MayEncode(b) /\ v \in InlineTerms
    /\ UNCHANGED vars

(* Tier 1: a hit in the shared cache also warms the backend's own. *)
EncodeShared(b, t) ==
    /\ MayEncode(b) /\ t \in Terms
    /\ \E w \in Hits(t) :
         /\ \E f \in Puts(encode[b], t, shared[w].id) : encode' = [encode EXCEPT ![b] = f]
         /\ Use(b, t, shared[w].id)
         /\ Borrow(b, shared[w])
    /\ UNCHANGED <<table, shared, tracked, rows, subRows, savepoint, call, cleaner, undone, vacuumed>>

(* Tier 2: a hit in the backend's own cache. *)
EncodeLocal(b, t) ==
    /\ MayEncode(b) /\ t \in Terms
    /\ Hits(t) = {} /\ t \in DOMAIN encode[b]
    /\ Use(b, t, encode[b][t])
    /\ Borrow(b, [term |-> t, id |-> encode[b][t]])
    /\ UNCHANGED <<table, caches, rows, subRows, savepoint, call, cleaner, undone, vacuumed>>

(* Tier 3 begins: both caches missed; the statement takes its snapshot and  *)
(* meets a row of an open transaction, for whose end it waits, or does not. *)
EncodeMiss(b, t) ==
    /\ MayEncode(b) /\ t \in Terms
    /\ Hits(t) = {} /\ t \notin DOMAIN encode[b]
    /\ term' = [term EXCEPT ![b] = t]
    /\ Goto(b, IF Claimed(b, t) /\ \A r \in Seen(b) : r.term # t THEN "wait" ELSE "insert")
    /\ UNCHANGED <<table, caches, open, cleaner, history>>

(* INSERT ... ON CONFLICT DO NOTHING RETURNING id, or the id already there; *)
(* both caches learn it, and the call returns it.                           *)
EncodeInsert(b) ==
    /\ pc[b] = "insert"
    /\ LET t == term[b]
           mine == {r \in Seen(b) : r.term = t}
           new == [term |-> t, id |-> next]
           r == IF mine = {} THEN new ELSE CHOOSE x \in mine : TRUE
       IN  /\ \/ mine # {} /\ UNCHANGED <<next, rows, subRows>>
              \/ /\ mine = {} /\ ~Claimed(b, t) /\ next \in Ids
                 /\ next' = next + 1
                 /\ AddTo(b, rows, subRows, new)
           /\ \E w \in Slots : shared' = [shared EXCEPT ![w] = r]
           /\ tracked' = [tracked EXCEPT ![b] = @ \cup {t}]
           /\ \E f \in Puts(encode[b], t, r.id) : encode' = [encode EXCEPT ![b] = f]
           /\ Use(b, t, r.id)
    /\ Goto(b, "idle") /\ term' = [term EXCEPT ![b] = NoTerm]
    /\ UNCHANGED <<dict, stored, savepoint, cleaner, history>>

(* The awaited transaction has rolled back: the insert goes on. *)
EncodeWaited(b) ==
    /\ pc[b] = "wait"
    /\ ~Claimed(b, term[b]) /\ \A r \in dict : r.term # term[b]
    /\ Goto(b, "insert")
    /\ UNCHANGED <<table, caches, open, term, cleaner, history>>

-----------------------------------------------------------------------------
(* Ends of transactions and savepoints, and their callbacks. *)

(* commit_cleanup: the list of shared inserts is dropped. *)
Commit(b) ==
    /\ pc[b] = "idle"
    /\ dict' = dict \cup Rows(b)
    /\ stored' = stored \cup uses[b] \cup subUses[b]
    /\ rows' = [rows EXCEPT ![b] = {}] /\ subRows' = [subRows EXCEPT ![b] = {}]
    /\ uses' = [uses EXCEPT ![b] = {}] /\ subUses' = [subUses EXCEPT ![b] = {}]
    /\ savepoint' = [savepoint EXCEPT ![b] = FALSE]
    /\ tracked' = [tracked EXCEPT ![b] = {}]
    /\ UNCHANGED <<next, shared, encode, call, cleaner, history>>

(* Mutant: the shared cache is left alone (before v0.42.0). *)
ClearOwnCaches(b) ==
    /\ UNCHANGED shared
    /\ tracked' = [tracked EXCEPT ![b] = {}]
    /\ encode' = [encode EXCEPT ![b] = Empty]

(* Mutant: the backend's own cache survives the rollback (before v0.22.0). *)
ClearSharedOnly(b) ==
    /\ shared' \in Evictions(tracked[b])
    /\ tracked' = [tracked EXCEPT ![b] = {}]
    /\ UNCHANGED encode

(* clear_caches: the shared inserts of the transaction are evicted and the  *)
(* backend's own caches emptied.                                            *)
ClearCaches(b) ==
    /\ shared' \in Evictions(tracked[b])
    /\ tracked' = [tracked EXCEPT ![b] = {}]
    /\ encode' = [encode EXCEPT ![b] = Empty]

(* ROLLBACK, an error in any step, or the PT501 error of a term whose row   *)
(* a concurrent transaction has just committed: neither the insert nor the  *)
(* statement's snapshot has it.                                             *)
Abort(b) ==
    /\ ClearCaches(b)
    /\ rows' = [rows EXCEPT ![b] = {}] /\ subRows' = [subRows EXCEPT ![b] = {}]
    /\ uses' = [uses EXCEPT ![b] = {}] /\ subUses' = [subUses EXCEPT ![b] = {}]
    /\ savepoint' = [savepoint EXCEPT ![b] = FALSE]
    /\ Goto(b, "idle")
    /\ term' = [term EXCEPT ![b] = NoTerm]
    /\ UNCHANGED <<table, cleaner, history>>

Savepoint(b) ==
    /\ b \in Savepoints /\ pc[b] = "idle" /\ ~savepoint[b]
    /\ savepoint' = [savepoint EXCEPT ![b] = TRUE]
    /\ UNCHANGED <<table, caches, rows, subRows, uses, subUses, call, cleaner, history>>

(* invalidate_decode_cache: the backend's own caches are emptied, the       *)
(* shared inserts stay, and stay on the list.                               *)
RollbackToSavepoint(b) ==
    /\ savepoint[b]
    /\ undone' = undone \cup subRows[b]
    /\ subRows' = [subRows EXCEPT ![b] = {}]
    /\ subUses' = [subUses EXCEPT ![b] = {}]
    /\ savepoint' = [savepoint EXCEPT ![b] = FALSE]
    /\ encode' = [encode EXCEPT ![b] = Empty]
    /\ Goto(b, "idle") /\ term' = [term EXCEPT ![b] = NoTerm]
    /\ UNCHANGED <<table, shared, tracked, rows, uses, cleaner, vacuumed, borrowed>>

(* flush_encode_cache: all of the shared cache, then clear_caches. *)
FlushEncodeCache(b) ==
    /\ pc[b] = "idle"
    /\ shared' = [w \in Ways |-> NoEntry]
    /\ tracked' = [tracked EXCEPT ![b] = {}]
    /\ encode' = [encode EXCEPT ![b] = Empty]
    /\ UNCHANGED <<table, open, call, cleaner, history>>

-----------------------------------------------------------------------------
(* A triple is deleted: the identifier is no longer in use. *)
DeleteUse(u) ==
    /\ u \in stored
    /\ stored' = stored \ {u}
    /\ UNCHANGED <<dict, next, caches, open, call, cleaner, history>>

(* vacuum_dictionary, in a session of its own and one at a time: the        *)
(* identifiers of the tables are collected ...                              *)
VacuumScan ==
    /\ Vacuums /\ ~vacuum
    /\ vacuum' = TRUE /\ live' = {u.id : u \in stored}
    /\ UNCHANGED <<table, caches, open, call, history>>

(* ... and the rows of the others deleted; no cache hears of it. *)
VacuumDelete ==
    /\ vacuum
    /\ dict' = {r \in dict : r.id \in live}
    /\ vacuumed' = vacuumed \cup (dict \ dict')
    /\ vacuum' = FALSE /\ live' = {}
    /\ UNCHANGED <<stored, next, caches, open, call, undone, borrowed>>

Next ==
    \/ \E b \in Backends :
         \/ \E v \in Numbers : EncodeInline(b, v)
         \/ \E t \in Terms : EncodeShared(b, t)
         \/ \E t \in Terms : EncodeLocal(b, t)
         \/ \E t \in Terms : EncodeMiss(b, t)
         \/ EncodeInsert(b) \/ EncodeWaited(b)
         \/ Commit(b) \/ Abort(b)
         \/ Savepoint(b) \/ RollbackToSavepoint(b)
         \/ FlushEncodeCache(b)
    \/ \E u \in stored : DeleteUse(u)
    \/ VacuumScan \/ VacuumDelete

Spec == Init /\ [][Next]_vars
=============================================================================
