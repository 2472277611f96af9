---------------------------- MODULE JsonWriteback ----------------------------
(***************************************************************************)
(* The write-back of triples into a relational table                       *)
(* (src/src/json_mapping/writeback.rs, the trigger of                      *)
(* src/src/schema/tables.rs, the hook in src/src/storage/promote.rs).      *)
(*                                                                         *)
(* A mapping names the predicate of the key column and that of one other   *)
(* column; each has at most one value per subject here.  Triggers enqueue  *)
(* the subject of each triple that is inserted or deleted; the background  *)
(* worker takes a batch of the queue, reads the triples each subject has   *)
(* by then, writes the row, marks the entry, and commits at the end of the *)
(* batch.                                                                  *)
(***************************************************************************)
EXTENDS Naturals, FiniteSets, Sequences

CONSTANTS
    Subjects, Values,  \* subjects, each with its own key; values of the column
    NoValue, NoRow,
    Policy,            \* writeback_conflict_policy
    BatchSize,         \* pg_ripple.json_writeback_batch_size
    MaxClock           \* bound on the transactions that change triples

ASSUME JsonAssumption ==
    /\ Policy \in {"replace", "skip", "error"} /\ NoValue \notin Values
    /\ BatchSize \in Nat \ {0} /\ MaxClock \in Nat

VARIABLES
    keyed,     \* subjects whose key triple is there
    column,    \* the value of each subject's other triple, or none
    known,     \* the mapped predicates that have been ingested
    promoted,  \* does the column's predicate have tables of its own?
    buried,    \* subjects whose tombstone is there though nothing was deleted
    enabled,   \* writeback_enabled, and the triggers with it
    jqueue,    \* json_writeback_queue where processed_at is null
    clock,     \* transactions so far; queued_at is the one's start
    target,    \* the relational table: per key, no row or its column
    batch,     \* the worker's: entries selected and not yet done,
    marked,    \* entries done and not yet committed,
    written,   \* and rows written and not yet committed, key -> row
    draining,  \* is the worker in its transaction?
    strayed,   \* history: subjects whose row need not agree, see Stray,
    moved      \* history: and those a promotion has moved

triples == <<keyed, column, known, promoted, buried>>
jworker == <<batch, marked, written, draining>>
strays  == <<strayed, moved>>
jvars   == <<triples, enabled, jqueue, clock, target, jworker, strays>>

Row == [value : Values \cup {NoValue}]

Ops == {"upsert", "delete"}

Entry == [s : Subjects, op : Ops, at : 1 .. MaxClock]

Nothing == [s \in {} |-> NoRow]

(* Other subjects may have used the predicates already. *)
JInit ==
    /\ keyed = {} /\ column = [s \in Subjects |-> NoValue]
    /\ known \in {{}, {"key", "column"}} /\ promoted = FALSE /\ buried = {} /\ enabled = FALSE
    /\ jqueue = {} /\ clock = 0
    /\ target = [s \in Subjects |-> NoRow]
    /\ batch = <<>> /\ marked = {} /\ written = Nothing /\ draining = FALSE
    /\ strayed = {} /\ moved = {}

-----------------------------------------------------------------------------
(* Transactions that change triples. *)

(* Why a row need not agree with its triples: a "delete" entry takes the    *)
(* whole row, whatever triple went, and an entry with nothing left to read  *)
(* takes nothing; entries of one transaction have one queued_at and are     *)
(* drained in any order; what happens while the triggers are off is never   *)
(* enqueued.                                                                *)
Stray(S) == strayed' = strayed \cup S

(* json_writeback_enqueue_fn, for every row a transaction touches. *)
Enqueue(S, ops, stray) ==
    /\ clock < MaxClock
    /\ clock' = clock + 1
    /\ jqueue' = jqueue \cup
           (IF enabled THEN [s : S, op : ops, at : {clock + 1}] ELSE {})
    /\ strayed' = strayed \cup (IF enabled THEN stray ELSE S)
    /\ UNCHANGED <<enabled, target, jworker>>

InsertKey(s) ==
    /\ s \notin keyed
    /\ keyed' = keyed \cup {s}
    /\ known' = known \cup {"key"}
    /\ Enqueue({s}, {"upsert"}, {}) /\ UNCHANGED moved
    /\ UNCHANGED <<column, promoted, buried>>

InsertValue(s, v) ==
    /\ column[s] = NoValue
    /\ column' = [column EXCEPT ![s] = v]
    /\ known' = known \cup {"column"}
    /\ Enqueue({s}, {"upsert"}, {}) /\ UNCHANGED moved
    /\ UNCHANGED <<keyed, promoted, buried>>

DeleteKey(s) ==
    /\ s \in keyed
    /\ keyed' = keyed \ {s}
    /\ Enqueue({s}, {"delete"}, {s}) /\ UNCHANGED moved
    /\ UNCHANGED <<column, known, promoted, buried>>

DeleteValue(s) ==
    /\ column[s] # NoValue
    /\ column' = [column EXCEPT ![s] = NoValue]
    /\ Enqueue({s}, {"delete"}, {s}) /\ UNCHANGED moved
    /\ UNCHANGED <<keyed, known, promoted, buried>>

(* DELETE ... INSERT of the value in one transaction. *)
UpdateValue(s, v) ==
    /\ column[s] \notin {NoValue, v}
    /\ column' = [column EXCEPT ![s] = v]
    /\ Enqueue({s}, Ops, {s}) /\ UNCHANGED moved
    /\ UNCHANGED <<keyed, known, promoted, buried>>

(* delete_triple_by_ids of a triple that is not there, once the predicate   *)
(* has tables: a tombstone is inserted all the same, and its trigger fires. *)
DeleteAbsent(s) ==
    /\ promoted /\ s \notin buried
    /\ buried' = buried \cup {s}
    /\ Enqueue({s}, {"delete"}, {s}) /\ UNCHANGED moved
    /\ UNCHANGED <<keyed, column, known, promoted>>

(* promote_predicate: the triggers of the new tables are installed before   *)
(* the rows move, so every row is deleted from vp_rare and inserted again.  *)
Promote ==
    /\ "column" \in known /\ ~promoted
    /\ promoted' = TRUE
    /\ LET rows == {s \in Subjects : column[s] # NoValue}
       IN  Enqueue(rows, Ops, {}) /\ moved' = moved \cup rows
    /\ UNCHANGED <<keyed, column, known, buried>>

(* enable_json_writeback: every mapped predicate must have been ingested.   *)
(* What is there already is not enqueued.                                   *)
Enable ==
    /\ known = {"key", "column"} /\ ~enabled
    /\ enabled' = TRUE
    /\ Stray({s \in Subjects : s \in keyed \/ column[s] # NoValue})
    /\ UNCHANGED <<triples, jqueue, clock, target, jworker, moved>>

Disable ==
    /\ enabled
    /\ enabled' = FALSE
    /\ UNCHANGED <<triples, jqueue, clock, target, jworker, strays>>

-----------------------------------------------------------------------------
(* Writing a row, from the triples the subject has now. *)

Bare(s) == s \notin keyed /\ column[s] = NoValue

(* The mapped values name no key: PT0552. *)
KeyMissing(s) == s \notin keyed /\ column[s] # NoValue

(* writeback_json_row: only the columns that have a value are written; an   *)
(* error (PT0551, PT0552) leaves the row as it is.                          *)
Upserted(s, row) ==
    IF Bare(s) \/ KeyMissing(s) THEN row
    ELSE IF row = NoRow THEN [value |-> column[s]]
    ELSE IF Policy # "replace" \/ column[s] = NoValue THEN row
    ELSE [value |-> column[s]]

(* writeback_json_row_delete: the key is read from the triples that remain. *)
Deleted(s, row) == IF Bare(s) \/ KeyMissing(s) THEN row ELSE NoRow

Written(e, row) == IF e.op = "delete" THEN Deleted(e.s, row) ELSE Upserted(e.s, row)

(* The same calls made by a session; they wait for a row the worker holds.  *)
WritebackRow(s) ==
    /\ s \notin DOMAIN written
    /\ target' = [target EXCEPT ![s] = Upserted(s, @)]
    /\ UNCHANGED <<triples, enabled, jqueue, clock, jworker, strays>>

WritebackRowDelete(s) ==
    /\ s \notin DOMAIN written
    /\ target' = [target EXCEPT ![s] = Deleted(s, @)]
    /\ Stray({s})
    /\ UNCHANGED <<triples, enabled, jqueue, clock, jworker, moved>>

-----------------------------------------------------------------------------
(* drain_json_writeback_queue, one transaction of the worker. *)

(* ORDER BY queued_at LIMIT batch_size; equal times come in any order. *)
IsBatch(b) ==
    LET taken == {b[i] : i \in DOMAIN b}
    IN  /\ taken \subseteq jqueue
        /\ Len(b) = Cardinality(taken)
        /\ Len(b) = IF Cardinality(jqueue) < BatchSize THEN Cardinality(jqueue) ELSE BatchSize
        /\ \A i, j \in DOMAIN b : i < j => b[i].at <= b[j].at
        /\ \A e \in jqueue \ taken : \A i \in DOMAIN b : b[i].at <= e.at

UpTo(n, S) == UNION {[1 .. m -> S] : m \in 1 .. n}

DrainSelect ==
    /\ ~draining /\ jqueue # {}
    /\ \E b \in UpTo(BatchSize, jqueue) : IsBatch(b) /\ batch' = b
    /\ draining' = TRUE
    /\ UNCHANGED <<triples, enabled, jqueue, clock, target, marked, written, strays>>

DrainRow ==
    /\ batch # <<>>
    /\ LET e   == Head(batch)
           row == IF e.s \in DOMAIN written THEN written[e.s] ELSE target[e.s]
           new == Written(e, row)
       IN  /\ written' = IF new = row THEN written
                         ELSE [s \in DOMAIN written \cup {e.s} |-> IF s = e.s THEN new ELSE written[s]]
           /\ marked' = marked \cup {e}
    /\ batch' = Tail(batch)
    /\ UNCHANGED <<triples, enabled, jqueue, clock, target, draining, strays>>

(* Mutant: an entry is marked by its subject. *)
PendingOtherSubjects == {e \in jqueue : \A m \in marked : m.s # e.s}

(* mark_queue_row_processed: by its id. *)
StillPending == jqueue \ marked

EndDrain == batch' = <<>> /\ marked' = {} /\ written' = Nothing /\ draining' = FALSE

DrainCommit ==
    /\ draining /\ batch = <<>>
    /\ jqueue' = StillPending
    /\ target' = [s \in Subjects |-> IF s \in DOMAIN written THEN written[s] ELSE target[s]]
    /\ EndDrain
    /\ UNCHANGED <<triples, enabled, clock, strays>>

(* The worker's transaction is rolled back. *)
DrainAbort ==
    /\ draining
    /\ EndDrain
    /\ UNCHANGED <<triples, enabled, jqueue, clock, target, strays>>

SessionNext ==
    \/ \E s \in Subjects : InsertKey(s) \/ DeleteKey(s) \/ DeleteValue(s) \/ DeleteAbsent(s)
    \/ \E s \in Subjects, v \in Values : InsertValue(s, v) \/ UpdateValue(s, v)
    \/ Promote
    \/ Enable \/ Disable
    \/ \E s \in Subjects : WritebackRow(s)
    \/ \E s \in Subjects : WritebackRowDelete(s)

-----------------------------------------------------------------------------
(* Types; a batch holds entries that are pending. *)
JTypeOK ==
    /\ keyed \subseteq Subjects /\ buried \subseteq Subjects
    /\ strayed \subseteq Subjects /\ moved \subseteq Subjects
    /\ column \in [Subjects -> Values \cup {NoValue}]
    /\ known \subseteq {"key", "column"} /\ promoted \in BOOLEAN /\ enabled \in BOOLEAN /\ draining \in BOOLEAN
    /\ jqueue \subseteq Entry /\ marked \subseteq jqueue
    /\ \A i \in DOMAIN batch : batch[i] \in jqueue \ marked
    /\ target \in [Subjects -> Row \cup {NoRow}]
    /\ DOMAIN written \subseteq Subjects

RowAgrees(s) ==
    Policy = "replace" /\ (\A e \in jqueue : e.s # s) => target[s] = [value |-> column[s]]

(* Whatever the worker's transaction has read and when, and however often   *)
(* it was rolled back, a row agrees with the triples of its subject as soon *)
(* as no entry of the subject is pending, under "replace" and except for    *)
(* the reasons Stray gives (drain_json_writeback_queue,                     *)
(* mark_queue_row_processed).                                               *)
DrainedRowsAgree == \A s \in keyed \ (strayed \cup moved) : RowAgrees(s)

(* The same for subjects whose predicate was promoted: "coverage survives   *)
(* promotion" (storage/promote.rs).                                         *)
PromotionKeepsRows == \A s \in keyed \ strayed : RowAgrees(s)
=============================================================================
