------------------------------ MODULE HtapMerge ------------------------------
(***************************************************************************)
(* One dedicated predicate of pg_ripple under concurrent sessions and a    *)
(* merge: insert_triple and delete_triple (src/src/storage/ops/mod.rs)     *)
(* against merge_predicate (src/src/storage/merge.rs).                     *)
(*                                                                         *)
(* Every session runs one API call per transaction; the merge worker (or   *)
(* compact()) runs a whole merge as one transaction.  PostgreSQL is        *)
(* modelled at READ COMMITTED, the level the extension runs at: each SPI   *)
(* statement is one step, it reads what is committed when it starts, and   *)
(* it waits (its action is disabled) for the locks it needs:               *)
(*   - the row of _pg_ripple.predicates, written by every client call and  *)
(*     by the merge, held to the end of the transaction (rowLock);         *)
(*   - the table lock on delta, taken by a client's first statement and    *)
(*     exclusively by TRUNCATE;                                            *)
(*   - the table lock on main, taken by a delete that looks into main and  *)
(*     exclusively by the merge's RENAME;                                  *)
(*   - the advisory locks of delete_triple and merge_predicate, on the     *)
(*     keys the code passes.                                               *)
(* The variables delta, main, tombs, skip and tombCount hold committed     *)
(* state; what a transaction has written and not committed is in work[c]   *)
(* and mainNew.                                                            *)
(***************************************************************************)
EXTENDS HtapTables, FiniteSets

CONSTANTS
    Quads,              \* the (s, o, g) combinations
    Sessions,           \* client backends
    NoSession,          \* rowLock's value when nobody holds the row
    NoRow,              \* work's value for a session with no open write
    Merger,             \* the backend that merges
    PredId,             \* the predicate's dictionary id
    MergeNamespace,     \* MERGE_FENCE_NAMESPACE
    RetentionZero,      \* settings of pg_ripple.tombstone_retention_seconds = 0
    DedupOnMerge,       \* settings of pg_ripple.dedup_on_merge
    GcPercent,          \* pg_ripple.tombstone_gc_threshold, in percent
    SeqCache,           \* statement_id_seq's CACHE: identifiers per block
    MaxSid              \* bound on statement_id_seq

ASSUME ConfigAssumption ==
    /\ RetentionZero \subseteq BOOLEAN
    /\ DedupOnMerge \subseteq BOOLEAN
    /\ NoSession # Merger
    /\ NoSession \notin Sessions
    /\ Merger \notin Sessions
    /\ PredId \in Int /\ MergeNamespace \in Int
    /\ MaxSid \in Nat /\ GcPercent \in Nat
    /\ SeqCache \in Nat \ {0}

VARIABLES
    seq,        \* statement_id_seq.last_value
    cached,     \* per session: identifiers of its block it has not used
    delta,      \* rows of vp_{id}_delta
    main,       \* rows of vp_{id}_main
    tombs,      \* rows of vp_{id}_tombstones
    skip,       \* the view is in its tombstone-skip form
    tombCount,  \* predicates.tombstone_count
    rowLock,    \* who holds the predicates row
    pc,         \* per session: the last statement its transaction ran
    work,       \* per session: the row it wrote
    sawZero,    \* per session: the tombstone_count it found was 0
    mpc,        \* the last step of the running merge, "idle" when none runs
    maxSid,     \* max_sid_at_snapshot
    mainNew,    \* rows of vp_{id}_main_new
    raced       \* history: quads committed by sessions since the merge began

sids    == <<seq, cached>>
tables  == <<delta, main, tombs, skip, tombCount>>
client  == <<pc, work, sawZero>>
merge   == <<mpc, maxSid, mainNew>>
vars    == <<sids, tables, rowLock, client, merge, raced>>

Sids == 1 .. MaxSid

Idle == "idle"

Visible == VisibleQuads(main, delta, tombs, skip)

(* Transactions that have touched delta hold its lock until they end. *)
HoldsDelta(c) == pc[c] # Idle

(* A client that rebuilt the view or looked into main holds main's lock. *)
HoldsMain(c) == pc[c] \in {"viewed", "probed"}

(* delete_triple's shared lock is held from the tombstone on. *)
HoldsFence(c) == pc[c] \in {"tombed", "counted", "viewed", "probed"}

(* From the RENAME on the merge holds main exclusively, and from the      *)
(* TRUNCATE on it holds delta exclusively.                                 *)
MergeHoldsMain  == mpc \in {"swapped", "stats", "truncated"}
MergeHoldsDelta == mpc = "truncated"

(* The two advisory lock keys: pg_advisory_xact_lock_shared(p_id) and      *)
(* pg_advisory_xact_lock(MERGE_FENCE_NAMESPACE + pred_id).                  *)
DeleteFenceKey == PredId
MergeFenceKey  == MergeNamespace + PredId
FencesConflict == DeleteFenceKey = MergeFenceKey

(* The row of delta that c's open transaction has written for quad q. *)
Writes(c, q) == pc[c] \in {"inserted", "deleted"} /\ work[c].q = q

NoOtherWrites(c, q) == \A d \in Sessions \ {c} : ~Writes(d, q)

-----------------------------------------------------------------------------
(* ensure_htap_tables: the tables are empty, the view is tombstone-aware.  *)
Init ==
    /\ seq = 0
    /\ cached = [c \in Sessions |-> {}]
    /\ delta = {} /\ main = {} /\ tombs = {}
    /\ skip = FALSE
    /\ tombCount = 0
    /\ rowLock = NoSession
    /\ pc = [c \in Sessions |-> Idle]
    /\ work = [c \in Sessions |-> NoRow]
    /\ sawZero = [c \in Sessions |-> FALSE]
    /\ mpc = Idle
    /\ maxSid = 0
    /\ mainNew = {}
    /\ raced = {}

(* The end of a session's transaction. *)
EndClient(c) ==
    /\ pc' = [pc EXCEPT ![c] = Idle]
    /\ work' = [work EXCEPT ![c] = NoRow]
    /\ sawZero' = [sawZero EXCEPT ![c] = FALSE]
    /\ UNCHANGED <<sids, merge>>

(* A commit counts as a race when a merge is running. *)
CommitClient(c) ==
    /\ raced' = IF mpc = Idle THEN raced ELSE raced \cup {work[c].q}
    /\ EndClient(c)

-----------------------------------------------------------------------------
(* nextval('statement_id_seq') in session c.  The sequence is created with  *)
(* CACHE: a backend takes a whole block, hands out its identifiers in       *)
(* order, and keeps the rest for its next transactions.                     *)
NextVal(c, n) ==
    \/ /\ n \in cached[c]
       /\ \A m \in cached[c] : n <= m
       /\ cached' = [cached EXCEPT ![c] = cached[c] \ {n}]
       /\ UNCHANGED seq
    \/ /\ cached[c] = {}
       /\ n = seq + 1
       /\ seq + SeqCache <= MaxSid
       /\ seq' = seq + SeqCache
       /\ cached' = [cached EXCEPT ![c] = (seq + 2) .. (seq + SeqCache)]

(* Fault: the row takes last_value instead of nextval. *)
InsertDeltaLastValue(c, q) ==
    /\ pc[c] = Idle
    /\ ~MergeHoldsDelta
    /\ NoOtherWrites(c, q)
    /\ seq' = IF seq = 0 THEN 1 ELSE seq
    /\ pc' = [pc EXCEPT ![c] = "inserted"]
    /\ work' = [work EXCEPT ![c] = [q |-> q, i |-> seq']]
    /\ UNCHANGED <<cached, tables, rowLock, sawZero, merge, raced>>

(* insert_triple, first statement: INSERT INTO delta ... ON CONFLICT (s, o, g) *)
(* DO UPDATE SET i = EXCLUDED.i.  It waits for any open write of the quad.  *)
InsertDelta(c, q) ==
    /\ pc[c] = Idle
    /\ ~MergeHoldsDelta
    /\ NoOtherWrites(c, q)
    /\ pc' = [pc EXCEPT ![c] = "inserted"]
    /\ \E n \in Sids : NextVal(c, n) /\ work' = [work EXCEPT ![c] = [q |-> q, i |-> n]]
    /\ UNCHANGED <<tables, rowLock, sawZero, merge, raced>>

(* insert_triple, UPDATE predicates SET triple_count, then the commit.  The *)
(* row lock it takes is released by the commit, so it only has to be free.  *)
InsertCommit(c) ==
    /\ pc[c] = "inserted"
    /\ rowLock = NoSession
    /\ delta' = {r \in delta : r.q # work[c].q} \cup {work[c]}
    /\ CommitClient(c)
    /\ UNCHANGED <<main, tombs, skip, tombCount, rowLock>>

-----------------------------------------------------------------------------
(* delete_triple, DELETE FROM delta: it deletes the committed row if there *)
(* is one (waiting for an open write of it), otherwise it deletes nothing.  *)
DeleteDelta(c, q) ==
    /\ pc[c] = Idle
    /\ ~MergeHoldsDelta
    /\ IF q \in QuadsOf(delta)
         THEN /\ NoOtherWrites(c, q)
              /\ pc' = [pc EXCEPT ![c] = "deleted"]
         ELSE pc' = [pc EXCEPT ![c] = "missed"]
    /\ work' = [work EXCEPT ![c] = [q |-> q, i |-> 0]]
    /\ UNCHANGED <<sids, tables, rowLock, sawZero, merge, raced>>

(* The delta row was there: UPDATE predicates SET triple_count, commit.     *)
DeleteDeltaCommit(c) ==
    /\ pc[c] = "deleted"
    /\ rowLock = NoSession
    /\ delta' = {r \in delta : r.q # work[c].q}
    /\ CommitClient(c)
    /\ UNCHANGED <<main, tombs, skip, tombCount, rowLock>>

(* Fault: the tombstone is written without a statement identifier. *)
DeleteTombUnnumbered(c) ==
    /\ pc[c] = "missed"
    /\ FencesConflict => ~MergeHoldsMain
    /\ pc' = [pc EXCEPT ![c] = "tombed"]
    /\ UNCHANGED <<sids, work, tables, rowLock, sawZero, merge, raced>>

(* It was not: take the shared advisory lock and INSERT INTO tombstones.    *)
DeleteTomb(c) ==
    /\ pc[c] = "missed"
    /\ FencesConflict => ~MergeHoldsMain
    /\ \E n \in Sids :
          NextVal(c, n) /\ work' = [work EXCEPT ![c] = [q |-> work[c].q, i |-> n]]
    /\ pc' = [pc EXCEPT ![c] = "tombed"]
    /\ UNCHANGED <<tables, rowLock, sawZero, merge, raced>>

(* UPDATE predicates SET tombstone_count = tombstone_count + 1 RETURNING    *)
(* the previous count; the row stays locked.                                *)
DeleteCount(c) ==
    /\ pc[c] = "tombed"
    /\ rowLock = NoSession
    /\ rowLock' = c
    /\ sawZero' = [sawZero EXCEPT ![c] = tombCount = 0]
    /\ pc' = [pc EXCEPT ![c] = "counted"]
    /\ UNCHANGED <<sids, tables, work, merge, raced>>

(* The previous count was 0: rebuild_htap_view(p_id, true).  Parsing the    *)
(* view's query locks main, so this waits for a merge that holds it.        *)
DeleteView(c) ==
    /\ pc[c] = "counted"
    /\ sawZero[c]
    /\ ~MergeHoldsMain
    /\ pc' = [pc EXCEPT ![c] = "viewed"]
    /\ UNCHANGED <<sids, tables, rowLock, work, sawZero, merge, raced>>

(* SELECT count(star) FROM main: was the quad there at all? *)
DeleteProbe(c) ==
    /\ pc[c] = IF sawZero[c] THEN "viewed" ELSE "counted"
    /\ ~MergeHoldsMain
    /\ pc' = [pc EXCEPT ![c] = "probed"]
    /\ UNCHANGED <<sids, tables, rowLock, work, sawZero, merge, raced>>

(* Fault: the view is not made tombstone-aware again. *)
DeleteCommitSkipping(c) ==
    /\ pc[c] = "probed"
    /\ tombs' = tombs \cup {work[c]}
    /\ tombCount' = tombCount + 1
    /\ rowLock' = NoSession
    /\ CommitClient(c)
    /\ UNCHANGED <<delta, main, skip>>

(* The delete's transaction commits. *)
DeleteCommit(c) ==
    /\ pc[c] = "probed"
    /\ tombs' = tombs \cup {work[c]}
    /\ tombCount' = tombCount + 1
    /\ skip' = IF sawZero[c] THEN FALSE ELSE skip
    /\ rowLock' = NoSession
    /\ CommitClient(c)
    /\ UNCHANGED <<delta, main>>

(* A statement error, a deadlock victim, a cancelled or crashed backend.   *)
(* Nothing it wrote survives, except that the sequence is not rewound.     *)
ClientAbort(c) ==
    /\ pc[c] # Idle
    /\ rowLock' = IF rowLock = c THEN NoSession ELSE rowLock
    /\ EndClient(c)
    /\ UNCHANGED <<tables, raced>>

(* The backend exits: the unused part of its block is gone. *)
Disconnect(c) ==
    /\ pc[c] = Idle
    /\ cached[c] # {}
    /\ cached' = [cached EXCEPT ![c] = {}]
    /\ UNCHANGED <<seq, tables, rowLock, client, merge, raced>>

-----------------------------------------------------------------------------
(* merge_all and the worker merge a predicate whose delta has rows;         *)
(* max_sid_at_snapshot := statement_id_seq.last_value.                      *)
MergeStart ==
    /\ mpc = Idle
    /\ delta # {}
    /\ mpc' = "started"
    /\ maxSid' = seq
    /\ raced' = {}
    /\ UNCHANGED <<sids, tables, rowLock, client, mainNew>>

(* Steps 1-2: CREATE TABLE main_new AS ..., its indexes and row count.  No  *)
(* lock that a client waits for.  The GUCs are read when they are used.     *)
MergeBuild ==
    /\ mpc = "started"
    /\ mpc' = "built"
    /\ \E dedup \in DedupOnMerge : mainNew' = MainNew(main, delta, tombs, dedup)
    /\ UNCHANGED <<sids, tables, rowLock, client, maxSid, raced>>

(* Step 3: the exclusive advisory lock, then main -> main_old, main_new ->  *)
(* main and CREATE OR REPLACE VIEW.  A client that holds the view also      *)
(* holds main, so waiting for main is waiting for both.                     *)
MergeSwap ==
    /\ mpc = "built"
    /\ FencesConflict => \A c \in Sessions : ~HoldsFence(c)
    /\ \A c \in Sessions : ~HoldsMain(c)
    /\ mpc' = "swapped"
    /\ UNCHANGED <<sids, tables, rowLock, client, maxSid, mainNew, raced>>

(* UPDATE predicates SET brin_summarize_failures, and the SID-range catalog. *)
MergeStats ==
    /\ mpc = "swapped"
    /\ rowLock = NoSession
    /\ rowLock' = Merger
    /\ mpc' = "stats"
    /\ UNCHANGED <<sids, tables, client, maxSid, mainNew, raced>>

(* Step 4: TRUNCATE delta waits for every transaction that touched it.      *)
MergeTruncateDelta ==
    /\ mpc = "stats"
    /\ \A c \in Sessions : ~HoldsDelta(c)
    /\ mpc' = "truncated"
    /\ UNCHANGED <<sids, tables, rowLock, client, maxSid, mainNew, raced>>

TombsLeft(zero) == TombsAfterMerge(tombs, maxSid, zero)

(* The tombstone GC runs VACUUM inside the merge's transaction when the     *)
(* residue exceeds the threshold; PostgreSQL refuses that with an error.    *)
VacuumDue(zero) ==
    /\ mainNew # {}
    /\ Cardinality(TombsLeft(zero)) * 100 > GcPercent * Cardinality(mainNew)

(* Fault: main_new is dropped instead of main_old. *)
MergeCommitOldMain ==
    /\ mpc = "truncated"
    /\ \E zero \in RetentionZero :
          /\ ~VacuumDue(zero)
          /\ tombs' = TombsLeft(zero)
    /\ delta' = {}
    /\ tombCount' = IF tombs' = {} THEN 0 ELSE tombCount
    /\ skip' = (tombs' = {})
    /\ rowLock' = NoSession
    /\ mpc' = Idle
    /\ mainNew' = {}
    /\ raced' = {}
    /\ UNCHANGED <<sids, main, client, maxSid>>

(* Step 4 on tombstones, tombstone_count and the view; step 5; the commit.  *)
MergeCommit ==
    /\ mpc = "truncated"
    /\ \E zero \in RetentionZero :
          /\ ~VacuumDue(zero)
          /\ tombs' = TombsLeft(zero)
    /\ main' = mainNew
    /\ delta' = {}
    /\ tombCount' = IF tombs' = {} THEN 0 ELSE tombCount
    /\ skip' = (tombs' = {})
    /\ rowLock' = NoSession
    /\ mpc' = Idle
    /\ mainNew' = {}
    /\ raced' = {}
    /\ UNCHANGED <<sids, client, maxSid>>

(* Fault: no lock_timeout, a merge fails only in its last statement. *)
MergeAbortNoTimeout ==
    /\ mpc = "truncated"
    /\ mpc' = Idle
    /\ mainNew' = {}
    /\ raced' = {}
    /\ rowLock' = NoSession
    /\ UNCHANGED <<sids, tables, client, maxSid>>

(* Fault: a failed merge leaves the predicates row locked. *)
MergeAbortLeaksRow ==
    /\ mpc # Idle
    /\ mpc' = Idle
    /\ mainNew' = {}
    /\ raced' = {}
    /\ UNCHANGED <<sids, tables, rowLock, client, maxSid>>

(* lock_timeout, a deadlock victim, the VACUUM error, or a crash of the     *)
(* worker: the transaction rolls back and leaves the tables as they were.   *)
MergeAbort ==
    /\ mpc # Idle
    /\ mpc' = Idle
    /\ mainNew' = {}
    /\ raced' = {}
    /\ rowLock' = IF rowLock = Merger THEN NoSession ELSE rowLock
    /\ UNCHANGED <<sids, tables, client, maxSid>>

-----------------------------------------------------------------------------
ClientStep(c) ==
    \/ \E q \in Quads : InsertDelta(c, q) \/ DeleteDelta(c, q)
    \/ InsertCommit(c)
    \/ DeleteDeltaCommit(c)
    \/ DeleteTomb(c)
    \/ DeleteCount(c)
    \/ DeleteView(c)
    \/ DeleteProbe(c)
    \/ DeleteCommit(c)
    \/ ClientAbort(c)
    \/ Disconnect(c)

MergeStep ==
    \/ MergeStart
    \/ MergeBuild
    \/ MergeSwap
    \/ MergeStats
    \/ MergeTruncateDelta
    \/ MergeCommit
    \/ MergeAbort

Next == MergeStep \/ \E c \in Sessions : ClientStep(c)

Spec == Init /\ [][Next]_vars

-----------------------------------------------------------------------------
(* Fairness.  A statement that can run is run; the heavyweight lock queue   *)
(* is first come, first served, so a session that keeps waiting for a lock  *)
(* others release is eventually granted it (strong fairness); a merge that  *)
(* cannot proceed is ended by its lock_timeout (weak fairness on the abort  *)
(* of a blocked merge).  Nobody is obliged to begin a call or a merge.      *)
Finish(c) ==
    \/ InsertCommit(c) \/ DeleteDeltaCommit(c) \/ DeleteTomb(c)
    \/ DeleteCount(c) \/ DeleteView(c) \/ DeleteProbe(c) \/ DeleteCommit(c)

MergeProceeds ==
    \/ MergeBuild \/ MergeSwap \/ MergeStats \/ MergeTruncateDelta \/ MergeCommit

(* lock_timeout ends a merge that waits; the VACUUM error ends one that has *)
(* all its locks.                                                           *)
MergeGivesUp ==
    /\ \/ mpc \in {"built", "swapped", "stats"}
       \/ mpc = "truncated" /\ \E zero \in RetentionZero : VacuumDue(zero)
    /\ MergeAbort

(* A session out of identifiers (the bound MaxSid) can only abort. *)
OutOfSids(c) ==
    /\ pc[c] = "missed"
    /\ cached[c] = {} /\ seq + SeqCache > MaxSid
    /\ ClientAbort(c)

FairSpec ==
    /\ Spec
    /\ \A c \in Sessions : SF_vars(Finish(c)) /\ WF_vars(OutOfSids(c))
    /\ WF_vars(MergeProceeds)
    /\ WF_vars(MergeGivesUp)
=============================================================================
