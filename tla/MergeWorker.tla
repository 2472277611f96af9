----------------------------- MODULE MergeWorker -----------------------------
(***************************************************************************)
(* The pool of background merge workers and the shared counter that wakes  *)
(* them (src/src/worker.rs, src/src/shmem.rs).                             *)
(*                                                                         *)
(* A worker's cycle is one transaction over many predicates: it counts the *)
(* delta of each predicate in its cached list, its own bucket first and    *)
(* the others' afterwards, takes a session-level advisory lock on one that *)
(* has reached the threshold, merges it, and resets TOTAL_DELTA_ROWS if it *)
(* merged any.  The tables it has merged stay locked until it commits.     *)
(*                                                                         *)
(* What a merge does to the rows is HtapMerge; here a delta is a number of *)
(* rows.  dirty stands for TOTAL_DELTA_ROWS # 0, all that is ever asked.   *)
(***************************************************************************)
EXTENDS Integers, FiniteSets

CONSTANTS
    Preds,      \* predicate ids, integers
    NWorkers,   \* pg_ripple.merge_workers
    Clients,    \* client backends
    None,       \* no predicate
    Threshold,  \* pg_ripple.merge_threshold
    MaxRows,    \* bound on the rows of a delta: further inserts re-assert rows
    MaxLeaks    \* bound on the merges that fail after taking their lock

ASSUME WorkerAssumption ==
    /\ Preds \subseteq Int /\ None \notin Preds
    /\ NWorkers \in 1 .. 16
    /\ Threshold \in Nat \ {0} /\ MaxRows \in Nat /\ MaxRows >= Threshold
    /\ MaxLeaks \in Nat

VARIABLES
    rows,       \* per predicate: committed rows in its delta
    htap,       \* predicates with dedicated tables
    dirty,      \* TOTAL_DELTA_ROWS # 0
    pend,       \* per client: the predicate its open transaction has touched
    cpc,        \* per client: "idle", "insert", "delete" or "fence"
    wpc,        \* per worker: where its cycle is
    cache,      \* per worker: PredicateCache.ids
    todo,       \* per worker: predicates this cycle has not looked at
    cur,        \* per worker: the predicate it is about to merge
    merged,     \* per worker: predicates merged in the open transaction
    leaked      \* per worker: advisory locks of failed merges, never released

tablesW == <<rows, htap>>
clientW == <<pend, cpc>>
cycle   == <<wpc, todo, cur, merged>>
vars    == <<tablesW, dirty, clientW, cycle, cache, leaked>>

Workers == 0 .. NWorkers - 1

Init ==
    /\ rows = [p \in Preds |-> 0]
    /\ htap = {}
    /\ dirty = FALSE
    /\ pend = [c \in Clients |-> None] /\ cpc = [c \in Clients |-> "idle"]
    /\ wpc = [w \in Workers |-> "wait"]
    /\ cache = [w \in Workers |-> {}]
    /\ todo = [w \in Workers |-> {}]
    /\ cur = [w \in Workers |-> None]
    /\ merged = [w \in Workers |-> {}]
    /\ leaked = [w \in Workers |-> {}]

(* The worker whose transaction holds p's tables exclusively. *)
TableHolders(p) == {w \in Workers : p \in merged[w]}

(* The workers that hold pg_advisory_lock(p): the one inside a merge of p   *)
(* (with several workers), and those whose merge of p failed.               *)
FenceHolders(p) ==
    {w \in Workers : p \in leaked[w] \/ (NWorkers > 1 /\ wpc[w] = "merging" /\ cur[w] = p)}

Touching(p) == {c \in Clients : pend[c] = p}

-----------------------------------------------------------------------------
(* A predicate becomes dedicated; its rows move into delta and nothing      *)
(* records them in TOTAL_DELTA_ROWS.                                        *)
Promote(p) ==
    /\ p \notin htap
    /\ htap' = htap \cup {p}
    /\ \E n \in 1 .. MaxRows : rows' = [rows EXCEPT ![p] = n]
    /\ UNCHANGED <<dirty, clientW, cycle, cache, leaked>>

(* Fault: the counter is not raised. *)
InsertBeginSilent(c, p) ==
    /\ cpc[c] = "idle"
    /\ p \in htap /\ TableHolders(p) = {}
    /\ pend' = [pend EXCEPT ![c] = p]
    /\ cpc' = [cpc EXCEPT ![c] = "insert"]
    /\ UNCHANGED <<dirty, tablesW, cycle, cache, leaked>>

(* insert_triple up to record_delta_inserts; the row is not committed yet. *)
InsertBegin(c, p) ==
    /\ cpc[c] = "idle"
    /\ p \in htap /\ TableHolders(p) = {}
    /\ pend' = [pend EXCEPT ![c] = p]
    /\ cpc' = [cpc EXCEPT ![c] = "insert"]
    /\ dirty' = TRUE
    /\ UNCHANGED <<tablesW, cycle, cache, leaked>>

(* delete_triple on a quad of main: the DELETE that missed in delta holds   *)
(* the table, and the shared advisory lock is asked for next.               *)
DeleteBegin(c, p) ==
    /\ cpc[c] = "idle"
    /\ p \in htap /\ TableHolders(p) = {}
    /\ pend' = [pend EXCEPT ![c] = p]
    /\ cpc' = [cpc EXCEPT ![c] = "delete"]
    /\ UNCHANGED <<tablesW, dirty, cycle, cache, leaked>>

DeleteFence(c) ==
    /\ cpc[c] = "delete"
    /\ FenceHolders(pend[c]) = {}
    /\ cpc' = [cpc EXCEPT ![c] = "fence"]
    /\ UNCHANGED <<tablesW, dirty, pend, cycle, cache, leaked>>

(* The deadlock of a delete that waits for the fence and the merge that     *)
(* holds it and waits for the delete's table, resolved against the delete.  *)
DeleteVictim(c) ==
    /\ cpc[c] = "delete"
    /\ \E w \in Workers : wpc[w] = "merging" /\ cur[w] = pend[c]
    /\ pend' = [pend EXCEPT ![c] = None]
    /\ cpc' = [cpc EXCEPT ![c] = "idle"]
    /\ UNCHANGED <<tablesW, dirty, cycle, cache, leaked>>

(* The client's transaction ends: an insert adds a row or re-asserts one,   *)
(* a delete of a main row leaves delta alone; an abort leaves all alone.    *)
ClientEnd(c) ==
    /\ cpc[c] \in {"insert", "fence"}
    /\ rows' \in {rows, [rows EXCEPT ![pend[c]] =
                           IF cpc[c] = "insert" /\ @ < MaxRows THEN @ + 1 ELSE @]}
    /\ pend' = [pend EXCEPT ![c] = None]
    /\ cpc' = [cpc EXCEPT ![c] = "idle"]
    /\ UNCHANGED <<htap, dirty, cycle, cache, leaked>>

(* Fault: the delete does not wait for a merge that has not committed.      *)
DeleteDeltaUnlocked(p) ==
    /\ rows[p] > 0
    /\ rows' = [rows EXCEPT ![p] = @ - 1]
    /\ UNCHANGED <<htap, dirty, clientW, cycle, cache, leaked>>

(* delete_triple on a quad that is in delta. *)
DeleteDelta(p) ==
    /\ rows[p] > 0 /\ TableHolders(p) = {}
    /\ rows' = [rows EXCEPT ![p] = @ - 1]
    /\ UNCHANGED <<htap, dirty, clientW, cycle, cache, leaked>>

(* compact() in some client: merge_all, then reset_delta_count.             *)
Compact ==
    /\ \A p \in htap : rows[p] > 0 => Touching(p) = {}
    /\ \A p \in htap : TableHolders(p) = {}
    /\ rows' = [p \in Preds |-> 0]
    /\ dirty' = FALSE
    /\ UNCHANGED <<htap, clientW, cycle, cache, leaked>>

-----------------------------------------------------------------------------
(* PredicateCache: read anew when empty, after 60 s or after a SIGHUP.      *)
CachedIds(w) == IF cache[w] = {} THEN {htap} ELSE {cache[w], htap}

(* The latch: refresh the list, return at once when delta_is_empty().       *)
Wake(w) ==
    /\ wpc[w] = "wait"
    /\ \E ids \in CachedIds(w) :
          /\ cache' = [cache EXCEPT ![w] = ids]
          /\ todo' = IF dirty THEN [todo EXCEPT ![w] = ids] ELSE todo
    /\ wpc' = [wpc EXCEPT ![w] = IF dirty THEN "scan" ELSE "wait"]
    /\ UNCHANGED <<tablesW, dirty, clientW, cur, merged, leaked>>

Abs(n) == IF n < 0 THEN -n ELSE n
Own(w, p) == Abs(p) % NWorkers = w

(* SELECT count(star) FROM delta: waits for a worker that has merged p and  *)
(* not committed.  The worker's own bucket comes before the others'.        *)
Count(w, p) ==
    /\ wpc[w] = "scan"
    /\ p \in todo[w]
    /\ Own(w, p) \/ \A x \in todo[w] : ~Own(w, x)
    /\ TableHolders(p) \subseteq {w}
    /\ IF rows[p] >= Threshold
         THEN /\ cur' = [cur EXCEPT ![w] = p]
              /\ wpc' = [wpc EXCEPT ![w] = "counted"]
              /\ UNCHANGED todo
         ELSE /\ todo' = [todo EXCEPT ![w] = @ \ {p}]
              /\ UNCHANGED <<cur, wpc>>
    /\ UNCHANGED <<tablesW, dirty, clientW, merged, cache, leaked>>

(* pg_try_advisory_lock(p), with several workers: somebody else's lock, or  *)
(* a delete's shared lock, makes the worker skip p in this cycle.           *)
TryLock(w) ==
    LET p    == cur[w]
        free == FenceHolders(p) \subseteq {w} /\ \A c \in Touching(p) : cpc[c] # "fence"
    IN  /\ wpc[w] = "counted"
        /\ IF NWorkers = 1 \/ free
             THEN wpc' = [wpc EXCEPT ![w] = "merging"] /\ UNCHANGED <<todo, cur>>
             ELSE /\ wpc' = [wpc EXCEPT ![w] = "scan"]
                  /\ todo' = [todo EXCEPT ![w] = @ \ {p}]
                  /\ cur' = [cur EXCEPT ![w] = None]
        /\ UNCHANGED <<tablesW, dirty, clientW, merged, cache, leaked>>

(* merge_predicate waits for everybody who has touched p's tables; then     *)
(* pg_advisory_unlock, once: a lock leaked earlier stays.                   *)
MergeOne(w) ==
    LET p == cur[w]
    IN  /\ wpc[w] = "merging"
        /\ TableHolders(p) = {} /\ Touching(p) = {}
        /\ merged' = [merged EXCEPT ![w] = @ \cup {p}]
        /\ todo' = [todo EXCEPT ![w] = @ \ {p}]
        /\ cur' = [cur EXCEPT ![w] = None]
        /\ wpc' = [wpc EXCEPT ![w] = "scan"]
        /\ UNCHANGED <<tablesW, dirty, clientW, cache, leaked>>

(* Every predicate looked at: reset_delta_count() if any was merged, at     *)
(* once and for everybody, although the transaction has not committed.      *)
Finish(w) ==
    /\ wpc[w] = "scan" /\ todo[w] = {}
    /\ dirty' = IF merged[w] = {} THEN dirty ELSE FALSE
    /\ wpc' = [wpc EXCEPT ![w] = "commit"]
    /\ UNCHANGED <<tablesW, clientW, todo, cur, merged, cache, leaked>>

(* The cycle commits, with the promotions of promote_rare_predicates.       *)
CommitCycle(w) ==
    /\ wpc[w] = "commit"
    /\ \E new \in SUBSET (Preds \ htap), n \in 1 .. MaxRows :
          /\ merged[w] = {} => new = {}
          /\ htap' = htap \cup new
          /\ rows' = [p \in Preds |-> IF p \in merged[w] THEN 0
                                      ELSE IF p \in new THEN n ELSE rows[p]]
    /\ merged' = [merged EXCEPT ![w] = {}]
    /\ wpc' = [wpc EXCEPT ![w] = "wait"]
    /\ UNCHANGED <<dirty, clientW, todo, cur, cache, leaked>>

(* The end of a cycle that did not commit. *)
Rollback(w) ==
    /\ merged' = [merged EXCEPT ![w] = {}]
    /\ todo' = [todo EXCEPT ![w] = {}]
    /\ cur' = [cur EXCEPT ![w] = None]
    /\ UNCHANGED <<tablesW, dirty, clientW>>

(* An error (lock_timeout, a deadlock, a failing statement) is caught and   *)
(* the transaction aborted; the session-level lock on cur is not a part of  *)
(* the transaction and stays.  The worker backs off.                        *)
Fail(w) ==
    /\ wpc[w] \in {"scan", "counted", "merging", "commit"}
    /\ leaked' = IF NWorkers > 1 /\ wpc[w] = "merging"
                   THEN [leaked EXCEPT ![w] = @ \cup {cur[w]}] ELSE leaked
    /\ \A v \in Workers : Cardinality(leaked'[v]) <= MaxLeaks
    /\ wpc' = [wpc EXCEPT ![w] = "backoff"]
    /\ Rollback(w)
    /\ UNCHANGED cache

Retry(w) ==
    /\ wpc[w] = "backoff"
    /\ wpc' = [wpc EXCEPT ![w] = "wait"]
    /\ UNCHANGED <<tablesW, dirty, clientW, todo, cur, merged, cache, leaked>>

(* The worker process dies; the postmaster restarts it.  Its session, its   *)
(* advisory locks and its list are gone.                                    *)
Crash(w) ==
    /\ wpc' = [wpc EXCEPT ![w] = "wait"]
    /\ leaked' = [leaked EXCEPT ![w] = {}]
    /\ cache' = [cache EXCEPT ![w] = {}]
    /\ Rollback(w)

-----------------------------------------------------------------------------
WorkerStep(w) ==
    \/ Wake(w) \/ TryLock(w) \/ MergeOne(w) \/ Finish(w) \/ CommitCycle(w)
    \/ Fail(w) \/ Retry(w) \/ Crash(w)
    \/ \E p \in Preds : Count(w, p)

ClientStep(c) ==
    \/ \E p \in Preds : InsertBegin(c, p) \/ DeleteBegin(c, p)
    \/ DeleteFence(c) \/ DeleteVictim(c)
    \/ ClientEnd(c)

Next ==
    \/ \E w \in Workers : WorkerStep(w)
    \/ \E c \in Clients : ClientStep(c)
    \/ \E p \in Preds : Promote(p) \/ DeleteDelta(p)
    \/ Compact

Spec == Init /\ [][Next]_vars

(* Two workers wait for the tables each other has merged: the deadlock      *)
(* detector aborts one of them.                                             *)
WaitsFor(w, v) ==
    /\ wpc[w] \in {"scan", "merging"}
    /\ \E p \in merged[v] : p = cur[w] \/ (cur[w] = None /\ todo[w] = {p})

Deadlocked(w) == \E v \in Workers \ {w} : WaitsFor(w, v) /\ WaitsFor(v, w)

(* A worker wakes on its timer, whatever the writers do, and its list is    *)
(* read anew at least every 60 s; a lock somebody waits for is granted in   *)
(* the order of the queue, and a deadlock is broken; every client ends its  *)
(* transactions and goes on inserting.                                      *)
Fairness ==
    /\ \A w \in Workers :
          /\ SF_vars(Wake(w) /\ dirty /\ cache'[w] = htap)
          /\ SF_vars(\E p \in Preds : Count(w, p))
          /\ SF_vars(TryLock(w) /\ wpc'[w] = "merging")
          /\ SF_vars(MergeOne(w))
          /\ WF_vars(TryLock(w) \/ Finish(w) \/ CommitCycle(w) \/ Retry(w))
          /\ WF_vars(Deadlocked(w) /\ Fail(w))
    /\ \A c \in Clients :
          /\ SF_vars(DeleteFence(c))
          /\ WF_vars(DeleteVictim(c) \/ ClientEnd(c))
          /\ SF_vars(\E p \in Preds : InsertBegin(c, p))

FairSpec == Spec /\ Fairness
=============================================================================
