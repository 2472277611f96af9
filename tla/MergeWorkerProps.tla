--------------------------- MODULE MergeWorkerProps ---------------------------
(***************************************************************************)
(* The properties of MergeWorker.                                          *)
(***************************************************************************)
EXTENDS MergeWorker

(* The variables have their types. *)
TypeOK ==
    /\ rows \in [Preds -> 0 .. MaxRows] /\ htap \subseteq Preds
    /\ dirty \in BOOLEAN
    /\ pend \in [Clients -> Preds \cup {None}]
    /\ cpc \in [Clients -> {"idle", "insert", "delete", "fence"}]
    /\ wpc \in [Workers -> {"wait", "scan", "counted", "merging", "commit", "backoff"}]
    /\ cache \in [Workers -> SUBSET Preds] /\ todo \in [Workers -> SUBSET Preds]
    /\ cur \in [Workers -> Preds \cup {None}]
    /\ merged \in [Workers -> SUBSET Preds] /\ leaked \in [Workers -> SUBSET Preds]

(* The delta of a predicate that a worker has merged changes only when that *)
(* worker commits, at the end of its cycle and perhaps many merges later,   *)
(* whatever the other workers, clients, promotions and compact() do         *)
(* meanwhile (the one transaction of a cycle in worker.rs; what happens     *)
(* within a merge is the matter of HtapMerge).                              *)
MergedDeltasHeld ==
    [][\A w \in Workers : \A p \in merged[w] : rows'[p] # rows[p] => CommitCycle(w)]_vars

(* A step in which no worker dies, is aborted without a deadlock, or finds  *)
(* the advisory lock taken by a delete.                                     *)
Undisturbed ==
    \A w \in Workers :
        /\ ~Crash(w)
        /\ Fail(w) => Deadlocked(w)
        /\ TryLock(w) => \A c \in Touching(cur[w]) : cpc[c] # "fence"

(* A delta that has reached the threshold is merged, or emptied otherwise,  *)
(* sooner or later, although a reset of TOTAL_DELTA_ROWS forgets it, the    *)
(* list of predicates may not name it yet, another worker may hold its      *)
(* lock and deadlocked cycles are rolled back (worker.rs): provided inserts *)
(* go on, the other disturbances end, and no failed merge has left its      *)
(* session-level lock behind (MaxLeaks = 0).                                *)
FullDeltasMerged ==
    <>[][Undisturbed]_vars
      => \A p \in Preds : rows[p] >= Threshold ~> rows[p] < Threshold

(* A delete returns, whatever merges do: "Writers never block on the merge" *)
(* (docs/src/operations/architecture.md).                                   *)
DeletesReturn == \A c \in Clients : cpc[c] = "delete" ~> cpc[c] = "idle"
==============================================================================
