----------------------------- MODULE VpPromotion -----------------------------
(***************************************************************************)
(* Writers of one predicate racing with its promotion from vp_rare to a    *)
(* dedicated table (src/src/storage/promote.rs, ops/mod.rs,                *)
(* vp_rare_io.rs, bulk_load/mod.rs).                                       *)
(*                                                                         *)
(* A writer first asks the catalog where the predicate lives and then      *)
(* writes there; the promotion of another session may commit in between.   *)
(* Sessions run at READ COMMITTED, one call per transaction.  rare, delta, *)
(* dedicated and count are committed state; a session's own uncommitted    *)
(* row is in own[c], the rows it has moved in moved[c], its uncommitted    *)
(* triple_count in cnt[c].  Rows are quads: identifiers play no part here.  *)
(***************************************************************************)
EXTENDS Integers, FiniteSets

CONSTANTS
    Quads,      \* the (s, o, g) combinations of the predicate
    Sessions,   \* backends
    NoSession,  \* the holder of a free lock
    NoQuad,     \* quad[c] of a session that writes none
    Kinds,      \* the calls in use: subset of AllKinds
    Threshold,  \* pg_ripple.vp_promotion_threshold
    MaxCount    \* bound on triple_count

AllKinds == {"single", "encoded", "bulk", "worker"}

ASSUME PromotionAssumption ==
    /\ NoSession \notin Sessions
    /\ NoQuad \notin Quads
    /\ Kinds \subseteq AllKinds
    /\ Threshold \in Nat \ {0} /\ MaxCount \in Nat

VARIABLES
    rare, delta,    \* committed rows in vp_rare and in vp_{id}_delta
    dedicated,      \* predicates.table_oid IS NOT NULL
    count,          \* predicates.triple_count
    rowLock,        \* holder of the predicates row
    advisory,       \* holder of pg_advisory_xact_lock(p_id)
    pc, kind, quad, \* per session: where it is, in which call, with which quad
    own,            \* per session: its uncommitted row in vp_rare
    moved,          \* per session: the rows its promotion has moved
    cnt,            \* per session: its uncommitted triple_count, or -1
    via,            \* history: the last writer of each quad, or NoCall
    padded          \* history: triple_count has counted a row that was not stored

store   == <<rare, delta, dedicated, count>>
locks   == <<rowLock, advisory>>
session == <<pc, kind, quad, own, moved, cnt>>
vars    == <<store, locks, session, via, padded>>

Idle == "idle"

NoCall == "none"

(* History: a quad's last writer, insert_triple or another call. *)
Writer(k) == IF k = "single" THEN "single" ELSE "other"

Init ==
    /\ rare = {} /\ delta = {} /\ dedicated = FALSE /\ count = 0
    /\ rowLock = NoSession /\ advisory = NoSession
    /\ pc = [c \in Sessions |-> Idle]
    /\ kind = [c \in Sessions |-> "single"]
    /\ quad = [c \in Sessions |-> NoQuad]
    /\ own = [c \in Sessions |-> {}]
    /\ moved = [c \in Sessions |-> {}]
    /\ cnt = [c \in Sessions |-> -1]
    /\ via = [q \in Quads |-> NoCall] /\ padded = FALSE

(* triple_count as session c sees it. *)
CountSeen(c) == IF cnt[c] = -1 THEN count ELSE cnt[c]

(* The rows of vp_rare session c sees. *)
RareSeen(c) == rare \cup own[c]

Goto(c, l) == pc' = [pc EXCEPT ![c] = l]

(* Another session has written or moved quad q in vp_rare and is still open. *)
RareBusy(c, q) == \E d \in Sessions \ {c} : q \in own[d] \cup moved[d]

-----------------------------------------------------------------------------
(* get_dedicated_vp_table: where the catalog says the predicate lives. *)
Route(c, k, q) ==
    /\ pc[c] = Idle
    /\ k \in Kinds \ {"worker"}
    /\ kind' = [kind EXCEPT ![c] = k]
    /\ quad' = [quad EXCEPT ![c] = q]
    /\ Goto(c, IF dedicated THEN "toDelta" ELSE "toRare")
    /\ UNCHANGED <<store, locks, own, moved, cnt, via, padded>>

(* The merge worker's promote_rare_predicates, and the SQL function. *)
WorkerPromotes(c) ==
    /\ pc[c] = Idle
    /\ "worker" \in Kinds
    /\ Cardinality(rare) >= Threshold
    /\ kind' = [kind EXCEPT ![c] = "worker"]
    /\ Goto(c, "promote")
    /\ UNCHANGED <<store, locks, quad, own, moved, cnt, via, padded>>

(* INSERT INTO vp_rare ... ON CONFLICT DO NOTHING (or NOT EXISTS): waits    *)
(* for an open transaction's row of the same quad.  A duplicate is skipped, *)
(* and only the bulk path counts it.                                        *)
RareInsert(c) ==
    /\ pc[c] = "toRare"
    /\ ~RareBusy(c, quad[c])
    /\ IF quad[c] \in rare
         THEN /\ own' = own
              /\ Goto(c, CASE kind[c] = "single"  -> "check"
                           [] kind[c] = "encoded" -> "commit"
                           [] kind[c] = "bulk"    -> "count")
         ELSE /\ own' = [own EXCEPT ![c] = {quad[c]}]
              /\ Goto(c, "count")
    /\ UNCHANGED <<store, locks, kind, quad, moved, cnt, via, padded>>

(* INSERT INTO predicates ... ON CONFLICT DO UPDATE SET triple_count + 1:   *)
(* waits for the row, rereads it, and holds it to the end.                  *)
CountUp(c) ==
    /\ pc[c] = "count"
    /\ rowLock = NoSession
    /\ count < MaxCount
    /\ rowLock' = c
    /\ cnt' = [cnt EXCEPT ![c] = count + 1]
    /\ Goto(c, IF kind[c] = "encoded" THEN "commit" ELSE "check")
    /\ UNCHANGED <<store, advisory, kind, quad, own, moved, via>>
    /\ padded' = (padded \/ own[c] = {})

(* Fault: the promotion is left to whoever made the predicate dedicated. *)
CheckThresholdOnce(c) ==
    /\ pc[c] = "check"
    /\ LET n == IF kind[c] = "single" THEN CountSeen(c) ELSE Cardinality(RareSeen(c))
       IN  Goto(c, IF ~dedicated /\ n >= Threshold THEN "promote" ELSE "commit")
    /\ UNCHANGED <<store, locks, kind, quad, own, moved, cnt, via, padded>>

(* insert_triple compares triple_count with the threshold, the end of a     *)
(* bulk load the number of the predicate's rows in vp_rare.                 *)
CheckThreshold(c) ==
    /\ pc[c] = "check"
    /\ LET n == IF kind[c] = "single" THEN CountSeen(c) ELSE Cardinality(RareSeen(c))
       IN  Goto(c, IF n >= Threshold THEN "promote" ELSE "commit")
    /\ UNCHANGED <<store, locks, kind, quad, own, moved, cnt, via, padded>>

(* promote_predicate_impl: pg_advisory_xact_lock(p_id). *)
PromoteLock(c) ==
    /\ pc[c] = "promote"
    /\ advisory = NoSession
    /\ advisory' = c
    /\ Goto(c, "move")
    /\ UNCHANGED <<store, rowLock, kind, quad, own, moved, cnt, via, padded>>

(* Fault: triple_count is set to the number of rows moved. *)
PromoteMoveMiscounts(c) ==
    /\ pc[c] = "move"
    /\ rowLock \in {c, NoSession}
    /\ rowLock' = c
    /\ moved' = [moved EXCEPT ![c] = RareSeen(c)]
    /\ cnt' = [cnt EXCEPT ![c] = Cardinality(RareSeen(c))]
    /\ Goto(c, "commit")
    /\ UNCHANGED <<store, advisory, kind, quad, own, via, padded>>

(* promotion_status (the predicates row again), ensure_vp_table, the        *)
(* DELETE ... RETURNING / INSERT ... DO NOTHING move, and the new           *)
(* triple_count and table_oid.                                              *)
PromoteMove(c) ==
    /\ pc[c] = "move"
    /\ rowLock \in {c, NoSession}
    /\ rowLock' = c
    /\ moved' = [moved EXCEPT ![c] = RareSeen(c)]
    /\ cnt' = [cnt EXCEPT ![c] = Cardinality(delta \cup RareSeen(c))]
    /\ Goto(c, "commit")
    /\ UNCHANGED <<store, advisory, kind, quad, own, via, padded>>

(* The dedicated path: upsert into delta, triple_count + 1, commit. *)
DeltaInsert(c) ==
    /\ pc[c] = "toDelta"
    /\ rowLock = NoSession
    /\ count < MaxCount
    /\ delta' = delta \cup {quad[c]}
    /\ count' = count + 1
    /\ via' = [via EXCEPT ![quad[c]] = Writer(kind[c])]
    /\ Goto(c, Idle)
    /\ quad' = [quad EXCEPT ![c] = NoQuad]
    /\ kind' = [kind EXCEPT ![c] = "single"]
    /\ UNCHANGED <<rare, dedicated, locks, own, moved, cnt, padded>>

(* Fault: the advisory lock survives the transaction (a session-level lock). *)
EndSessionKeepsLock(c) ==
    /\ Goto(c, Idle)
    /\ quad' = [quad EXCEPT ![c] = NoQuad]
    /\ own' = [own EXCEPT ![c] = {}]
    /\ moved' = [moved EXCEPT ![c] = {}]
    /\ cnt' = [cnt EXCEPT ![c] = -1]
    /\ rowLock' = IF rowLock = c THEN NoSession ELSE rowLock
    /\ kind' = [kind EXCEPT ![c] = "single"]
    /\ UNCHANGED <<advisory, padded>>

(* The end of a transaction: what it wrote is dropped from its workspace.   *)
EndSession(c) ==
    /\ Goto(c, Idle)
    /\ quad' = [quad EXCEPT ![c] = NoQuad]
    /\ own' = [own EXCEPT ![c] = {}]
    /\ moved' = [moved EXCEPT ![c] = {}]
    /\ cnt' = [cnt EXCEPT ![c] = -1]
    /\ rowLock' = IF rowLock = c THEN NoSession ELSE rowLock
    /\ advisory' = IF advisory = c THEN NoSession ELSE advisory
    /\ kind' = [kind EXCEPT ![c] = "single"]
    /\ UNCHANGED padded

(* Fault: a call that has not counted writes its count back all the same. *)
CommitUnread(c) ==
    /\ pc[c] = "commit"
    /\ rare' = (rare \cup own[c]) \ moved[c]
    /\ delta' = delta \cup moved[c]
    /\ dedicated' = (dedicated \/ advisory = c)
    /\ count' = cnt[c]
    /\ via' = IF quad[c] = NoQuad THEN via ELSE [via EXCEPT ![quad[c]] = Writer(kind[c])]
    /\ EndSession(c)

(* Fault: ensure_vp_table creates the delta table afresh. *)
CommitRecreates(c) ==
    /\ pc[c] = "commit"
    /\ rare' = (rare \cup own[c]) \ moved[c]
    /\ delta' = IF advisory = c THEN moved[c] ELSE delta
    /\ dedicated' = (dedicated \/ advisory = c)
    /\ count' = CountSeen(c)
    /\ via' = IF quad[c] = NoQuad THEN via ELSE [via EXCEPT ![quad[c]] = Writer(kind[c])]
    /\ EndSession(c)

(* The transaction commits. *)
Commit(c) ==
    /\ pc[c] = "commit"
    /\ rare' = (rare \cup own[c]) \ moved[c]
    /\ delta' = delta \cup moved[c]
    /\ dedicated' = (dedicated \/ advisory = c)
    /\ count' = CountSeen(c)
    /\ via' = IF quad[c] = NoQuad THEN via ELSE [via EXCEPT ![quad[c]] = Writer(kind[c])]
    /\ EndSession(c)

(* An error, a cancelled or crashed backend: everything is rolled back, the *)
(* 'promoting' status included.                                             *)
Abort(c) ==
    /\ pc[c] # Idle
    /\ EndSession(c)
    /\ UNCHANGED <<store, via>>

-----------------------------------------------------------------------------
(* A writer holds the row and waits for the advisory lock; a promoter holds *)
(* the advisory lock and waits for the row.                                 *)
Deadlocked(c) ==
    /\ pc[c] = "promote" /\ rowLock = c
    /\ \E d \in Sessions \ {c} : advisory = d /\ pc[d] = "move"

SessionStep(c) ==
    \/ \E k \in AllKinds, q \in Quads : Route(c, k, q)
    \/ WorkerPromotes(c)
    \/ RareInsert(c)
    \/ CountUp(c)
    \/ CheckThreshold(c)
    \/ PromoteLock(c)
    \/ PromoteMove(c)
    \/ DeltaInsert(c)
    \/ Commit(c)
    \/ Abort(c)

Next == \E c \in Sessions : SessionStep(c)

Spec == Init /\ [][Next]_vars

(* Statements that can run do; lock queues are first come, first served;    *)
(* the deadlock detector cancels one of two sessions that wait for each     *)
(* other.  At the bound MaxCount a session can only abort.                  *)
Proceed(c) ==
    \/ RareInsert(c) \/ CountUp(c) \/ CheckThreshold(c) \/ PromoteLock(c)
    \/ PromoteMove(c) \/ DeltaInsert(c) \/ Commit(c)

Victim(c) == Abort(c) /\ (Deadlocked(c) \/ (count = MaxCount /\ pc[c] \in {"count", "toDelta"}))

FairSpec ==
    /\ Spec
    /\ \A c \in Sessions : SF_vars(Proceed(c)) /\ WF_vars(Victim(c))
=============================================================================
