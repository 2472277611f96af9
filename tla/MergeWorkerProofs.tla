-------------------------- MODULE MergeWorkerProofs --------------------------
(***************************************************************************)
(* Proofs about MergeWorker: the pool of merge workers, for every number   *)
(* of workers, clients and predicates, and every threshold.                *)
(*                                                                         *)
(* The argument for the tables merged and not yet committed: whoever       *)
(* changes a delta either has touched its tables before the merge (and the *)
(* merge waits until nobody has) or asks for them afterwards (and waits    *)
(* for the worker that holds them).  HeldInv states both; compact() looks  *)
(* at the predicates it finds in the catalog only, hence CycleInv.         *)
(***************************************************************************)
EXTENDS MergeWorkerProps, TLAPS

(* A worker knows, visits and merges predicates of the catalog only.        *)
CycleInv ==
    \A w \in Workers :
        /\ cache[w] \subseteq htap
        /\ todo[w] \subseteq htap
        /\ merged[w] \subseteq htap
        /\ wpc[w] \in {"counted", "merging"} => cur[w] \in htap

(* No open transaction of a client has touched the tables of a predicate    *)
(* that a worker has merged and not committed, and no other worker has      *)
(* merged it too.                                                           *)
HeldInv ==
    \A w \in Workers : \A p \in merged[w] :
        /\ Touching(p) = {}
        /\ \A v \in Workers \ {w} : p \notin merged[v]

(* The inductive invariant. *)
MInv == TypeOK /\ CycleInv /\ HeldInv

(* Every step keeps the types. *)
LEMMA TypeStep ==
    ASSUME TypeOK, CycleInv, [Next]_vars
    PROVE  TypeOK'
<1>1. ASSUME NEW w \in Workers, WorkerStep(w) PROVE TypeOK'
  <2>1. CASE Wake(w)
    BY <2>1, <1>1
    DEF Wake, CachedIds, TypeOK, tablesW, clientW, cycle
  <2>2. CASE TryLock(w)
    BY <2>2, <1>1 DEF TryLock, TypeOK, tablesW, clientW, cycle
  <2>3. CASE MergeOne(w)
    BY <2>3, <1>1
    DEF MergeOne, TypeOK, CycleInv, tablesW, clientW, cycle
  <2>4. CASE Finish(w)
    BY <2>4, <1>1 DEF Finish, TypeOK, tablesW, clientW, cycle
  <2>5. CASE CommitCycle(w)
    BY <2>5, <1>1, WorkerAssumption DEF CommitCycle, TypeOK, tablesW, clientW, cycle
  <2>6. CASE Fail(w)
    <3>1. wpc[w] = "merging" => cur[w] \in Preds
      BY <1>1 DEF TypeOK, CycleInv
    <3>2. leaked' \in [Workers -> SUBSET Preds]
      BY <2>6, <1>1, <3>1 DEF Fail, TypeOK
    <3> QED BY <2>6, <1>1, <3>2 DEF Fail, Rollback, TypeOK, tablesW, clientW, cycle
  <2>7. CASE Retry(w)
    BY <2>7, <1>1 DEF Retry, TypeOK, tablesW, clientW, cycle
  <2>8. CASE Crash(w)
    BY <2>8, <1>1
    DEF Crash, Rollback, TypeOK, tablesW, clientW, cycle
  <2>9. ASSUME NEW p \in Preds, Count(w, p) PROVE TypeOK'
    BY <2>9, <1>1 DEF Count, TypeOK, tablesW, clientW, cycle
  <2> QED BY <1>1, <2>1, <2>2, <2>3, <2>4, <2>5, <2>6, <2>7, <2>8, <2>9 DEF WorkerStep
<1>2. ASSUME NEW c \in Clients, ClientStep(c) PROVE TypeOK'
  <2>1. ASSUME NEW p \in Preds, InsertBegin(c, p) PROVE TypeOK'
    BY <2>1, <1>2 DEF InsertBegin, TypeOK, tablesW, clientW, cycle
  <2>2. ASSUME NEW p \in Preds, DeleteBegin(c, p) PROVE TypeOK'
    BY <2>2, <1>2 DEF DeleteBegin, TypeOK, tablesW, clientW, cycle
  <2>3. CASE DeleteFence(c)
    BY <2>3, <1>2 DEF DeleteFence, TypeOK, tablesW, clientW, cycle
  <2>4. CASE DeleteVictim(c)
    BY <2>4, <1>2
    DEF DeleteVictim, TypeOK, tablesW, clientW, cycle
  <2>5. CASE ClientEnd(c)
    BY <2>5, <1>2, WorkerAssumption DEF ClientEnd, TypeOK, tablesW, clientW, cycle
  <2> QED BY <1>2, <2>1, <2>2, <2>3, <2>4, <2>5 DEF ClientStep
<1>3. ASSUME NEW p \in Preds, Promote(p) PROVE TypeOK'
  BY <1>3, WorkerAssumption DEF Promote, TypeOK, tablesW, clientW, cycle
<1>4. ASSUME NEW p \in Preds, DeleteDelta(p) PROVE TypeOK'
  BY <1>4, WorkerAssumption DEF DeleteDelta, TypeOK, tablesW, clientW, cycle
<1>5. CASE Compact
  <2>1. 0 \in 0 .. MaxRows
    BY WorkerAssumption
  <2> QED BY <1>5, <2>1 DEF Compact, TypeOK, tablesW, clientW, cycle
<1>6. CASE UNCHANGED vars
  BY <1>6 DEF TypeOK, vars, tablesW, clientW, cycle
<1> QED BY <1>1, <1>2, <1>3, <1>4, <1>5, <1>6 DEF Next

(* Every step keeps the workers within the catalog: no action takes a       *)
(* predicate out of it.                                                     *)
LEMMA CycleStep ==
    ASSUME TypeOK, CycleInv, [Next]_vars
    PROVE  CycleInv'
<1>1. ASSUME NEW w \in Workers, WorkerStep(w) PROVE CycleInv'
  <2>1. CASE Wake(w)
    BY <2>1, <1>1 DEF Wake, CachedIds, TypeOK, CycleInv, tablesW, clientW, cycle
  <2>2. CASE TryLock(w)
    BY <2>2, <1>1 DEF TryLock, TypeOK, CycleInv, tablesW, clientW, cycle
  <2>3. CASE MergeOne(w)
    BY <2>3, <1>1 DEF MergeOne, TypeOK, CycleInv, tablesW, clientW, cycle
  <2>4. CASE Finish(w)
    BY <2>4, <1>1 DEF Finish, TypeOK, CycleInv, tablesW, clientW, cycle
  <2>5. CASE CommitCycle(w)
    BY <2>5, <1>1 DEF CommitCycle, TypeOK, CycleInv, tablesW, clientW, cycle
  <2>6. CASE Fail(w)
    BY <2>6, <1>1 DEF Fail, Rollback, TypeOK, CycleInv, tablesW, clientW, cycle
  <2>7. CASE Retry(w)
    BY <2>7, <1>1 DEF Retry, TypeOK, CycleInv, tablesW, clientW, cycle
  <2>8. CASE Crash(w)
    BY <2>8, <1>1 DEF Crash, Rollback, TypeOK, CycleInv, tablesW, clientW, cycle
  <2>9. ASSUME NEW p \in Preds, Count(w, p) PROVE CycleInv'
    BY <2>9, <1>1 DEF Count, TypeOK, CycleInv, tablesW, clientW, cycle
  <2> QED BY <1>1, <2>1, <2>2, <2>3, <2>4, <2>5, <2>6, <2>7, <2>8, <2>9 DEF WorkerStep
<1>2. ASSUME NEW c \in Clients, ClientStep(c) PROVE CycleInv'
  <2>1. ASSUME NEW p \in Preds, InsertBegin(c, p) PROVE CycleInv'
    BY <2>1, <1>2 DEF InsertBegin, TypeOK, CycleInv, tablesW, clientW, cycle
  <2>2. ASSUME NEW p \in Preds, DeleteBegin(c, p) PROVE CycleInv'
    BY <2>2, <1>2 DEF DeleteBegin, TypeOK, CycleInv, tablesW, clientW, cycle
  <2>3. CASE DeleteFence(c)
    BY <2>3, <1>2 DEF DeleteFence, TypeOK, CycleInv, tablesW, clientW, cycle
  <2>4. CASE DeleteVictim(c)
    BY <2>4, <1>2 DEF DeleteVictim, TypeOK, CycleInv, tablesW, clientW, cycle
  <2>5. CASE ClientEnd(c)
    BY <2>5, <1>2 DEF ClientEnd, TypeOK, CycleInv, tablesW, clientW, cycle
  <2> QED BY <1>2, <2>1, <2>2, <2>3, <2>4, <2>5 DEF ClientStep
<1>3. ASSUME NEW p \in Preds, Promote(p) PROVE CycleInv'
  BY <1>3 DEF Promote, TypeOK, CycleInv, tablesW, clientW, cycle
<1>4. ASSUME NEW p \in Preds, DeleteDelta(p) PROVE CycleInv'
  BY <1>4 DEF DeleteDelta, TypeOK, CycleInv, tablesW, clientW, cycle
<1>5. CASE Compact
  BY <1>5 DEF Compact, TypeOK, CycleInv, tablesW, clientW, cycle
<1>6. CASE UNCHANGED vars
  BY <1>6 DEF TypeOK, CycleInv, vars, tablesW, clientW, cycle
<1> QED BY <1>1, <1>2, <1>3, <1>4, <1>5, <1>6 DEF Next

(* Every step leaves merged tables to the worker that merged them.          *)
LEMMA HeldStep ==
    ASSUME TypeOK, CycleInv, HeldInv, [Next]_vars
    PROVE  HeldInv'
<1>1. ASSUME NEW w \in Workers, WorkerStep(w) PROVE HeldInv'
  <2>1. CASE Wake(w)
    BY <2>1, <1>1
    DEF Wake, CachedIds, TypeOK, CycleInv, HeldInv, Touching, TableHolders,
        tablesW, clientW, cycle
  <2>2. CASE TryLock(w)
    BY <2>2, <1>1
    DEF TryLock, TypeOK, CycleInv, HeldInv, Touching, TableHolders, tablesW,
        clientW, cycle
  <2>3. CASE MergeOne(w)
    BY <2>3, <1>1
    DEF MergeOne, TypeOK, CycleInv, HeldInv, Touching, TableHolders, tablesW,
        clientW, cycle
  <2>4. CASE Finish(w)
    BY <2>4, <1>1
    DEF Finish, TypeOK, CycleInv, HeldInv, Touching, TableHolders, tablesW,
        clientW, cycle
  <2>5. CASE CommitCycle(w)
    BY <2>5, <1>1
    DEF CommitCycle, TypeOK, CycleInv, HeldInv, Touching, TableHolders, tablesW,
        clientW, cycle
  <2>6. CASE Fail(w)
    BY <2>6, <1>1
    DEF Fail, Rollback, TypeOK, CycleInv, HeldInv, Touching, TableHolders,
        tablesW, clientW, cycle
  <2>7. CASE Retry(w)
    BY <2>7, <1>1
    DEF Retry, TypeOK, CycleInv, HeldInv, Touching, TableHolders, tablesW,
        clientW, cycle
  <2>8. CASE Crash(w)
    BY <2>8, <1>1
    DEF Crash, Rollback, TypeOK, CycleInv, HeldInv, Touching, TableHolders,
        tablesW, clientW, cycle
  <2>9. ASSUME NEW p \in Preds, Count(w, p) PROVE HeldInv'
    BY <2>9, <1>1
    DEF Count, TypeOK, CycleInv, HeldInv, Touching, TableHolders, tablesW,
        clientW, cycle
  <2> QED BY <1>1, <2>1, <2>2, <2>3, <2>4, <2>5, <2>6, <2>7, <2>8, <2>9 DEF WorkerStep
<1>2. ASSUME NEW c \in Clients, ClientStep(c) PROVE HeldInv'
  <2>1. ASSUME NEW p \in Preds, InsertBegin(c, p) PROVE HeldInv'
    BY <2>1, <1>2, WorkerAssumption
    DEF InsertBegin, TypeOK, CycleInv, HeldInv, Touching, TableHolders, tablesW,
        clientW, cycle
  <2>2. ASSUME NEW p \in Preds, DeleteBegin(c, p) PROVE HeldInv'
    BY <2>2, <1>2, WorkerAssumption
    DEF DeleteBegin, TypeOK, CycleInv, HeldInv, Touching, TableHolders, tablesW,
        clientW, cycle
  <2>3. CASE DeleteFence(c)
    BY <2>3, <1>2
    DEF DeleteFence, TypeOK, CycleInv, HeldInv, Touching, TableHolders, tablesW,
        clientW, cycle
  <2>4. CASE DeleteVictim(c)
    BY <2>4, <1>2, WorkerAssumption
    DEF DeleteVictim, TypeOK, CycleInv, HeldInv, Touching, TableHolders, tablesW,
        clientW, cycle
  <2>5. CASE ClientEnd(c)
    BY <2>5, <1>2, WorkerAssumption
    DEF ClientEnd, TypeOK, CycleInv, HeldInv, Touching, TableHolders, tablesW,
        clientW, cycle
  <2> QED BY <1>2, <2>1, <2>2, <2>3, <2>4, <2>5 DEF ClientStep
<1>3. ASSUME NEW p \in Preds, Promote(p) PROVE HeldInv'
  BY <1>3
  DEF Promote, TypeOK, CycleInv, HeldInv, Touching, TableHolders, tablesW,
      clientW, cycle
<1>4. ASSUME NEW p \in Preds, DeleteDelta(p) PROVE HeldInv'
  BY <1>4
  DEF DeleteDelta, TypeOK, CycleInv, HeldInv, Touching, TableHolders, tablesW,
      clientW, cycle
<1>5. CASE Compact
  BY <1>5
  DEF Compact, TypeOK, CycleInv, HeldInv, Touching, TableHolders, tablesW,
      clientW, cycle
<1>6. CASE UNCHANGED vars
  BY <1>6, WorkerAssumption
  DEF TypeOK, CycleInv, HeldInv, Touching, TableHolders, vars, tablesW, clientW,
      cycle
<1> QED BY <1>1, <1>2, <1>3, <1>4, <1>5, <1>6 DEF Next

(* MInv holds of every reachable state of the pool. *)
THEOREM PoolInvariant == Spec => []MInv
<1>1. Init => MInv
  <2>1. 0 \in 0 .. MaxRows
    BY WorkerAssumption
  <2>2. Init => TypeOK
    <3> SUFFICES ASSUME Init PROVE TypeOK
      OBVIOUS
    <3>1. rows \in [Preds -> 0 .. MaxRows]
      BY <2>1 DEF Init
    <3>2. pend \in [Clients -> Preds \cup {None}] /\ cur \in [Workers -> Preds \cup {None}]
      BY DEF Init
    <3>3. cpc \in [Clients -> {"idle", "insert", "delete", "fence"}]
      BY DEF Init
    <3>4. wpc \in [Workers -> {"wait", "scan", "counted", "merging", "commit", "backoff"}]
      BY DEF Init
    <3> QED BY <3>1, <3>2, <3>3, <3>4 DEF Init, TypeOK
  <2>3. Init => CycleInv
    BY DEF Init, CycleInv
  <2>4. Init => HeldInv
    BY DEF Init, HeldInv
  <2> QED BY <2>2, <2>3, <2>4 DEF MInv
<1>2. MInv /\ [Next]_vars => MInv'
  BY TypeStep, CycleStep, HeldStep DEF MInv
<1> QED BY <1>1, <1>2, PTL DEF Spec

(* The variables of the pool keep their types. *)
THEOREM PoolTyped == Spec => []TypeOK
<1>1. MInv => TypeOK
  BY DEF MInv
<1> QED BY <1>1, PoolInvariant, PTL

(* What MergedDeltasHeld says of one step.                                  *)
HeldAcross ==
    \A w \in Workers : \A p \in merged[w] : rows'[p] # rows[p] => CommitCycle(w)

(* A step that changes the delta of a merged predicate is the commit of the *)
(* worker that merged it.                                                   *)
LEMMA HeldAcrossStep ==
    ASSUME TypeOK, CycleInv, HeldInv, Next
    PROVE  HeldAcross
<1>1. ASSUME NEW w \in Workers, WorkerStep(w) PROVE HeldAcross
  <2>1. CASE Wake(w)
    BY <2>1, <1>1
    DEF Wake, CachedIds, HeldAcross, TypeOK, CycleInv, HeldInv, Touching,
        TableHolders, tablesW, clientW, cycle
  <2>2. CASE TryLock(w)
    BY <2>2, <1>1
    DEF TryLock, HeldAcross, TypeOK, CycleInv, HeldInv, Touching, TableHolders,
        tablesW, clientW, cycle
  <2>3. CASE MergeOne(w)
    BY <2>3, <1>1
    DEF MergeOne, HeldAcross, TypeOK, CycleInv, HeldInv, Touching, TableHolders,
        tablesW, clientW, cycle
  <2>4. CASE Finish(w)
    BY <2>4, <1>1
    DEF Finish, HeldAcross, TypeOK, CycleInv, HeldInv, Touching, TableHolders,
        tablesW, clientW, cycle
  <2>5. CASE CommitCycle(w)
    <3> SUFFICES ASSUME NEW v \in Workers, NEW p \in merged[v], v # w
                 PROVE  rows'[p] = rows[p]
      BY <2>5 DEF HeldAcross
    <3>1. p \in htap /\ p \in Preds /\ p \notin merged[w]
      BY <1>1 DEF TypeOK, CycleInv, HeldInv
    <3> QED BY <2>5, <3>1 DEF CommitCycle
  <2>6. CASE Fail(w)
    BY <2>6, <1>1
    DEF Fail, Rollback, HeldAcross, TypeOK, CycleInv, HeldInv, Touching,
        TableHolders, tablesW, clientW, cycle
  <2>7. CASE Retry(w)
    BY <2>7, <1>1
    DEF Retry, HeldAcross, TypeOK, CycleInv, HeldInv, Touching, TableHolders,
        tablesW, clientW, cycle
  <2>8. CASE Crash(w)
    BY <2>8, <1>1
    DEF Crash, Rollback, HeldAcross, TypeOK, CycleInv, HeldInv, Touching,
        TableHolders, tablesW, clientW, cycle
  <2>9. ASSUME NEW p \in Preds, Count(w, p) PROVE HeldAcross
    BY <2>9, <1>1
    DEF Count, HeldAcross, TypeOK, CycleInv, HeldInv, Touching, TableHolders,
        tablesW, clientW, cycle
  <2> QED BY <1>1, <2>1, <2>2, <2>3, <2>4, <2>5, <2>6, <2>7, <2>8, <2>9 DEF WorkerStep
<1>2. ASSUME NEW c \in Clients, ClientStep(c) PROVE HeldAcross
  <2>1. ASSUME NEW p \in Preds, InsertBegin(c, p) PROVE HeldAcross
    BY <2>1, <1>2
    DEF InsertBegin, HeldAcross, TypeOK, CycleInv, HeldInv, Touching,
        TableHolders, tablesW, clientW, cycle
  <2>2. ASSUME NEW p \in Preds, DeleteBegin(c, p) PROVE HeldAcross
    BY <2>2, <1>2
    DEF DeleteBegin, HeldAcross, TypeOK, CycleInv, HeldInv, Touching,
        TableHolders, tablesW, clientW, cycle
  <2>3. CASE DeleteFence(c)
    BY <2>3, <1>2
    DEF DeleteFence, HeldAcross, TypeOK, CycleInv, HeldInv, Touching,
        TableHolders, tablesW, clientW, cycle
  <2>4. CASE DeleteVictim(c)
    BY <2>4, <1>2
    DEF DeleteVictim, HeldAcross, TypeOK, CycleInv, HeldInv, Touching,
        TableHolders, tablesW, clientW, cycle
  <2>5. CASE ClientEnd(c)
    BY <2>5, <1>2
    DEF ClientEnd, HeldAcross, TypeOK, CycleInv, HeldInv, Touching, TableHolders,
        tablesW, clientW, cycle
  <2> QED BY <1>2, <2>1, <2>2, <2>3, <2>4, <2>5 DEF ClientStep
<1>3. ASSUME NEW p \in Preds, Promote(p) PROVE HeldAcross
  BY <1>3
  DEF Promote, HeldAcross, TypeOK, CycleInv, HeldInv, Touching, TableHolders,
      tablesW, clientW, cycle
<1>4. ASSUME NEW p \in Preds, DeleteDelta(p) PROVE HeldAcross
  BY <1>4
  DEF DeleteDelta, HeldAcross, TypeOK, CycleInv, HeldInv, Touching, TableHolders,
      tablesW, clientW, cycle
<1>5. CASE Compact
  BY <1>5
  DEF Compact, HeldAcross, TypeOK, CycleInv, HeldInv, Touching, TableHolders,
      tablesW, clientW, cycle
<1> QED BY <1>1, <1>2, <1>3, <1>4, <1>5 DEF Next

(* The delta of a predicate that a worker has merged changes only when that *)
(* worker commits (the one transaction of a cycle in worker.rs).            *)
THEOREM MergedDeltasStayHeld == Spec => MergedDeltasHeld
<1>1. MInv /\ [Next]_vars => [HeldAcross]_vars
  BY HeldAcrossStep DEF MInv
<1>2. Spec => [][HeldAcross]_vars
  BY <1>1, PoolInvariant, PTL DEF Spec
<1> QED BY <1>2 DEF MergedDeltasHeld, HeldAcross
==============================================================================
