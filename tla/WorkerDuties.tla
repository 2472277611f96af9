----------------------------- MODULE WorkerDuties -----------------------------
(***************************************************************************)
(* The cycle of background worker 0 (src/src/worker.rs, the loop of        *)
(* pg_ripple_merge_worker_main): it merges, works off the validation       *)
(* queue, prunes, and drains the write-back queue, each in a transaction   *)
(* of its own.  An error ends the cycle: what comes after it waits for the *)
(* next one.  Composes JsonWriteback and AsyncValidation; sessions put     *)
(* work into one of the two queues, which one is left open.                *)
(***************************************************************************)
EXTENDS JsonWriteback, AsyncValidation

CONSTANTS
    Worker,     \* the worker, one of the Processors
    MaxErrors   \* bound on the cycles that end in an error or a crash

ASSUME WorkerAssumption == Worker \in Processors /\ MaxErrors \in Nat

VARIABLES
    duty,    \* where the worker is in its cycle
    errors,  \* cycles that ended so
    load     \* the queue the sessions use

vars == <<jvars, vvars, duty, errors, load>>

Duties == {"merge", "validate", "drain", "backoff"}

Init == JInit /\ VInit /\ duty = "merge" /\ errors = 0 /\ load \in {"json", "shacl"}

At(d, e) == duty = d /\ duty' = e /\ UNCHANGED <<errors, load>>

Stays(d) == duty = d /\ UNCHANGED <<duty, errors, load>>

(* wait_latch, and the merge of the cycle, which MergeWorker models. *)
Merge == At("merge", "validate") /\ UNCHANGED <<jvars, vvars>>

(* run_validation_cycle. *)
ValidateSelect == Stays("validate") /\ Select(Worker) /\ UNCHANGED jvars

ValidateJudge == Stays("validate") /\ (\E r \in chosen[Worker] : Judge(Worker, r)) /\ UNCHANGED jvars

ValidateFinish == At("validate", "drain") /\ Finish(Worker) /\ UNCHANGED jvars

ValidateNothing ==
    /\ ~working[Worker] /\ vqueue = {}
    /\ At("validate", "drain") /\ UNCHANGED <<jvars, vvars>>

(* drain_json_writeback_queue.  er_monitoring_prune and                     *)
(* prune_expired_snapshots come before it; all they do here is fail.        *)
WorkerSelect == Stays("drain") /\ DrainSelect /\ UNCHANGED vvars

WorkerRow == Stays("drain") /\ DrainRow /\ UNCHANGED vvars

WorkerCommit == At("drain", "merge") /\ DrainCommit /\ UNCHANGED vvars

DrainNothing ==
    /\ ~draining /\ jqueue = {}
    /\ At("drain", "merge") /\ UNCHANGED <<jvars, vvars>>

(* Any of them fails: the transaction is aborted and the cycle is over. *)
Error ==
    /\ duty # "backoff" /\ errors < MaxErrors
    /\ errors' = errors + 1 /\ duty' = "backoff" /\ UNCHANGED load
    /\ IF draining THEN DrainAbort ELSE UNCHANGED jvars
    /\ IF working[Worker] THEN GiveUp(Worker) ELSE UNCHANGED vvars

(* The server crashes and comes back, the worker with it. *)
Crash ==
    /\ errors < MaxErrors
    /\ errors' = errors + 1 /\ duty' = "merge" /\ UNCHANGED load
    /\ IF draining THEN DrainAbort ELSE UNCHANGED jvars
    /\ VCrash

(* Mutant: the worker leaves its loop after an error. *)
LeaveLoop == Stays("backoff") /\ UNCHANGED <<jvars, vvars>>

(* wait_latch of the backoff, and the next turn of the loop. *)
Backoff == At("backoff", "merge") /\ UNCHANGED <<jvars, vvars>>

(* Sessions. *)
Writeback == load = "json" /\ SessionNext /\ UNCHANGED <<vvars, duty, errors, load>>

Session(p) ==
    /\ load = "shacl" /\ UNCHANGED <<jvars, duty, errors, load>>
    /\ \/ \E x \in Facts : InsertAsync(x)
       \/ \E x \in Facts : CheckSync(p, x)
       \/ InsertSync(p)
       \/ \E x \in Facts : DeleteFact(x)
       \/ Select(p)
       \/ \E r \in chosen[p] : Judge(p, r)
       \/ Finish(p)
       \/ GiveUp(p)

WorkerStep ==
    \/ Merge
    \/ ValidateSelect \/ ValidateJudge \/ ValidateFinish \/ ValidateNothing
    \/ WorkerSelect \/ WorkerRow \/ WorkerCommit \/ DrainNothing
    \/ Backoff

Next == WorkerStep \/ Error \/ Crash \/ Writeback \/ \E p \in Processors \ {Worker} : Session(p)

(* The postmaster keeps the worker running; its latch times out. *)
Spec == Init /\ [][Next]_vars /\ WF_vars(WorkerStep)

-----------------------------------------------------------------------------
(* Type invariant of the worker and of both queues. *)
TypeOK == JTypeOK /\ VTypeOK /\ duty \in Duties /\ errors \in 0 .. MaxErrors

(* An entry of the write-back queue is processed in the end, whatever fails *)
(* before it in the cycle a bounded number of times                         *)
(* (drain_json_writeback_queue, and the loop's continue).                   *)
EntriesProcessed == \A e \in Entry : e \in jqueue ~> e \notin jqueue

(* The rows of the validation queue are worked off in the end               *)
(* (run_validation_cycle).                                                  *)
RowsValidated == \A n \in 1 .. MaxInserts : (\E r \in vqueue : r.id = n) ~> (\A r \in vqueue : r.id # n)
=============================================================================
