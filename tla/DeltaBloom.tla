------------------------------ MODULE DeltaBloom ------------------------------
(***************************************************************************)
(* The counting bloom filter over the predicates that may have delta rows  *)
(* (src/src/shmem.rs): the bits and the counters of their positions, each  *)
(* array behind a lightweight lock of its own.  Inserts set a predicate's  *)
(* positions after their row, a merge clears them after the swap, both     *)
(* inside a transaction that holds the predicate's tables, and compact()   *)
(* zeroes the bits.                                                        *)
(*                                                                         *)
(* Lightweight locks are waited for without timeout, without interrupts    *)
(* and outside PostgreSQL's deadlock detector.                             *)
(***************************************************************************)
EXTENDS Integers

CONSTANTS
    Procs,      \* backends and workers
    Preds,      \* predicates
    Pos,        \* positions of the filter
    BloomBits,  \* bloom_bits: the set of positions of each predicate
    None,       \* nobody
    MaxCount    \* where a u8 counter saturates (255)

VARIABLES
    bits,        \* DELTA_BLOOM: the positions that are set
    counters,    \* DELTA_BLOOM_COUNTERS
    bitsLock,    \* the holder of DELTA_BLOOM
    countLock,   \* the holder of DELTA_BLOOM_COUNTERS
    pc,          \* per process: "idle", "set", "set2", "clear", "clear2", "reset"
    pred         \* per process: the predicate whose tables it holds

vars == <<bits, counters, bitsLock, countLock, pc, pred>>

Init ==
    /\ bits = {} /\ counters = [x \in Pos |-> 0]
    /\ bitsLock = None /\ countLock = None
    /\ pc = [r \in Procs |-> "idle"] /\ pred = [r \in Procs |-> None]

Goto(r, l) == pc' = [pc EXCEPT ![r] = l]

(* Process r comes to one of the three calls; inserts share a predicate's   *)
(* tables, a merge has them to itself.                                      *)
Begin(r, p, call) ==
    /\ pc[r] = "idle"
    /\ \A x \in Procs : pred[x] = p => call = "set" /\ pc[x] \in {"set", "set2"}
    /\ pred' = [pred EXCEPT ![r] = p]
    /\ Goto(r, call)
    /\ UNCHANGED <<bits, counters, bitsLock, countLock>>

BeginReset(r) ==
    /\ pc[r] = "idle"
    /\ Goto(r, "reset")
    /\ UNCHANGED <<bits, counters, bitsLock, countLock, pred>>

(* set_predicate_delta_bit: DELTA_BLOOM first ...                           *)
SetBits(r) ==
    /\ pc[r] = "set" /\ bitsLock = None
    /\ bitsLock' = r
    /\ bits' = bits \cup BloomBits[pred[r]]
    /\ Goto(r, "set2")
    /\ UNCHANGED <<counters, countLock, pred>>

(* ... then, under it, DELTA_BLOOM_COUNTERS; both are released on return.   *)
SetCounters(r) ==
    /\ pc[r] = "set2" /\ countLock = None
    /\ counters' = [x \in Pos |-> IF x \in BloomBits[pred[r]] /\ counters[x] < MaxCount
                                    THEN counters[x] + 1 ELSE counters[x]]
    /\ bitsLock' = None
    /\ pred' = [pred EXCEPT ![r] = None]
    /\ Goto(r, "idle")
    /\ UNCHANGED <<bits, countLock>>

(* clear_predicate_delta_bit: DELTA_BLOOM_COUNTERS first ...                *)
ClearCounters(r) ==
    /\ pc[r] = "clear" /\ countLock = None
    /\ countLock' = r
    /\ counters' = [x \in Pos |-> IF x \in BloomBits[pred[r]] /\ counters[x] > 0
                                    THEN counters[x] - 1 ELSE counters[x]]
    /\ Goto(r, "clear2")
    /\ UNCHANGED <<bits, bitsLock, pred>>

(* ... then, under it, DELTA_BLOOM.                                         *)
ClearBits(r) ==
    /\ pc[r] = "clear2" /\ bitsLock = None
    /\ bits' = bits \ {x \in BloomBits[pred[r]] : counters[x] = 0}
    /\ countLock' = None
    /\ pred' = [pred EXCEPT ![r] = None]
    /\ Goto(r, "idle")
    /\ UNCHANGED <<counters, bitsLock>>

(* reset_bloom_filter zeroes the bits and leaves the counters.              *)
ResetBits(r) ==
    /\ pc[r] = "reset" /\ bitsLock = None
    /\ bits' = {}
    /\ Goto(r, "idle")
    /\ UNCHANGED <<counters, bitsLock, countLock, pred>>

Step(r) == SetBits(r) \/ SetCounters(r) \/ ClearCounters(r) \/ ClearBits(r) \/ ResetBits(r)

Next ==
    \E r \in Procs :
        \/ \E p \in Preds, call \in {"set", "clear"} : Begin(r, p, call)
        \/ BeginReset(r)
        \/ Step(r)

Spec == Init /\ [][Next]_vars

(* A free lock is granted to those who wait for it, in the order they came. *)
FairSpec == Spec /\ \A r \in Procs : SF_vars(Step(r))

(* An insert gets through the filter, whatever merges do: "Writers never    *)
(* block on the merge" (docs/src/operations/architecture.md).               *)
WritersReturn == \A r \in Procs : pc[r] \in {"set", "set2"} ~> pc[r] = "idle"
===============================================================================
