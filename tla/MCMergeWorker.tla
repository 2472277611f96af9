---------------------------- MODULE MCMergeWorker ----------------------------
(***************************************************************************)
(* Model checking of MergeWorker.                                          *)
(***************************************************************************)
EXTENDS MergeWorkerProps
==============================================================================
