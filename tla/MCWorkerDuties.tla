---------------------------- MODULE MCWorkerDuties ----------------------------
EXTENDS WorkerDuties
=============================================================================
