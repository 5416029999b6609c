---------------------------- MODULE MCWorkerLoop ----------------------------
(* One worker process with a few pool threads.                             *)
EXTENDS WorkerLoop
=============================================================================
