-------------------------- MODULE MCWorkerThreads --------------------------
(* Two workers and a pipe that holds more than three tasks can tickle.     *)
EXTENDS WorkerThreads
=============================================================================
