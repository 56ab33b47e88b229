---------------------------- MODULE MCScheduler ----------------------------
(* Small pools for TLC.  Callbacks and fibers are interchangeable; workers *)
(* are not where a task may be pinned to one of them.                      *)
EXTENDS Scheduler

CONSTANTS w1, w2, any

CbSymmetry == Permutations(Cbs) \cup Permutations(Fibers)
=============================================================================
