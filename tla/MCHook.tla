------------------------------- MODULE MCHook -------------------------------
(* Two fibers that share two descriptor numbers, which are interchangeable. *)
EXTENDS Hook, TLC

HookSymmetry == Permutations(Fibers) \cup Permutations(Fds)
=============================================================================
