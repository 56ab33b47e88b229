------------------------------ MODULE TaskPool ------------------------------
(***************************************************************************)
(* What a scheduler promises to those who use it, without threads, fibers  *)
(* or a queue: a callback that is submitted is entered once and then ends, *)
(* and once stop() has returned nothing is submitted, entered or ended.    *)
(***************************************************************************)
CONSTANT Cbs

VARIABLES state,     \* of each callback
          joined     \* stop() has returned

vars == <<state, joined>>

Init == state = [c \in Cbs |-> "new"] /\ joined = FALSE

Advance(c, from, to) ==
    /\ ~joined
    /\ state[c] = from
    /\ state' = [state EXCEPT ![c] = to]
    /\ UNCHANGED joined

Submit(c) == Advance(c, "new", "queued")
Enter(c) == Advance(c, "queued", "running")
End(c) == Advance(c, "running", "done")
Move == \E c \in Cbs : Submit(c) \/ Enter(c) \/ End(c)
Join == ~joined /\ joined' = TRUE /\ UNCHANGED state

\* stop() waits for all that was submitted.
JoinAll == Join /\ \A c \in Cbs : state[c] \in {"new", "done"}

Next == Move \/ Join
Spec == Init /\ [][Next]_vars

\* The stronger pool: nothing that was submitted is left out.
DrainSafety == Init /\ [][Move \/ JoinAll]_vars
DrainSpec == /\ DrainSafety
             /\ \A c \in Cbs : WF_vars(Enter(c)) /\ WF_vars(End(c))
=============================================================================
