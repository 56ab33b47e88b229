----------------------------- MODULE HookProofs -----------------------------
(***************************************************************************)
(* Proofs about Hook, for every set of fibers and descriptors, one or many *)
(* scheduler threads and any number of calls.                              *)
(***************************************************************************)
EXTENDS Hook, TLAPS

\* Only a sleep has no descriptor, and it registers no event.
OpShape ==
    \A f \in Fibers : op[f] # NoOp =>
       /\ op[f].kind = "sleep" <=> op[f].fd = Null
       /\ op[f].kind = "sleep" => op[f].at \in {"arm", "yield", "parked"}
       /\ op[f].kind = "sleep" => ~Held(f)

\* A sleep is ended by one thing: its timer, then the callback of it, then
\* the place in the run queue.
SleepOnce ==
    /\ \A f \in Fibers : op[f] # NoOp /\ op[f].kind = "sleep" /\ f \in timer => f \notin runq
    /\ \A c \in cbs : c.kind = "sleep" <=> c.fd = Null
    /\ \A c \in cbs : c.kind = "sleep" => c.at = "queued"
    /\ \A c \in cbs : c.kind = "sleep" =>
          /\ Waiting(c.f) /\ op[c.f].kind = "sleep"
          /\ c.f \notin runq \cup timer
    /\ \A b, c \in cbs : b.kind = "sleep" /\ c.kind = "sleep" /\ b.f = c.f => b = c

IndInv == TypeOK /\ WaitSettled /\ OpShape /\ SleepOnce

\* The variables have their types in the first state.
LEMMA InitInv == Init => IndInv
<1> SUFFICES ASSUME Init PROVE IndInv
  OBVIOUS
<1>1. TypeOK
  BY HookAssumption DEF Init, TypeOK
<1>2. WaitSettled
  BY DEF Init, WaitSettled, Held, HeldAt, NoOp
<1>3. OpShape /\ SleepOnce
  BY DEF Init, OpShape, SleepOnce
<1> QED
  BY <1>1, <1>2, <1>3 DEF IndInv

\* An operation that goes on keeps its shape, and one that ends has none.
LEMMA OpSteps ==
  ASSUME op \in [Fibers -> Ops \cup {NoOp}], NEW f \in Fibers
  PROVE  /\ op[f].at # "out" => op[f] \in Ops
         /\ \A l \in Labels : op[f].at # "out" /\ GoTo(f, l)
               => /\ op' \in [Fibers -> Ops \cup {NoOp}]
                  /\ op' = [op EXCEPT ![f] = op'[f]]
                  /\ op'[f] = [op[f] EXCEPT !.at = l]
         /\ Finish(f) => op' \in [Fibers -> Ops \cup {NoOp}]
<1>1. op[f].at # "out" => op[f] \in Ops
  BY DEF NoOp
<1>2. ASSUME NEW l \in Labels, op[f].at # "out", GoTo(f, l)
      PROVE  /\ op'[f] = [op[f] EXCEPT !.at = l]
             /\ op' = [op EXCEPT ![f] = op'[f]]
  BY <1>2 DEF GoTo
<1>3. ASSUME NEW l \in Labels, op[f].at # "out", GoTo(f, l)
      PROVE  op' \in [Fibers -> Ops \cup {NoOp}]
  <2>1. [op[f] EXCEPT !.at = l] \in Ops
    BY <1>1, <1>3 DEF Ops
  <2> QED
    BY <1>2, <1>3, <2>1
<1>4. Finish(f) => op' \in [Fibers -> Ops \cup {NoOp}]
  BY DEF Finish
<1> QED
  BY <1>1, <1>2, <1>3, <1>4

\* triggerEvent() keeps the types of the contexts and of the run queue.
LEMMA TriggerTypes ==
  ASSUME reg \in [Fds -> [Events -> Regs \cup {Null}]], runq \subseteq Fibers,
         NEW d \in Fds, NEW es \in SUBSET Events, Trigger(d, es)
  PROVE  reg' \in [Fds -> [Events -> Regs \cup {Null}]] /\ runq' \subseteq Fibers
BY DEF Trigger, Regs

\* Every step keeps the types.
LEMMA NextTypes ==
  ASSUME IndInv, [Next]_vars
  PROVE  TypeOK'
<1>0. TypeOK /\ WaitSettled /\ OpShape /\ SleepOnce
  BY DEF IndInv
<1> USE <1>0 DEF TypeOK, At, FiberTurn, Turn, kernelVars, ctxVars, waitVars
<1>1. ASSUME NEW f \in Fibers, NEW d \in Fds, NEW e \in Events, NEW kind \in {"io", "accept"},
             DoIo(f, kind, d, e)
      PROVE TypeOK'
  BY <1>1, HookAssumption DEF DoIo, BeginWait, Begin, Ops, Kinds, Waits, Labels
<1>2. ASSUME NEW f \in Fibers, NEW d \in Fds, NEW e \in Events, SetSockOpt(f, d, e)
      PROVE TypeOK'
  BY <1>2 DEF SetSockOpt
<1>3. ASSUME NEW f \in Fibers, NEW d \in Fds, NEW b \in BOOLEAN, Connect(f, d, b)
      PROVE TypeOK'
  BY <1>3, HookAssumption DEF Connect, BeginWait, Begin, Ops, Kinds, Waits, Labels, Events
<1>4. ASSUME NEW f \in Fibers, NEW d \in Fds, NEW b \in BOOLEAN, Fcntl(f, d, b) \/ Ioctl(f, d, b)
      PROVE TypeOK'
  BY <1>4 DEF Fcntl, Ioctl, SetUser, SetFlag
<1>5. ASSUME NEW f \in Fibers, NEW d \in Fds, Socket(f, d)
      PROVE TypeOK'
  BY <1>5, HookAssumption DEF Socket, OpenFd, Begin, Ops, Kinds, Waits, Labels, Events
<1>6. ASSUME NEW f \in Fibers, NEW d \in Fds, Close(f, d)
      PROVE TypeOK'
  BY <1>6 DEF Close, Begin, Ops, Kinds, Waits, Labels, Events
<1>7. ASSUME NEW f \in Fibers, NEW d \in Fds, TryAccepted(f, d)
      PROVE TypeOK'
  <2>1. op[f] \in Ops
    BY <1>7, OpSteps DEF TryAccepted
  <2>2. [op[f] EXCEPT !.at = "get", !.fd = d] \in Ops
    BY <2>1 DEF Ops, Labels
  <2>3. op' \in [Fibers -> Ops \cup {NoOp}]
    BY <1>7, <2>2 DEF TryAccepted
  <2>4. inc' \in [Fds -> 0..MaxInc] /\ open' \subseteq Fds
    BY <1>7, HookAssumption DEF TryAccepted, OpenFd
  <2> QED
    BY <1>7, <2>3, <2>4 DEF TryAccepted
<1>8. ASSUME NEW f \in Fibers, Sleep(f)
      PROVE TypeOK'
  BY <1>8, HookAssumption DEF Sleep, BeginWait, Begin, Ops, Kinds, Waits, Labels, Events
<1>9. ASSUME NEW f \in Fibers, TryDone(f) \/ Yield(f) \/ Woken(f) \/ Check(f)
      PROVE TypeOK'
  BY <1>9, OpSteps DEF TryDone, Yield, Woken, Disarm, Check, Labels
<1>10. ASSUME NEW f \in Fibers, TryAgain(f) \/ Arm(f) \/ Resume(f)
       PROVE TypeOK'
  BY <1>10, OpSteps DEF TryAgain, Wait, Arm, Resume, Labels
<1>11. ASSUME NEW f \in Fibers, AddEvent(f)
       PROVE TypeOK'
  <2>1. op[f] \in Ops /\ op[f].kind # "sleep" /\ op[f].fd \in Fds /\ op[f].ev \in Events
    BY <1>11, OpSteps DEF AddEvent, OpShape, Ops, NoOp
  <2>2. CASE AddDuplicate(f)
    BY <1>11, <2>2 DEF AddEvent, AddDuplicate
  <2>3. CASE AddRefused(f)
    BY <1>11, <2>3, OpSteps DEF AddEvent, AddRefused
  <2>4. CASE AddHeld(f)
    <3>1. op' \in [Fibers -> Ops \cup {NoOp}]
      BY <1>11, <2>4, OpSteps DEF AddEvent, AddHeld, Labels
    <3>2. reg' \in [Fds -> [Events -> Regs \cup {Null}]]
      BY <2>1, <2>4 DEF AddHeld, Regs
    <3> QED
      BY <1>11, <2>4, <3>1, <3>2 DEF AddEvent, AddHeld
  <2> QED
    BY <1>11, <2>2, <2>3, <2>4 DEF AddEvent
<1>12. ASSUME NEW f \in Fibers, Get(f) \/ Create(f) \/ Insert(f) \/ CloseF(f) \/ CloseDel(f)
       PROVE TypeOK'
  <2>1. op[f] \in Ops /\ op[f].kind # "sleep" /\ op[f].fd \in Fds
    BY <1>12, OpSteps DEF Get, Create, Insert, CloseF, CloseDel, OpShape, Ops, NoOp
  <2>2. CASE Get(f) \/ Create(f) \/ Insert(f)
    BY <2>1, <2>2, OpSteps DEF Get, Create, Insert, Labels
  <2>3. CASE CloseF(f) \/ CloseDel(f)
    BY <2>1, <2>3, OpSteps DEF CloseF, CloseDel, Labels
  <2> QED
    BY <1>12, <2>2, <2>3
<1>13. ASSUME NEW f \in Fibers, CloseCancelAll(f)
       PROVE TypeOK'
  <2>1. op[f] \in Ops /\ op[f].kind # "sleep" /\ op[f].fd \in Fds
    BY <1>13, OpSteps DEF CloseCancelAll, OpShape, Ops, NoOp
  <2>2. op' \in [Fibers -> Ops \cup {NoOp}]
    BY <1>13, OpSteps DEF CloseCancelAll, Labels
  <2>3. reg' \in [Fds -> [Events -> Regs \cup {Null}]] /\ runq' \subseteq Fibers
    BY <1>13, <2>1, TriggerTypes DEF CloseCancelAll, CancelAll
  <2> QED
    BY <1>13, <2>2, <2>3 DEF CloseCancelAll
<1>14. ASSUME NEW f \in Fibers, TimerFires(f)
       PROVE TypeOK'
  <2>1. op[f] \in Ops
    BY <1>14, OpSteps DEF TimerFires, WaitSettled
  <2> QED
    BY <1>14, <2>1 DEF TimerFires, Ops, Callbacks
<1>15. ASSUME NEW d \in Fds, NEW e \in Events, EventFires(d, e)
       PROVE TypeOK'
  BY <1>15, TriggerTypes DEF EventFires
<1>16. ASSUME NEW c \in cbs, CallbackSleep(c) \/ CallbackCheck(c)
       PROVE TypeOK'
  BY <1>16 DEF CallbackSleep, CallbackCheck, Callbacks
<1>17. ASSUME NEW c \in cbs, CallbackCancel(c)
       PROVE TypeOK'
  <2>1. c.ev \in Events /\ c.fd \in Fds \cup {Null}
    BY DEF Callbacks
  <2>2. CASE c.fd \in Fds
    BY <1>17, <2>1, <2>2, TriggerTypes DEF CallbackCancel, TimedOut, CancelEvent
  <2>3. CASE c.fd = Null
    BY <1>17, <2>3 DEF CallbackCancel, SleepOnce
  <2> QED
    BY <2>1, <2>2, <2>3
<1> QED
  BY <1>1, <1>2, <1>3, <1>4, <1>5, <1>6, <1>7, <1>8, <1>9, <1>10, <1>11, <1>12,
     <1>13, <1>14, <1>15, <1>16, <1>17 DEF Next, Halted, vars

----------------------------------------------------------------------------
(* The steps by what they do to the waits.                                 *)

WaitInv == WaitSettled /\ OpShape /\ SleepOnce

\* Nothing that the invariant speaks of changes.
LEMMA SameKeeps ==
  ASSUME IndInv, UNCHANGED <<reg, runq, timer, cbs, op>>
  PROVE  WaitInv'
BY DEF IndInv, WaitInv, WaitSettled, OpShape, SleepOnce, Held, HeldAt, Waiting

\* One fiber goes on in its call, and may arm or disarm its timer.
LEMMA MoveKeeps ==
  ASSUME IndInv, NEW f \in Fibers, NEW x \in Ops \cup {NoOp},
         op' = [op EXCEPT ![f] = x], UNCHANGED <<reg, runq, cbs>>,
         timer' \subseteq timer \cup {f},
         Waiting(f) => /\ x.at \in {"yield", "parked"}
                       /\ x.kind = op[f].kind /\ x.fd = op[f].fd
                       /\ timer' \subseteq timer,
         f \in timer' => x.at \in {"add", "yield", "parked", "woken"},
         x # NoOp => /\ x.kind = "sleep" <=> x.fd = Null
                     /\ x.kind = "sleep" => x.at \in {"arm", "yield", "parked"}
  PROVE  WaitInv'
<1>0. TypeOK /\ WaitSettled /\ OpShape /\ SleepOnce
  BY DEF IndInv
<1>1. op'[f] = x /\ \A g \in Fibers : g # f => op'[g] = op[g]
  BY <1>0 DEF TypeOK
<1>2. \A g \in Fibers, d \in Fds, e \in Events : HeldAt(g, d, e)' <=> HeldAt(g, d, e)
  BY DEF HeldAt
<1>3. \A g \in Fibers : (Held(g)' <=> Held(g)) /\ (Waiting(g) => Waiting(g)')
  BY <1>1, <1>2 DEF Held, Waiting
<1>4. WaitSettled'
  BY <1>0, <1>1, <1>2, <1>3 DEF WaitSettled
<1>5. OpShape'
  BY <1>0, <1>1, <1>3 DEF OpShape, WaitSettled, Waiting, NoOp
<1>6. SleepOnce'
  <2>1. ASSUME NEW g \in Fibers, op'[g] # NoOp, op'[g].kind = "sleep", g \in timer'
        PROVE  g \notin runq'
    BY <1>0, <1>1, <2>1 DEF SleepOnce, WaitSettled, Waiting, NoOp
  <2>2. ASSUME NEW c \in cbs, c.kind = "sleep"
        PROVE  /\ Waiting(c.f)' /\ op'[c.f].kind = "sleep"
               /\ c.f \notin runq' \cup timer'
    <3>1. c.f \in Fibers
      BY <1>0 DEF TypeOK, Callbacks
    <3> QED
      BY <1>0, <1>1, <1>3, <2>2, <3>1 DEF SleepOnce
  <2> QED
    BY <1>0, <2>1, <2>2 DEF SleepOnce
<1> QED
  BY <1>4, <1>5, <1>6 DEF WaitInv

\* Some events of a descriptor are triggered; nobody who waits moves.
LEMMA TriggerKeeps ==
  ASSUME IndInv, NEW d \in Fds, NEW es \in SUBSET Events, Trigger(d, es),
         timer' = timer, cbs' \subseteq cbs, op' \in [Fibers -> Ops \cup {NoOp}],
         \A g \in Fibers : \/ op'[g] = op[g]
                           \/ /\ op[g].at = "cancelAll"
                              /\ op'[g] = [op[g] EXCEPT !.at = "del"]
  PROVE  WaitInv'
<1>0. TypeOK /\ WaitSettled /\ OpShape /\ SleepOnce
  BY DEF IndInv
<1>1. ASSUME NEW g \in Fibers
      PROVE  /\ Waiting(g)' <=> Waiting(g)
             /\ Waiting(g) => op'[g] = op[g]
             /\ op'[g] = NoOp <=> op[g] = NoOp
             /\ op[g] # NoOp => op'[g].kind = op[g].kind /\ op'[g].fd = op[g].fd
             /\ op'[g].at = op[g].at \/ (op[g].at = "cancelAll" /\ op'[g].at = "del")
  <2>1. CASE op'[g] = op[g]
    BY <2>1 DEF Waiting
  <2>2. CASE op[g].at = "cancelAll" /\ op'[g] = [op[g] EXCEPT !.at = "del"]
    <3>1. op[g] \in Ops
      BY <1>0, <2>2, OpSteps DEF TypeOK
    <3>2. op'[g].at = "del" /\ op'[g].kind = op[g].kind /\ op'[g].fd = op[g].fd
      BY <2>2, <3>1 DEF Ops
    <3>3. op[g] # NoOp /\ op'[g] # NoOp
      BY <2>2, <3>2 DEF NoOp
    <3> QED
      BY <2>2, <3>2, <3>3 DEF Waiting
  <2> QED
    BY <2>1, <2>2
<1>2. ASSUME NEW g \in Fibers, NEW b \in Fds, NEW e \in Events
      PROVE  HeldAt(g, b, e)' <=> HeldAt(g, b, e) /\ ~(b = d /\ e \in es)
  BY <1>0 DEF TypeOK, HeldAt, Trigger
<1>3. ASSUME NEW g \in Fibers
      PROVE  g \in runq' <=> g \in runq \/ \E e \in es : HeldAt(g, d, e)
  BY DEF Trigger, HeldAt
<1>4. \A g \in Fibers : Held(g)' => Held(g)
  BY <1>2 DEF Held
<1>5. ASSUME NEW g \in Fibers, g \in runq' \ runq
      PROVE  Held(g) /\ ~Held(g)'
  <2>1. PICK e \in es : HeldAt(g, d, e)
    BY <1>3, <1>5
  <2>2. Held(g)
    BY <2>1 DEF Held
  <2>3. \A b \in Fds, a \in Events : HeldAt(g, b, a) => b = d /\ a = e
    BY <1>0, <2>1 DEF WaitSettled
  <2> QED
    BY <1>2, <2>1, <2>2, <2>3 DEF Held
<1>6. WaitSettled'
  BY <1>0, <1>1, <1>2, <1>3, <1>4, <1>5 DEF WaitSettled
<1>7. OpShape'
  BY <1>0, <1>1, <1>4 DEF OpShape
<1>8. SleepOnce'
  <2>1. ASSUME NEW g \in Fibers, op[g] # NoOp, op[g].kind = "sleep"
        PROVE  g \in runq' => g \in runq
    BY <1>0, <1>5, <2>1 DEF OpShape
  <2>2. ASSUME NEW c \in cbs, c.kind = "sleep"
        PROVE  c.f \in Fibers /\ op[c.f] # NoOp
    BY <1>0, <2>2 DEF TypeOK, Callbacks, SleepOnce, Waiting, NoOp
  <2> QED
    BY <1>0, <1>1, <2>1, <2>2 DEF SleepOnce
<1> QED
  BY <1>6, <1>7, <1>8 DEF WaitInv

\* addEvent() has succeeded: the fiber is held by one context.
LEMMA HeldKeeps ==
  ASSUME IndInv, NEW f \in Fibers, op[f].at = "add", AddHeld(f)
  PROVE  WaitInv'
<1> DEFINE d == op[f].fd
           e == op[f].ev
<1>0. TypeOK /\ WaitSettled /\ OpShape /\ SleepOnce
  BY DEF IndInv
<1>1. op[f] \in Ops /\ op[f] # NoOp /\ op[f].kind # "sleep" /\ d \in Fds /\ e \in Events
  BY <1>0, OpSteps DEF TypeOK, OpShape, Ops, NoOp
<1>2. /\ op'[f].at = "yield" /\ op'[f] # NoOp
      /\ op'[f].kind = op[f].kind /\ op'[f].fd = op[f].fd
      /\ \A g \in Fibers : g # f => op'[g] = op[g]
  BY <1>0, <1>1 DEF TypeOK, AddHeld, GoTo, Ops, NoOp
<1>3. ASSUME NEW g \in Fibers, NEW b \in Fds, NEW a \in Events
      PROVE  HeldAt(g, b, a)' <=> HeldAt(g, b, a) \/ (g = f /\ b = d /\ a = e)
  <2>1. reg'[b][a] = IF b = d /\ a = e THEN [f |-> f, inc |-> inc[d]] ELSE reg[b][a]
    BY <1>0, <1>1 DEF AddHeld, TypeOK
  <2>2. reg[d][e] = Null
    BY DEF AddHeld
  <2>3. [f |-> f, inc |-> inc[d]] # Null
    BY <1>0, <1>1, HookAssumption DEF TypeOK, Regs
  <2> QED
    BY <2>1, <2>2, <2>3 DEF HeldAt
<1>4. ~Waiting(f) /\ ~Held(f) /\ f \notin runq
  BY <1>0 DEF Waiting, WaitSettled
<1>5. \A g \in Fibers : /\ g # f => (Held(g)' <=> Held(g)) /\ (Waiting(g)' <=> Waiting(g))
                        /\ Waiting(f)'
  BY <1>2, <1>3 DEF Held, Waiting
<1>6. UNCHANGED <<runq, timer, cbs>>
  BY DEF AddHeld
<1>7. WaitSettled'
  BY <1>0, <1>2, <1>3, <1>4, <1>5, <1>6 DEF WaitSettled, Held
<1>8. OpShape'
  BY <1>0, <1>1, <1>2, <1>5 DEF OpShape
<1>9. SleepOnce'
  <2>1. ASSUME NEW c \in cbs, c.kind = "sleep"
        PROVE  c.f \in Fibers \ {f}
    BY <1>0, <1>4, <2>1 DEF TypeOK, Callbacks, SleepOnce
  <2> QED
    BY <1>0, <1>1, <1>2, <1>5, <1>6, <2>1 DEF SleepOnce
<1> QED
  BY <1>7, <1>8, <1>9 DEF WaitInv

\* The scheduler has taken the fiber from its queue.
LEMMA ResumeKeeps ==
  ASSUME IndInv, NEW f \in Fibers, Resume(f)
  PROVE  WaitInv'
<1>0. TypeOK /\ WaitSettled /\ OpShape /\ SleepOnce
  BY DEF IndInv
<1>1. op[f] \in Ops /\ op[f] # NoOp /\ op[f].at = "parked" /\ f \in runq
  BY <1>0, OpSteps DEF TypeOK, Resume, At, NoOp
<1>2. UNCHANGED <<reg, timer, cbs>> /\ runq' = runq \ {f}
  BY DEF Resume
<1>3. /\ \A g \in Fibers : g # f => op'[g] = op[g]
      /\ \/ op[f].kind = "sleep" /\ op'[f] = NoOp
         \/ /\ op[f].kind # "sleep" /\ op'[f].at = "woken"
            /\ op'[f].kind = op[f].kind /\ op'[f].fd = op[f].fd
  BY <1>0, <1>1 DEF TypeOK, Resume, Finish, GoTo, Ops
<1>4. \A g \in Fibers, d \in Fds, e \in Events : HeldAt(g, d, e)' <=> HeldAt(g, d, e)
  BY <1>2 DEF HeldAt
<1>5. \A g \in Fibers : (Held(g)' <=> Held(g)) /\ (g # f => (Waiting(g)' <=> Waiting(g)))
  BY <1>3, <1>4 DEF Held, Waiting
<1>6. ~Held(f) /\ (op[f].kind = "sleep" => f \notin timer)
  BY <1>0, <1>1 DEF WaitSettled, SleepOnce
<1>7. WaitSettled'
  BY <1>0, <1>2, <1>3, <1>4, <1>5, <1>6 DEF WaitSettled
<1>8. OpShape'
  BY <1>0, <1>1, <1>3, <1>5 DEF OpShape
<1>9. SleepOnce'
  <2>1. ASSUME NEW c \in cbs, c.kind = "sleep"
        PROVE  c.f \in Fibers \ {f}
    BY <1>0, <1>1, <2>1 DEF TypeOK, Callbacks, SleepOnce
  <2> QED
    BY <1>0, <1>2, <1>3, <1>5, <2>1 DEF SleepOnce
<1> QED
  BY <1>7, <1>8, <1>9 DEF WaitInv

\* A timer is collected: it is armed no more and its callback is queued.
LEMMA FireKeeps ==
  ASSUME IndInv, NEW f \in Fibers, TimerFires(f)
  PROVE  WaitInv'
<1> DEFINE n == [f |-> f, n |-> opn[f], kind |-> op[f].kind,
                 fd |-> op[f].fd, ev |-> op[f].ev, at |-> "queued"]
<1>0. TypeOK /\ WaitSettled /\ OpShape /\ SleepOnce
  BY DEF IndInv
<1>1. UNCHANGED <<reg, runq, op>> /\ timer' = timer \ {f} /\ cbs' = cbs \cup {n} /\ f \in timer
  BY DEF TimerFires
<1>2. op[f] \in Ops /\ op[f] # NoOp
  BY <1>0, <1>1, OpSteps DEF TypeOK, WaitSettled, NoOp
<1>3. WaitSettled' /\ OpShape'
  BY <1>0, <1>1 DEF WaitSettled, OpShape, Held, HeldAt, Waiting
<1>4. n.kind = "sleep" => /\ Waiting(f) /\ op[f].kind = "sleep" /\ f \notin runq \cup timer'
                          /\ \A c \in cbs : c.kind = "sleep" => c.f # f
  BY <1>0, <1>1, <1>2 DEF SleepOnce, WaitSettled, OpShape, Waiting
<1>5. (n.kind = "sleep" <=> n.fd = Null) /\ n.f = f /\ n.at = "queued"
  BY <1>0, <1>2 DEF OpShape
<1>6. \A g : Waiting(g)' <=> Waiting(g)
  BY <1>1 DEF Waiting
<1>7. SleepOnce'
  BY <1>0, <1>1, <1>4, <1>5, <1>6 DEF SleepOnce
<1> QED
  BY <1>3, <1>7 DEF WaitInv

\* The callback of a sleep schedules its fiber.
LEMMA WakeKeeps ==
  ASSUME IndInv, NEW c \in cbs, CallbackSleep(c)
  PROVE  WaitInv'
<1>0. TypeOK /\ WaitSettled /\ OpShape /\ SleepOnce
  BY DEF IndInv
<1>1. /\ UNCHANGED <<reg, timer, op>> /\ cbs' = cbs \ {c} /\ runq' = runq \cup {c.f}
      /\ c.kind = "sleep"
  BY DEF CallbackSleep
<1>2. c.f \in Fibers /\ Waiting(c.f) /\ op[c.f].kind = "sleep" /\ c.f \notin timer
  BY <1>0, <1>1 DEF TypeOK, Callbacks, SleepOnce
<1>3. op[c.f] # NoOp /\ ~Held(c.f)
  BY <1>0, <1>2 DEF OpShape, Waiting, NoOp
<1>4. \A g : (Waiting(g)' <=> Waiting(g)) /\ (Held(g)' <=> Held(g))
  BY <1>1 DEF Waiting, Held, HeldAt
<1>5. WaitSettled'
  BY <1>0, <1>1, <1>2, <1>3, <1>4 DEF WaitSettled, HeldAt
<1>6. OpShape'
  BY <1>0, <1>1, <1>4 DEF OpShape
<1>7. SleepOnce'
  BY <1>0, <1>1, <1>2, <1>4 DEF SleepOnce
<1> QED
  BY <1>5, <1>6, <1>7 DEF WaitInv

\* The callback of a wait looks at its timer_info.
LEMMA CheckKeeps ==
  ASSUME IndInv, NEW c \in cbs, CallbackCheck(c)
  PROVE  WaitInv'
<1>0. TypeOK /\ WaitSettled /\ OpShape /\ SleepOnce
  BY DEF IndInv
<1> DEFINE n == [c EXCEPT !.at = "cancel"]
<1>1. UNCHANGED <<reg, runq, timer, op>> /\ c.kind # "sleep"
  BY DEF CallbackCheck
<1>2. c \in Callbacks
  BY <1>0 DEF TypeOK
<1>3. n.kind = c.kind /\ n.fd = c.fd
  BY <1>2 DEF Callbacks
<1>4. cbs' \subseteq cbs \cup {n}
  BY DEF CallbackCheck
<1>5. WaitSettled' /\ OpShape'
  BY <1>0, <1>1 DEF WaitSettled, OpShape, Held, HeldAt, Waiting
<1>6. \A g : Waiting(g)' <=> Waiting(g)
  BY <1>1 DEF Waiting
<1>7. SleepOnce'
  BY <1>0, <1>1, <1>3, <1>4, <1>6 DEF SleepOnce
<1> QED
  BY <1>5, <1>7 DEF WaitInv

----------------------------------------------------------------------------
\* Every step keeps the invariant.
LEMMA NextInv ==
  ASSUME IndInv, [Next]_vars
  PROVE  IndInv'
<1>0. TypeOK /\ WaitSettled /\ OpShape /\ SleepOnce
  BY DEF IndInv
<1>a. TypeOK'
  BY NextTypes
<1> USE DEF At, kernelVars, ctxVars, waitVars
<1>1. ASSUME NEW f \in Fibers, op[f].at = "out"
      PROVE  /\ ~Waiting(f) /\ f \notin timer
             /\ Finish(f) => op' = [op EXCEPT ![f] = NoOp]
  BY <1>0, <1>1 DEF Waiting, WaitSettled, Finish
<1>2. ASSUME NEW f \in Fibers, NEW d \in Fds, NEW e \in Events, NEW kind \in {"io", "accept"},
             DoIo(f, kind, d, e)
      PROVE WaitInv'
  <2> DEFINE x == [kind |-> kind, at |-> "try", fd |-> d, ev |-> e, to |-> e \in timeout[d]]
  <2>1. x \in Ops /\ op' = [op EXCEPT ![f] = x] /\ op[f].at = "out"
    BY <1>2 DEF DoIo, BeginWait, Begin, Ops, Kinds, Waits, Labels
  <2>2. UNCHANGED <<reg, runq, timer, cbs>>
    BY <1>2 DEF DoIo
  <2> QED
    BY <1>1, <2>1, <2>2, MoveKeeps, HookAssumption
<1>3. ASSUME NEW f \in Fibers, NEW d \in Fds, NEW b \in BOOLEAN, Connect(f, d, b)
      PROVE WaitInv'
  <2> DEFINE x == [kind |-> "connect", at |-> IF b THEN "arm" ELSE "add", fd |-> d,
                   ev |-> "WRITE", to |-> b]
  <2>1. x \in Ops /\ op' = [op EXCEPT ![f] = x] /\ op[f].at = "out"
    BY <1>3 DEF Connect, BeginWait, Begin, Ops, Kinds, Waits, Labels, Events
  <2>2. UNCHANGED <<reg, runq, timer, cbs>>
    BY <1>3 DEF Connect
  <2> QED
    BY <1>1, <2>1, <2>2, MoveKeeps, HookAssumption
<1>4. ASSUME NEW f \in Fibers, Sleep(f)
      PROVE WaitInv'
  <2> DEFINE x == [kind |-> "sleep", at |-> "arm", fd |-> Null, ev |-> "READ", to |-> TRUE]
  <2>1. x \in Ops /\ op' = [op EXCEPT ![f] = x] /\ op[f].at = "out"
    BY <1>4 DEF Sleep, BeginWait, Begin, Ops, Kinds, Waits, Labels, Events
  <2>2. UNCHANGED <<reg, runq, timer, cbs>>
    BY <1>4 DEF Sleep
  <2> QED
    BY <1>1, <2>1, <2>2, MoveKeeps
<1>5. ASSUME NEW f \in Fibers, NEW d \in Fds, Socket(f, d) \/ Close(f, d)
      PROVE WaitInv'
  <2> DEFINE X(k, l) == [kind |-> k, at |-> l, fd |-> d, ev |-> "READ", to |-> FALSE]
  <2>1. /\ op[f].at = "out"
        /\ \E k \in {"socket", "close"}, l \in {"get", "cancelAll", "close_f"} :
              op' = [op EXCEPT ![f] = X(k, l)]
    BY <1>5 DEF Socket, Close, Begin
  <2>2. PICK k \in {"socket", "close"}, l \in {"get", "cancelAll", "close_f"} :
              op' = [op EXCEPT ![f] = X(k, l)]
    BY <2>1
  <2>3. X(k, l) \in Ops /\ X(k, l).kind # "sleep" /\ X(k, l).fd = d
    BY DEF Ops, Kinds, Labels, Events
  <2>4. UNCHANGED <<reg, runq, timer, cbs>>
    BY <1>5 DEF Socket, Close
  <2> HIDE DEF X
  <2> QED
    BY <1>1, <2>1, <2>2, <2>3, <2>4, MoveKeeps, HookAssumption
<1>6. ASSUME NEW f \in Fibers, NEW l \in Labels, GoTo(f, l), op[f].at \notin {"out", "parked"},
             UNCHANGED <<reg, runq, cbs>>, timer' \subseteq timer \cup {f},
             Waiting(f) => l = "parked" /\ timer' = timer,
             f \in timer' => l \in {"add", "yield", "parked", "woken"},
             op[f].kind = "sleep" => l \in {"yield", "parked"}
      PROVE WaitInv'
  <2> DEFINE x == [op[f] EXCEPT !.at = l]
  <2>1. op[f] \in Ops /\ op[f] # NoOp
    BY <1>0, <1>6, OpSteps DEF TypeOK, NoOp
  <2>2. x \in Ops /\ x.at = l /\ x.kind = op[f].kind /\ x.fd = op[f].fd
    BY <2>1 DEF Ops
  <2>3. op' = [op EXCEPT ![f] = x]
    BY <1>0, <1>6, OpSteps DEF TypeOK
  <2>4. x.kind = "sleep" <=> x.fd = Null
    BY <1>0, <2>1, <2>2 DEF OpShape
  <2> HIDE DEF x
  <2> QED
    BY <1>6, <2>2, <2>3, <2>4, MoveKeeps
<1>7. ASSUME NEW f \in Fibers, Finish(f), ~Waiting(f), f \notin timer',
             UNCHANGED <<reg, runq, cbs>>, timer' \subseteq timer
      PROVE WaitInv'
  BY <1>7, MoveKeeps DEF Finish
<1>8. ASSUME NEW f \in Fibers, NEW d \in Fds, TryAccepted(f, d)
      PROVE WaitInv'
  <2> DEFINE x == [op[f] EXCEPT !.at = "get", !.fd = d]
  <2>1. op[f] \in Ops /\ op[f].at = "try"
    BY <1>0, <1>8, OpSteps DEF TypeOK, TryAccepted
  <2>2. x \in Ops /\ x.kind = "accept" /\ x.fd = d
    BY <1>8, <2>1 DEF Ops, TryAccepted, Labels
  <2>3. op' = [op EXCEPT ![f] = x] /\ UNCHANGED <<reg, runq, timer, cbs>>
    BY <1>0, <1>8 DEF TypeOK, TryAccepted
  <2>4. ~Waiting(f) /\ f \notin timer
    BY <1>0, <2>1 DEF Waiting, WaitSettled
  <2> HIDE DEF x
  <2> QED
    BY <2>2, <2>3, <2>4, MoveKeeps, HookAssumption
<1>9. ASSUME NEW f \in Fibers, TryDone(f) \/ Insert(f) \/ CloseF(f)
      PROVE WaitInv'
  <2>1. ~Waiting(f) /\ f \notin timer
    BY <1>0, <1>9 DEF TryDone, Insert, CloseF, Waiting, WaitSettled
  <2> QED
    BY <1>7, <1>9, <2>1 DEF TryDone, Insert, CloseF
<1>10. ASSUME NEW f \in Fibers, TryAgain(f) \/ Create(f) \/ CloseDel(f)
       PROVE WaitInv'
  <2>1. ~Waiting(f) /\ f \notin timer /\ op[f].kind # "sleep"
    BY <1>0, <1>10 DEF TryAgain, Create, CloseDel, Waiting, WaitSettled, OpShape, NoOp
  <2> QED
    BY <1>6, <1>10, <2>1 DEF TryAgain, Wait, Create, CloseDel, Labels
<1>11. ASSUME NEW f \in Fibers, Check(f) \/ Get(f)
       PROVE WaitInv'
  <2>1. ~Waiting(f) /\ f \notin timer /\ op[f].kind # "sleep"
    BY <1>0, <1>11 DEF Check, Get, Waiting, WaitSettled, OpShape, NoOp
  <2>2. UNCHANGED <<reg, runq, cbs, timer>>
    BY <1>11 DEF Check, Get
  <2> QED
    BY <1>6, <1>7, <1>11, <2>1, <2>2 DEF Check, Get, Labels
<1>12. ASSUME NEW f \in Fibers, Arm(f)
       PROVE WaitInv'
  BY <1>6, <1>12 DEF Arm, Waiting, Labels
<1>13. ASSUME NEW f \in Fibers, Yield(f)
       PROVE WaitInv'
  BY <1>6, <1>13 DEF Yield, Labels
<1>14. ASSUME NEW f \in Fibers, Woken(f)
       PROVE WaitInv'
  <2>1. op[f].kind # "sleep"
    BY <1>0, <1>14 DEF Woken, OpShape, NoOp
  <2> QED
    BY <1>6, <1>14, <2>1 DEF Woken, Disarm, Waiting, Labels
<1>15. ASSUME NEW f \in Fibers, AddEvent(f)
       PROVE WaitInv'
  <2>1. CASE AddDuplicate(f)
    BY <2>1, SameKeeps DEF AddDuplicate
  <2>2. CASE AddRefused(f)
    BY <1>7, <1>15, <2>2 DEF AddEvent, AddRefused, Waiting
  <2>3. CASE AddHeld(f)
    BY <1>15, <2>3, HeldKeeps DEF AddEvent
  <2> QED
    BY <1>15, <2>1, <2>2, <2>3 DEF AddEvent
<1>16. ASSUME NEW f \in Fibers, CloseCancelAll(f)
       PROVE WaitInv'
  <2>1. op[f] \in Ops /\ op[f].kind # "sleep" /\ op[f].fd \in Fds
    BY <1>0, <1>16, OpSteps DEF TypeOK, CloseCancelAll, OpShape, Ops, NoOp
  <2>2. CASE Watched(op[f].fd)
    <3>1. Trigger(op[f].fd, Events)
      BY <1>16, <2>2 DEF CloseCancelAll, CancelAll
    <3>2. \A g \in Fibers : \/ op'[g] = op[g]
                            \/ /\ op[g].at = "cancelAll"
                               /\ op'[g] = [op[g] EXCEPT !.at = "del"]
      BY <1>0, <1>16 DEF TypeOK, CloseCancelAll, GoTo
    <3>3. op' \in [Fibers -> Ops \cup {NoOp}] /\ UNCHANGED <<timer, cbs>>
      BY <1>16, <1>a DEF TypeOK, CloseCancelAll
    <3> QED
      BY <2>1, <3>1, <3>2, <3>3, TriggerKeeps
  <2>3. CASE ~Watched(op[f].fd)
    <3>1. ~Waiting(f) /\ f \notin timer
      BY <1>0, <1>16 DEF CloseCancelAll, Waiting, WaitSettled
    <3> QED
      BY <1>6, <1>16, <2>1, <2>3, <3>1 DEF CloseCancelAll, CancelAll, Labels
  <2> QED
    BY <2>2, <2>3
<1>17. ASSUME NEW d \in Fds, NEW e \in Events, EventFires(d, e)
       PROVE WaitInv'
  BY <1>0, <1>17, TriggerKeeps DEF EventFires, TypeOK
<1>18. ASSUME NEW c \in cbs, CallbackCancel(c)
       PROVE WaitInv'
  <2>1. c.fd \in Fds /\ c.ev \in Events
    BY <1>0, <1>18 DEF CallbackCancel, SleepOnce, TypeOK, Callbacks
  <2>2. cbs' = cbs \ {c} /\ UNCHANGED <<timer, op>>
    BY <1>18 DEF CallbackCancel
  <2>3. CASE Trigger(c.fd, {c.ev})
    BY <1>0, <2>1, <2>2, <2>3, TriggerKeeps DEF TypeOK
  <2>4. CASE UNCHANGED <<reg, runq>>
    BY <1>0, <2>2, <2>4 DEF WaitInv, WaitSettled, OpShape, SleepOnce, Held, HeldAt, Waiting
  <2> QED
    BY <1>18, <2>3, <2>4 DEF CallbackCancel, TimedOut, CancelEvent
<1>19. ASSUME NEW f \in Fibers, NEW d \in Fds,
              \/ \E e \in Events : SetSockOpt(f, d, e)
              \/ \E b \in BOOLEAN : Fcntl(f, d, b) \/ Ioctl(f, d, b)
       PROVE WaitInv'
  BY <1>19, SameKeeps DEF SetSockOpt, Fcntl, Ioctl
<1>20. ASSUME UNCHANGED vars
       PROVE WaitInv'
  BY <1>20, SameKeeps DEF vars
<1>21. WaitInv'
  BY <1>2, <1>3, <1>4, <1>5, <1>8, <1>9, <1>10, <1>11, <1>12, <1>13, <1>14, <1>15,
     <1>16, <1>17, <1>18, <1>19, <1>20, ResumeKeeps, FireKeeps, WakeKeeps, CheckKeeps
     DEF Next, Halted
<1> QED
  BY <1>a, <1>21 DEF IndInv, WaitInv

\* The invariant holds in every behaviour of the hooked calls.
LEMMA HookInv == Spec => []IndInv
<1>1. Init => IndInv
  BY InitInv
<1>2. IndInv /\ [Next]_vars => IndInv'
  BY NextInv
<1> QED
  BY <1>1, <1>2, PTL DEF Spec

\* The contexts, timers and callbacks of the hooked calls have their types,
\* whatever order the threads take.
THEOREM HookTypes == Spec => []TypeOK
<1>1. IndInv => TypeOK
  BY DEF IndInv
<1> QED
  BY <1>1, HookInv, PTL

\* However event, timeout callback and close() race, a call of do_io() or
\* connect() is held by one event context, scheduled once for each wait, and
\* leaves neither a registration nor a timer behind when it returns.
THEOREM WaitsSettle == Spec => []WaitSettled
<1>1. IndInv => WaitSettled
  BY DEF IndInv
<1> QED
  BY <1>1, HookInv, PTL

----------------------------------------------------------------------------
(* Descriptors and their contexts.                                         *)

\* A fiber between open and the return of socket() or accept(), or in close().
Owning(f) == op[f].at \in {"get", "create", "insert", "cancelAll", "del", "close_f"}

\* It alone has the number; close_f() comes after the context is gone, and
\* the context after the kernel's flag is set.
OwnInv ==
    /\ \A f \in Fibers : Owning(f) => op[f].fd \in open
    /\ \A f, g \in Fibers : Owning(f) /\ Owning(g) /\ op[f].fd = op[g].fd => f = g
    /\ \A f \in Fibers : op[f].at = "close_f" => op[f].fd \notin m_datas
    /\ \A f \in Fibers : op[f].at = "insert" => op[f].fd \in nonblock \cup cleared
    /\ ManagedNonblock

(* One scheduler thread.                                                   *)

\* At most one fiber or one callback has begun and not yet yielded.
OneActs ==
    /\ \A f, g \in Fibers : ~Quiet(f) /\ ~Quiet(g) => f = g
    /\ \A c \in cbs : c.at = "cancel" =>
          /\ \A f \in Fibers : Quiet(f)
          /\ \A b \in cbs : b.at = "cancel" => b = c

\* Every registration is for what the number is open as, because close() finds
\* a context of every number it is given and cancels all before close_f().
RegLive ==
    /\ \A d \in Fds, e \in Events : reg[d][e] # Null => Live(d, e)
    /\ \A d \in open \ m_datas :
          \E f \in Fibers : op[f].at \in {"get", "create", "insert", "close_f"} /\ op[f].fd = d
    /\ \A f \in Fibers : op[f].at \in {"del", "close_f"} =>
          \A e \in Events : reg[op[f].fd][e] = Null

\* Who waits is reached.
Reached(f) ==
    \/ f \in runq \/ Held(f)
    \/ op[f].kind = "sleep" /\ (f \in timer \/ \E c \in cbs : c.f = f /\ c.kind = "sleep")
WaitersReached == \A f \in Fibers : Waiting(f) => Reached(f)

SingleInv == OwnInv /\ OneActs /\ RegLive /\ WaitersReached

\* The callbacks of the wait a fiber is in are for the event it waits for, a
\* timer_info that says ETIMEDOUT is that of a fiber that goes to look at it,
\* and the timer is armed until its callback is collected.
InWait(f) == op[f].at \in {"try", "arm", "add", "yield", "parked", "woken", "check"}
Mine(c, f) == c.f = f /\ c.n = opn[f]
Timed(f) ==
    /\ InWait(f) => /\ \A c \in cbs : Mine(c, f) => c.fd = op[f].fd /\ c.ev = op[f].ev
                    /\ \A d \in Fds, e \in Events : HeldAt(f, d, e) => d = op[f].fd /\ e = op[f].ev
    /\ InWait(f) /\ f \in cancelled =>
          /\ op[f].at \in {"parked", "woken", "check"}
          /\ op[f].at = "parked" => f \in runq \/ \E c \in cbs : Mine(c, f) /\ c.at = "cancel"
    /\ InWait(f) /\ op[f].to =>
          /\ op[f].at = "add" => f \in timer
          /\ Waiting(f) => f \in runq \/ f \in timer \/ \E c \in cbs : Mine(c, f)
TimedInv == /\ \A c \in cbs : c.n <= opn[c.f]
            /\ \A f \in Fibers : Timed(f)

\* A step that opens and closes nothing and moves one fiber, which owns no
\* number that it did not own before.
LEMMA OwnKept ==
  ASSUME IndInv, OwnInv, NEW f \in Fibers, \A g \in Fibers \ {f} : op'[g] = op[g],
         UNCHANGED <<open, m_datas>>, nonblock \cup cleared \subseteq nonblock' \cup cleared',
         Owning(f)' => Owning(f) /\ op'[f].fd = op[f].fd,
         op'[f].at = "close_f" => op'[f].fd \notin m_datas,
         op'[f].at = "insert" => op'[f].fd \in nonblock' \cup cleared'
  PROVE  OwnInv'
<1>1. \A g \in Fibers : Owning(g)' => Owning(g) /\ op'[g].fd = op[g].fd
  BY DEF Owning
<1>2. ManagedNonblock'
  BY DEF OwnInv, ManagedNonblock
<1>3. \A g \in Fibers : op'[g].at = "close_f" => op'[g].fd \notin m_datas'
  BY DEF OwnInv
<1>4. \A g \in Fibers : op'[g].at = "insert" => op'[g].fd \in nonblock' \cup cleared'
  BY DEF OwnInv
<1>5. \A g \in Fibers : Owning(g)' => op'[g].fd \in open'
  BY <1>1 DEF OwnInv
<1>6. \A g, h \in Fibers : Owning(g)' /\ Owning(h)' /\ op'[g].fd = op'[h].fd => g = h
  BY <1>1 DEF OwnInv
<1> QED
  BY <1>2, <1>3, <1>4, <1>5, <1>6 DEF OwnInv

\* Every step keeps to it.
LEMMA NextOwn ==
  ASSUME IndInv, OwnInv, Next
  PROVE  OwnInv'
<1>0. TypeOK /\ op \in [Fibers -> Ops \cup {NoOp}] /\ NoOp.at = "out"
  BY DEF IndInv, TypeOK, NoOp
<1> USE DEF At, kernelVars, ctxVars, waitVars
<1>1. ASSUME UNCHANGED <<open, m_datas, op>>,
             nonblock \cup cleared \subseteq nonblock' \cup cleared'
      PROVE  OwnInv'
  BY <1>1 DEF OwnInv, ManagedNonblock, Owning
<1>2. ASSUME NEW f \in Fibers, NEW l \in Labels, GoTo(f, l), op[f].at # "out"
      PROVE  /\ \A g \in Fibers \ {f} : op'[g] = op[g]
             /\ op'[f].at = l /\ op'[f].fd = op[f].fd /\ op'[f].kind = op[f].kind
  <2>1. op'[f] = [op[f] EXCEPT !.at = l] /\ op[f] \in Ops
    BY <1>0, <1>2, OpSteps
  <2> QED
    BY <1>0, <1>2, <2>1 DEF GoTo, Ops
<1>3. ASSUME NEW f \in Fibers, Finish(f)
      PROVE  op'[f].at = "out" /\ \A g \in Fibers \ {f} : op'[g] = op[g]
  BY <1>0, <1>3 DEF Finish
<1>4. ASSUME NEW f \in Fibers, Finish(f), UNCHANGED <<open, m_datas, nonblock, cleared>>
      PROVE  OwnInv'
  BY <1>3, <1>4, OwnKept DEF Owning
<1>5. ASSUME NEW f \in Fibers, NEW l \in Labels \ {"get", "create", "insert", "cancelAll", "del", "close_f"},
             GoTo(f, l), op[f].at # "out", UNCHANGED <<open, m_datas, nonblock, cleared>>
      PROVE  OwnInv'
  BY <1>2, <1>5, OwnKept DEF Owning
<1>6. ASSUME NEW f \in Fibers, UNCHANGED <<open, m_datas, nonblock, cleared>>,
             \/ \E d \in Fds, e \in Events : DoIo(f, "io", d, e) \/ DoIo(f, "accept", d, e)
             \/ \E d \in Fds, b \in BOOLEAN : Connect(f, d, b)
             \/ Sleep(f)
      PROVE  OwnInv'
  <2>1. op'[f].at \in {"try", "arm", "add"} /\ \A g \in Fibers \ {f} : op'[g] = op[g]
    BY <1>0, <1>6 DEF DoIo, Connect, Sleep, BeginWait, Begin
  <2> QED
    BY <1>6, <2>1, OwnKept DEF Owning
<1>7. ASSUME NEW f \in Fibers,
             \/ \E d \in Fds, e \in Events : DoIo(f, "io", d, e) \/ DoIo(f, "accept", d, e)
             \/ \E d \in Fds, b \in BOOLEAN : Connect(f, d, b)
             \/ Sleep(f)
      PROVE  OwnInv'
  BY <1>6, <1>7 DEF DoIo, Connect, Sleep
<1>8. ASSUME NEW f \in Fibers, NEW d \in Fds,
             \/ \E e \in Events : SetSockOpt(f, d, e)
             \/ \E b \in BOOLEAN : Fcntl(f, d, b) \/ Ioctl(f, d, b)
      PROVE  OwnInv'
  BY <1>1, <1>8 DEF SetSockOpt, Fcntl, Ioctl, SetFlag
<1>9. ASSUME NEW f \in Fibers, NEW d \in Fds, Socket(f, d) \/ TryAccepted(f, d)
      PROVE  OwnInv'
  <2>1. /\ d \notin open /\ open' = open \cup {d}
        /\ UNCHANGED <<m_datas, nonblock, cleared>>
    BY <1>9 DEF Socket, TryAccepted, OpenFd
  <2>2. op'[f].at = "get" /\ op'[f].fd = d /\ \A g \in Fibers \ {f} : op'[g] = op[g]
    <3>1. CASE Socket(f, d)
      BY <1>0, <3>1 DEF Socket, Begin
    <3>2. CASE TryAccepted(f, d)
      <4>1. op[f] \in Ops
        BY <1>0, <3>2, OpSteps DEF TryAccepted
      <4> QED
        BY <1>0, <3>2, <4>1 DEF TryAccepted, Ops
    <3> QED
      BY <1>9, <3>1, <3>2
  <2>3. \A g \in Fibers \ {f} : Owning(g)' => Owning(g) /\ op'[g].fd = op[g].fd /\ op[g].fd # d
    BY <2>1, <2>2 DEF Owning, OwnInv
  <2>4. \A g, h \in Fibers : Owning(g)' /\ Owning(h)' /\ op'[g].fd = op'[h].fd => g = h
    BY <2>2, <2>3 DEF OwnInv
  <2>5. \A g \in Fibers : Owning(g)' => op'[g].fd \in open'
    BY <2>1, <2>2, <2>3 DEF OwnInv
  <2>6. ManagedNonblock'
    BY <2>1 DEF OwnInv, ManagedNonblock
  <2>7. \A g \in Fibers : /\ op'[g].at = "close_f" => op'[g].fd \notin m_datas'
                          /\ op'[g].at = "insert" => op'[g].fd \in nonblock' \cup cleared'
    BY <2>1, <2>2 DEF OwnInv
  <2> QED
    BY <2>4, <2>5, <2>6, <2>7 DEF OwnInv
<1>10. ASSUME NEW f \in Fibers, NEW d \in Fds, Close(f, d)
       PROVE  OwnInv'
  <2>1. /\ d \in open /\ UNCHANGED <<open, m_datas, nonblock, cleared>>
        /\ \A g \in Fibers : Owning(g) => op[g].fd # d
    BY <1>10 DEF Close, Owning
  <2>2. /\ op'[f].fd = d /\ \A g \in Fibers \ {f} : op'[g] = op[g]
        /\ op'[f].at = IF d \in m_datas THEN "cancelAll" ELSE "close_f"
    BY <1>0, <1>10 DEF Close, Begin
  <2>3. \A g \in Fibers \ {f} : Owning(g)' => Owning(g) /\ op'[g].fd = op[g].fd /\ op[g].fd # d
    BY <2>1, <2>2 DEF Owning
  <2>4. \A g, h \in Fibers : Owning(g)' /\ Owning(h)' /\ op'[g].fd = op'[h].fd => g = h
    BY <2>2, <2>3 DEF OwnInv
  <2>5. \A g \in Fibers : Owning(g)' => op'[g].fd \in open'
    BY <2>1, <2>2, <2>3 DEF OwnInv
  <2>6. ManagedNonblock'
    BY <2>1 DEF OwnInv, ManagedNonblock
  <2>7. \A g \in Fibers : /\ op'[g].at = "close_f" => op'[g].fd \notin m_datas'
                          /\ op'[g].at = "insert" => op'[g].fd \in nonblock' \cup cleared'
    BY <2>1, <2>2 DEF OwnInv
  <2> QED
    BY <2>4, <2>5, <2>6, <2>7 DEF OwnInv
<1>11. ASSUME NEW f \in Fibers, TryDone(f)
       PROVE  OwnInv'
  BY <1>4, <1>11 DEF TryDone
<1>12. ASSUME NEW f \in Fibers, TryAgain(f) \/ Arm(f) \/ Yield(f) \/ Woken(f) \/ Check(f) \/ Resume(f)
       PROVE  OwnInv'
  <2>1. UNCHANGED <<open, m_datas, nonblock, cleared>> /\ op[f].at # "out"
    BY <1>12 DEF TryAgain, Arm, Yield, Woken, Check, Resume
  <2>2. \/ Finish(f)
        \/ \E l \in {"arm", "add", "yield", "parked", "check", "try", "woken"} : GoTo(f, l)
    BY <1>12 DEF TryAgain, Arm, Yield, Woken, Check, Resume, Wait
  <2> QED
    BY <1>4, <1>5, <2>1, <2>2 DEF Labels
<1>13. ASSUME NEW f \in Fibers, AddEvent(f)
       PROVE  OwnInv'
  <2>1. UNCHANGED <<open, m_datas, nonblock, cleared>> /\ op[f].at # "out"
    BY <1>13 DEF AddEvent
  <2>2. Finish(f) \/ UNCHANGED op \/ GoTo(f, "yield")
    BY <1>13 DEF AddEvent, AddDuplicate, AddRefused, AddHeld
  <2> QED
    BY <1>1, <1>4, <1>5, <2>1, <2>2 DEF Labels
<1>14. ASSUME NEW f \in Fibers, Get(f) \/ CloseCancelAll(f)
       PROVE  OwnInv'
  <2>1. UNCHANGED <<open, m_datas, nonblock, cleared>> /\ op[f].at # "out" /\ Owning(f)
    BY <1>14 DEF Get, CloseCancelAll, Owning
  <2>2. Finish(f) \/ \E l \in {"create", "del"} : GoTo(f, l)
    BY <1>14 DEF Get, CloseCancelAll
  <2>3. ASSUME NEW l \in {"create", "del"}, GoTo(f, l)
        PROVE  OwnInv'
    BY <1>2, <2>1, <2>3, OwnKept DEF Labels
  <2> QED
    BY <1>4, <2>1, <2>2, <2>3
<1>15. ASSUME NEW f \in Fibers, Create(f)
       PROVE  OwnInv'
  <2>1. /\ UNCHANGED <<open, m_datas, cleared>> /\ Owning(f) /\ op[f].at # "out"
        /\ nonblock' = nonblock \cup {op[f].fd} /\ GoTo(f, "insert")
    BY <1>15 DEF Create, Owning
  <2> QED
    BY <1>2, <2>1, OwnKept DEF Labels
<1>16. ASSUME NEW f \in Fibers, Insert(f)
       PROVE  OwnInv'
  <2> DEFINE d == op[f].fd
  <2>1. /\ UNCHANGED <<open, nonblock, cleared>> /\ op[f].at = "insert" /\ Owning(f)
        /\ m_datas' = m_datas \cup {d} /\ Finish(f)
    BY <1>16 DEF Insert, Owning
  <2>2. op'[f].at = "out" /\ \A g \in Fibers \ {f} : op'[g] = op[g]
    BY <1>3, <2>1
  <2>3. \A g \in Fibers : Owning(g)' => Owning(g) /\ op'[g].fd = op[g].fd /\ op[g].fd # d
    BY <2>1, <2>2 DEF Owning, OwnInv
  <2>4. ManagedNonblock'
    BY <2>1 DEF OwnInv, ManagedNonblock
  <2>5. \A g \in Fibers : op'[g].at = "close_f" => op'[g].fd \notin m_datas'
    BY <2>1, <2>2, <2>3 DEF OwnInv, Owning
  <2>6. \A g \in Fibers : op'[g].at = "insert" => op'[g].fd \in nonblock' \cup cleared'
    BY <2>1, <2>2 DEF OwnInv
  <2> QED
    BY <2>1, <2>3, <2>4, <2>5, <2>6 DEF OwnInv
<1>17. ASSUME NEW f \in Fibers, CloseDel(f)
       PROVE  OwnInv'
  <2> DEFINE d == op[f].fd
  <2>1. /\ UNCHANGED <<open, nonblock, cleared>> /\ op[f].at = "del" /\ Owning(f)
        /\ m_datas' = m_datas \ {d} /\ GoTo(f, "close_f")
    BY <1>17 DEF CloseDel, Owning
  <2>2. /\ op'[f].at = "close_f" /\ op'[f].fd = d
        /\ \A g \in Fibers \ {f} : op'[g] = op[g]
    BY <1>2, <2>1 DEF Labels
  <2>3. \A g \in Fibers : Owning(g)' => Owning(g) /\ op'[g].fd = op[g].fd
    BY <2>1, <2>2 DEF Owning
  <2>4. ManagedNonblock'
    BY <2>1 DEF OwnInv, ManagedNonblock
  <2>5. \A g \in Fibers : op'[g].at = "close_f" => op'[g].fd \notin m_datas'
    BY <2>1, <2>2 DEF OwnInv
  <2>6. \A g \in Fibers : op'[g].at = "insert" => op'[g].fd \in nonblock' \cup cleared'
    BY <2>1, <2>2 DEF OwnInv
  <2> QED
    BY <2>1, <2>3, <2>4, <2>5, <2>6 DEF OwnInv
<1>18. ASSUME NEW f \in Fibers, CloseF(f)
       PROVE  OwnInv'
  <2> DEFINE d == op[f].fd
  <2>1. /\ op[f].at = "close_f" /\ Owning(f) /\ Finish(f) /\ UNCHANGED m_datas
        /\ open' = open \ {d} /\ nonblock' = nonblock \ {d} /\ cleared' = cleared \ {d}
    BY <1>18 DEF CloseF, Owning
  <2>2. op'[f].at = "out" /\ \A g \in Fibers \ {f} : op'[g] = op[g]
    BY <1>3, <2>1
  <2>3. \A g \in Fibers : Owning(g)' => Owning(g) /\ op'[g].fd = op[g].fd /\ op[g].fd # d
    BY <2>1, <2>2 DEF Owning, OwnInv
  <2>4. ManagedNonblock'
    BY <2>1 DEF OwnInv, ManagedNonblock
  <2>5. \A g \in Fibers : op'[g].at = "close_f" => op'[g].fd \notin m_datas'
    BY <2>1, <2>2 DEF OwnInv
  <2>6. \A g \in Fibers : op'[g].at = "insert" => op'[g].fd \in nonblock' \cup cleared'
    BY <2>1, <2>2, <2>3 DEF OwnInv, Owning
  <2> QED
    BY <2>1, <2>3, <2>4, <2>5, <2>6 DEF OwnInv
<1>19. ASSUME \/ \E f \in Fibers : TimerFires(f)
              \/ \E d \in Fds, e \in Events : EventFires(d, e)
              \/ \E c \in cbs : CallbackSleep(c) \/ CallbackCheck(c) \/ CallbackCancel(c)
              \/ Halted
       PROVE  OwnInv'
  BY <1>1, <1>19 DEF TimerFires, EventFires, CallbackSleep, CallbackCheck, CallbackCancel, Halted, vars
<1> QED
  BY <1>7, <1>8, <1>9, <1>10, <1>11, <1>12, <1>13, <1>14, <1>15, <1>16, <1>17, <1>18, <1>19
  DEF Next

\* A number in close(), socket() or accept() belongs to one fiber.
LEMMA OwnHolds == Spec => []OwnInv
<1>1. Init => OwnInv
  BY DEF Init, OwnInv, Owning, ManagedNonblock, NoOp
<1>2. IndInv /\ OwnInv /\ [Next]_vars => OwnInv'
  <2>1. ASSUME OwnInv, UNCHANGED vars
        PROVE  OwnInv'
    BY <2>1 DEF vars, kernelVars, ctxVars, OwnInv, Owning, ManagedNonblock
  <2> QED
    BY <2>1, NextOwn
<1> QED
  BY <1>1, <1>2, HookInv, PTL DEF Spec

\* A descriptor that FdManager knows is non-blocking in the kernel, whatever
\* the user sets with fcntl() and however often its number is used anew, so
\* that no hooked call stops a thread; ioctl(FIONBIO) alone undoes it.
THEOREM ManagedDescriptors == Spec => []ManagedNonblock
<1>1. OwnInv => ManagedNonblock
  BY DEF OwnInv
<1> QED
  BY <1>1, OwnHolds, PTL

----------------------------------------------------------------------------
(* One scheduler thread: who waits is reached.                             *)

\* The steps that a fiber takes.
FiberStep(f) ==
    \/ \E d \in Fds :
          \/ \E e \in Events : DoIo(f, "io", d, e) \/ DoIo(f, "accept", d, e)
          \/ \E e \in Events : SetSockOpt(f, d, e)
          \/ \E b \in BOOLEAN : Connect(f, d, b) \/ Fcntl(f, d, b) \/ Ioctl(f, d, b)
          \/ Socket(f, d) \/ Close(f, d) \/ TryAccepted(f, d)
    \/ Sleep(f) \/ TryDone(f) \/ TryAgain(f) \/ Arm(f) \/ AddEvent(f) \/ Yield(f)
    \/ Resume(f) \/ Woken(f) \/ Check(f) \/ Get(f) \/ Create(f)
    \/ Insert(f) \/ CloseCancelAll(f) \/ CloseDel(f) \/ CloseF(f)

\* A fiber steps in its turn, and moves no other.
LEMMA FiberSteps ==
  ASSUME IndInv, NEW f \in Fibers, FiberStep(f)
  PROVE  FiberTurn(f) /\ cbs' = cbs /\ \A g \in Fibers \ {f} : op'[g] = op[g]
<1>0. op \in [Fibers -> Ops \cup {NoOp}]
  BY DEF IndInv, TypeOK
<1>1. FiberTurn(f)
  BY DEF FiberStep, At, DoIo, Connect, Sleep, BeginWait, Begin, SetSockOpt, Fcntl, Ioctl, Socket,
     Close, TryAccepted, TryDone, TryAgain, Arm, AddEvent, Yield, Resume, Woken, Check, Get, Create,
     Insert, CloseCancelAll, CloseDel, CloseF
<1>2. cbs' = cbs
  BY DEF FiberStep, waitVars, DoIo, Connect, Sleep, BeginWait, SetSockOpt, Fcntl, Ioctl, Socket,
     Close, TryAccepted, TryDone, TryAgain, Arm, AddEvent, AddDuplicate, AddRefused, AddHeld, Yield,
     Resume, Woken, Check, Get, Create, Insert, CloseCancelAll, CloseDel, CloseF
<1>3. \/ op' = op
      \/ \E x : op' = [op EXCEPT ![f] = x]
      \/ \E l : GoTo(f, l)
  BY DEF FiberStep, waitVars, DoIo, Connect, Sleep, BeginWait, Begin, SetSockOpt, Fcntl, Ioctl,
     Socket, Close, TryAccepted, TryDone, TryAgain, Wait, Arm, AddEvent, AddDuplicate, AddRefused,
     AddHeld, Yield, Resume, Woken, Check, Get, Create, Insert, CloseCancelAll, CloseDel, CloseF,
     Finish
<1> QED
  BY <1>0, <1>1, <1>2, <1>3 DEF GoTo

\* The event loop and the callbacks move no fiber, and act while none acts.
LEMMA LoopSteps ==
  ASSUME ~Parallel,
         \/ \E f \in Fibers : TimerFires(f)
         \/ \E d \in Fds, e \in Events : EventFires(d, e)
         \/ \E c \in cbs : CallbackSleep(c) \/ CallbackCheck(c) \/ CallbackCancel(c)
  PROVE  op' = op /\ \A f \in Fibers : Quiet(f)
BY DEF TimerFires, EventFires, CallbackSleep, CallbackCheck, CallbackCancel, OthersTurn, Turn

\* With one thread nobody begins before the one that has begun yields.
LEMMA NextActs ==
  ASSUME ~Parallel, IndInv, OneActs, Next
  PROVE  OneActs'
<1>0. cbs \subseteq Callbacks
  BY DEF IndInv, TypeOK
<1>1. ASSUME NEW f \in Fibers, FiberStep(f)
      PROVE  OneActs'
  <2>1. cbs' = cbs /\ \A c \in cbs : c.at # "cancel"
    BY <1>1, FiberSteps DEF FiberTurn, Acting
  <2>2. \A g \in Fibers \ {f} : op'[g] = op[g] /\ Quiet(g)
    BY <1>1, FiberSteps DEF FiberTurn, Turn
  <2> QED
    BY <2>1, <2>2 DEF OneActs, Quiet
<1>2. ASSUME op' = op, \A f \in Fibers : Quiet(f), cbs' \subseteq Callbacks,
             \A b, c \in cbs' : b.at = "cancel" /\ c.at = "cancel" => b = c
      PROVE  OneActs'
  BY <1>2 DEF OneActs, Quiet
<1>3. ASSUME NEW f \in Fibers, TimerFires(f)
      PROVE  \A b, c \in cbs' : b.at = "cancel" /\ c.at = "cancel" => b = c
  BY <1>3 DEF TimerFires, OneActs
<1>4. ASSUME NEW c \in cbs, CallbackCheck(c)
      PROVE  \A a, b \in cbs' : a.at = "cancel" /\ b.at = "cancel" => a = b
  BY <1>4 DEF CallbackCheck, OneActs, OthersTurn, Acting
<1>5. ASSUME \/ \E d \in Fds, e \in Events : EventFires(d, e)
             \/ \E c \in cbs : CallbackSleep(c) \/ CallbackCancel(c)
      PROVE  \A a, b \in cbs' : a.at = "cancel" /\ b.at = "cancel" => a = b
  BY <1>5 DEF EventFires, CallbackSleep, CallbackCancel, OneActs
<1>6. TypeOK'
  BY NextTypes
<1>7. CASE Halted
  BY <1>7 DEF Halted, vars, waitVars, OneActs, Quiet
<1> QED
  BY <1>1, <1>2, <1>3, <1>4, <1>5, <1>6, <1>7, LoopSteps DEF Next, FiberStep, TypeOK

\* Who may bring a number into use, and who takes it out of use.
Opener(f) == op[f].at \in {"get", "create", "insert", "close_f"}
Closing(f) == op[f].at \in {"del", "close_f"}

\* Nothing is registered, opened or known anew, and nobody starts to close.
LEMMA LiveKept ==
  ASSUME IndInv, RegLive, UNCHANGED <<open, inc, m_datas>>,
         \A d \in Fds, e \in Events : reg'[d][e] \in {reg[d][e], Null},
         \A f \in Fibers : Opener(f) => \/ Opener(f)' /\ op'[f].fd = op[f].fd
                                        \/ op[f].fd \in m_datas,
         \A f \in Fibers : Closing(f)' => /\ op'[f].fd \in Fds
                                          /\ \/ Closing(f) /\ op'[f].fd = op[f].fd
                                             \/ \A e \in Events : reg'[op'[f].fd][e] = Null
  PROVE  RegLive'
<1>1. \A d \in Fds, e \in Events : reg'[d][e] # Null => Live(d, e)'
  BY DEF RegLive, Live
<1>2. ASSUME NEW d \in open \ m_datas
      PROVE  \E f \in Fibers : Opener(f)' /\ op'[f].fd = d
  <2>1. PICK f \in Fibers : Opener(f) /\ op[f].fd = d
    BY <1>2 DEF RegLive, Opener
  <2> QED
    BY <1>2, <2>1
<1>3. ASSUME NEW f \in Fibers, Closing(f)', NEW e \in Events
      PROVE  reg'[op'[f].fd][e] = Null
  BY <1>3 DEF RegLive, Closing
<1> QED
  BY <1>1, <1>2, <1>3 DEF RegLive, Opener, Closing

\* The contexts after triggerEvent().
LEMMA TriggerRegs ==
  ASSUME IndInv, NEW d \in Fds, NEW es \in SUBSET Events, Trigger(d, es)
  PROVE  \A b \in Fds, e \in Events :
            reg'[b][e] = IF b = d /\ e \in es THEN Null ELSE reg[b][e]
BY DEF IndInv, TypeOK, Trigger

\* With one thread a number is not closed, nor opened anew, while a context
\* holds a fiber for it.
LEMMA NextLive ==
  ASSUME ~Parallel, IndInv, OwnInv, OneActs, RegLive, Next
  PROVE  RegLive'
<1>0. /\ TypeOK /\ op \in [Fibers -> Ops \cup {NoOp}] /\ NoOp.at = "out"
      /\ reg \in [Fds -> [Events -> Regs \cup {Null}]] /\ inc \in [Fds -> 0..MaxInc]
      /\ open \subseteq Fds
  BY DEF IndInv, TypeOK, NoOp
<1> USE DEF At, kernelVars, ctxVars, waitVars
<1>a. \A f \in Fibers : Owning(f) => op[f].fd \in Fds
  BY <1>0 DEF OwnInv
<1>b. \A f \in Fibers : Closing(f) => Owning(f)
  BY DEF Closing, Owning
<1>1. ASSUME UNCHANGED <<open, inc, m_datas>>, NEW f \in Fibers,
             \A d \in Fds, e \in Events : reg'[d][e] \in {reg[d][e], Null},
             \A g \in Fibers \ {f} : op'[g] = op[g],
             Opener(f) => \/ Opener(f)' /\ op'[f].fd = op[f].fd
                          \/ op[f].fd \in m_datas,
             ~Closing(f)'
      PROVE  RegLive'
  <2>1. \A g \in Fibers : Opener(g) => \/ Opener(g)' /\ op'[g].fd = op[g].fd
                                       \/ op[g].fd \in m_datas
    BY <1>1 DEF Opener
  <2>2. \A g \in Fibers : Closing(g)' => g # f /\ Closing(g) /\ op'[g].fd = op[g].fd
    BY <1>1 DEF Closing
  <2> QED
    BY <1>1, <1>a, <1>b, <2>1, <2>2, LiveKept
<1>2. ASSUME NEW f \in Fibers, NEW l \in Labels, GoTo(f, l), op[f].at # "out"
      PROVE  /\ \A g \in Fibers \ {f} : op'[g] = op[g]
             /\ op'[f].at = l /\ op'[f].fd = op[f].fd /\ op'[f].ev = op[f].ev
  <2>1. op'[f] = [op[f] EXCEPT !.at = l] /\ op[f] \in Ops
    BY <1>0, <1>2, OpSteps
  <2> QED
    BY <1>0, <1>2, <2>1 DEF GoTo, Ops
<1>3. ASSUME NEW f \in Fibers, Finish(f)
      PROVE  op'[f].at = "out" /\ \A g \in Fibers \ {f} : op'[g] = op[g]
  BY <1>0, <1>3 DEF Finish
<1>4. ASSUME NEW f \in Fibers, Finish(f) \/ \E l \in Labels \ {"del", "close_f"} : GoTo(f, l),
             op[f].at # "out", ~Opener(f), UNCHANGED <<open, inc, m_datas, reg>>
      PROVE  RegLive'
  <2>1. op'[f].at \notin {"del", "close_f"} /\ \A g \in Fibers \ {f} : op'[g] = op[g]
    BY <1>2, <1>3, <1>4
  <2> QED
    BY <1>1, <1>4, <2>1 DEF Closing
<1>5. ASSUME NEW f \in Fibers,
             \/ \E d \in Fds, e \in Events : DoIo(f, "io", d, e) \/ DoIo(f, "accept", d, e)
             \/ \E d \in Fds, b \in BOOLEAN : Connect(f, d, b)
             \/ Sleep(f)
      PROVE  RegLive'
  <2>1. /\ op'[f].at \in {"try", "arm", "add"} /\ op[f].at = "out"
        /\ \A g \in Fibers \ {f} : op'[g] = op[g]
    BY <1>0, <1>5 DEF DoIo, Connect, Sleep, BeginWait, Begin
  <2>2. UNCHANGED <<open, inc, m_datas, reg>>
    BY <1>5 DEF DoIo, Connect, Sleep
  <2> QED
    BY <1>1, <2>1, <2>2 DEF Closing, Opener
<1>6. ASSUME UNCHANGED <<open, inc, m_datas, op>>,
             \A d \in Fds, e \in Events : reg'[d][e] \in {reg[d][e], Null}
      PROVE  RegLive'
  BY <1>6, <1>a, <1>b, LiveKept DEF Opener, Closing
<1>7. ASSUME NEW f \in Fibers, NEW d \in Fds,
             \/ \E e \in Events : SetSockOpt(f, d, e)
             \/ \E b \in BOOLEAN : Fcntl(f, d, b) \/ Ioctl(f, d, b)
      PROVE  RegLive'
  BY <1>6, <1>7 DEF SetSockOpt, Fcntl, Ioctl
<1>8. ASSUME NEW f \in Fibers, NEW d \in Fds, Socket(f, d) \/ TryAccepted(f, d)
      PROVE  RegLive'
  <2>1. /\ d \notin open /\ open' = open \cup {d} /\ UNCHANGED <<m_datas, reg>>
        /\ \A b \in Fds : b # d => inc'[b] = inc[b]
    BY <1>0, <1>8 DEF Socket, TryAccepted, OpenFd
  <2>2. /\ op'[f].at = "get" /\ op'[f].fd = d /\ \A g \in Fibers \ {f} : op'[g] = op[g]
        /\ ~Opener(f)
    <3>1. CASE Socket(f, d)
      BY <1>0, <3>1 DEF Socket, Begin, Opener
    <3>2. CASE TryAccepted(f, d)
      <4>1. op[f] \in Ops
        BY <1>0, <3>2, OpSteps DEF TryAccepted
      <4> QED
        BY <1>0, <3>2, <4>1 DEF TryAccepted, Ops, Opener
    <3> QED
      BY <1>8, <3>1, <3>2
  <2>3. \A b \in Fds, e \in Events : reg'[b][e] # Null => Live(b, e)'
    BY <2>1 DEF RegLive, Live
  <2>4. ASSUME NEW b \in open' \ m_datas'
        PROVE  \E g \in Fibers : Opener(g)' /\ op'[g].fd = b
    <3>1. CASE b = d
      BY <2>2, <3>1 DEF Opener
    <3>2. CASE b # d
      <4>1. PICK g \in Fibers : Opener(g) /\ op[g].fd = b
        BY <2>1, <2>4, <3>2 DEF RegLive, Opener
      <4> QED
        BY <2>2, <4>1 DEF Opener
    <3> QED
      BY <3>1, <3>2
  <2>5. \A g \in Fibers : Closing(g)' => g # f /\ Closing(g) /\ op'[g].fd = op[g].fd
    BY <2>2 DEF Closing
  <2>6. \A g \in Fibers : Closing(g)' => \A e \in Events : reg'[op'[g].fd][e] = Null
    BY <2>1, <2>5 DEF RegLive, Closing
  <2> QED
    BY <2>3, <2>4, <2>6 DEF RegLive, Opener, Closing
<1>9. ASSUME NEW f \in Fibers, NEW d \in Fds, Close(f, d)
      PROVE  RegLive'
  <2>1. /\ d \in open /\ UNCHANGED <<open, inc, m_datas, reg>> /\ op[f].at = "out"
        /\ \A g \in Fibers : Owning(g) => op[g].fd # d
    BY <1>9 DEF Close, Begin, Owning
  <2>2. d \in m_datas
    BY <2>1 DEF RegLive, Owning
  <2>3. op'[f].at = "cancelAll" /\ \A g \in Fibers \ {f} : op'[g] = op[g]
    BY <1>0, <1>9, <2>2 DEF Close, Begin
  <2> QED
    BY <1>1, <2>1, <2>3 DEF Opener, Closing
<1>10. ASSUME NEW f \in Fibers, TryDone(f) \/ TryAgain(f) \/ Arm(f) \/ Yield(f) \/ Woken(f) \/ Check(f)
                                \/ Resume(f)
       PROVE  RegLive'
  <2>1. UNCHANGED <<open, inc, m_datas, reg>> /\ op[f].at # "out" /\ ~Opener(f)
    BY <1>10 DEF TryDone, TryAgain, Arm, Yield, Woken, Check, Resume, Opener
  <2>2. \/ Finish(f)
        \/ \E l \in {"arm", "add", "yield", "parked", "check", "try", "woken"} : GoTo(f, l)
    BY <1>10 DEF TryDone, TryAgain, Arm, Yield, Woken, Check, Resume, Wait
  <2> QED
    BY <1>4, <2>1, <2>2 DEF Labels
<1>11. ASSUME NEW f \in Fibers, AddEvent(f)
       PROVE  RegLive'
  <2>1. UNCHANGED <<open, inc, m_datas>> /\ op[f].at = "add" /\ ~Opener(f)
    BY <1>11 DEF AddEvent, Opener
  <2>2. CASE AddDuplicate(f)
    BY <1>6, <2>1, <2>2 DEF AddDuplicate
  <2>3. CASE AddRefused(f)
    BY <1>4, <2>1, <2>3 DEF AddRefused
  <2>4. CASE AddHeld(f)
    <3> DEFINE d == op[f].fd
               a == op[f].ev
    <3>1. op[f] \in Ops /\ d \in Fds /\ a \in Events
      BY <1>0, <2>1, OpSteps DEF IndInv, OpShape, Ops
    <3>2. GoTo(f, "yield") /\ d \in open
      BY <2>4 DEF AddHeld, Watched, Live
    <3>3. /\ \A b \in Fds, e \in Events : b # d \/ e # a => reg'[b][e] = reg[b][e]
          /\ reg'[d][a] = [f |-> f, inc |-> inc[d]]
      BY <1>0, <2>4, <3>1 DEF AddHeld
    <3>4. \A b \in Fds, e \in Events : reg'[b][e] # Null => Live(b, e)'
      BY <2>1, <3>2, <3>3 DEF RegLive, Live
    <3>5. op'[f].at = "yield" /\ \A g \in Fibers \ {f} : op'[g] = op[g]
      BY <1>2, <2>1, <3>2 DEF Labels
    <3>6. \A g \in Fibers : ~Closing(g)'
      BY <2>1, <3>5 DEF OneActs, Quiet, Closing
    <3>7. \A b \in open' \ m_datas' : \E g \in Fibers : Opener(g)' /\ op'[g].fd = b
      BY <2>1, <3>5 DEF RegLive, Opener
    <3> QED
      BY <3>4, <3>6, <3>7 DEF RegLive, Opener, Closing
  <2> QED
    BY <1>11, <2>2, <2>3, <2>4 DEF AddEvent
<1>12. ASSUME NEW f \in Fibers, Get(f)
       PROVE  RegLive'
  <2>1. UNCHANGED <<open, inc, m_datas, reg>> /\ op[f].at = "get"
    BY <1>12 DEF Get
  <2>2. CASE op[f].fd \in m_datas
    BY <1>1, <1>3, <1>12, <2>1, <2>2 DEF Get, Closing
  <2>3. CASE op[f].fd \notin m_datas
    BY <1>1, <1>2, <1>12, <2>1, <2>3 DEF Get, Closing, Opener, Labels
  <2> QED
    BY <2>2, <2>3
<1>13. ASSUME NEW f \in Fibers, Create(f)
       PROVE  RegLive'
  <2>1. UNCHANGED <<open, inc, m_datas, reg>> /\ op[f].at = "create" /\ GoTo(f, "insert")
    BY <1>13 DEF Create
  <2> QED
    BY <1>1, <1>2, <2>1 DEF Closing, Opener, Labels
<1>14. ASSUME NEW f \in Fibers, Insert(f)
       PROVE  RegLive'
  <2>1. /\ UNCHANGED <<open, inc, reg>> /\ op[f].at = "insert" /\ Finish(f)
        /\ m_datas' = m_datas \cup {op[f].fd}
    BY <1>14 DEF Insert
  <2>2. op'[f].at = "out" /\ \A g \in Fibers \ {f} : op'[g] = op[g]
    BY <1>3, <2>1
  <2>3. \A b \in Fds, e \in Events : reg'[b][e] # Null => Live(b, e)'
    BY <2>1 DEF RegLive, Live
  <2>4. ASSUME NEW b \in open' \ m_datas'
        PROVE  \E g \in Fibers : Opener(g)' /\ op'[g].fd = b
    <3>1. PICK g \in Fibers : Opener(g) /\ op[g].fd = b
      BY <2>1, <2>4 DEF RegLive, Opener
    <3>2. g # f
      BY <2>1, <2>4, <3>1
    <3> QED
      BY <2>2, <3>1, <3>2 DEF Opener
  <2>5. \A g \in Fibers : Closing(g)' => Closing(g) /\ op'[g].fd = op[g].fd
    BY <2>2 DEF Closing
  <2>6. \A g \in Fibers : Closing(g)' => \A e \in Events : reg'[op'[g].fd][e] = Null
    BY <2>1, <2>5 DEF RegLive, Closing
  <2> QED
    BY <2>3, <2>4, <2>6 DEF RegLive, Opener, Closing
<1>15. ASSUME NEW f \in Fibers, CloseCancelAll(f)
       PROVE  RegLive'
  <2> DEFINE d == op[f].fd
  <2>1. /\ UNCHANGED <<open, inc, m_datas>> /\ op[f].at = "cancelAll" /\ GoTo(f, "del")
        /\ CancelAll(d) /\ d \in Fds
    BY <1>15, <1>a DEF CloseCancelAll, Owning
  <2>2. op'[f].at = "del" /\ op'[f].fd = d /\ \A g \in Fibers \ {f} : op'[g] = op[g]
    BY <1>2, <2>1 DEF Labels
  <2>3. /\ \A b \in Fds, e \in Events : reg'[b][e] \in {reg[b][e], Null}
        /\ \A e \in Events : reg'[d][e] = Null
    <3>1. CASE Watched(d)
      BY <2>1, <3>1, TriggerRegs DEF CancelAll
    <3>2. CASE ~Watched(d)
      BY <2>1, <3>2 DEF CancelAll, Watched, RegLive
    <3> QED
      BY <3>1, <3>2
  <2>4. \A g \in Fibers : Opener(g) => Opener(g)' /\ op'[g].fd = op[g].fd
    BY <2>1, <2>2 DEF Opener
  <2>5. \A g \in Fibers : Closing(g)' => /\ op'[g].fd \in Fds
                                         /\ \/ Closing(g) /\ op'[g].fd = op[g].fd
                                            \/ \A e \in Events : reg'[op'[g].fd][e] = Null
    BY <1>a, <1>b, <2>1, <2>2, <2>3 DEF Closing
  <2> QED
    BY <2>1, <2>3, <2>4, <2>5, LiveKept
<1>16. ASSUME NEW f \in Fibers, CloseDel(f)
       PROVE  RegLive'
  <2> DEFINE d == op[f].fd
  <2>1. /\ UNCHANGED <<open, inc, reg>> /\ op[f].at = "del" /\ GoTo(f, "close_f")
        /\ m_datas' = m_datas \ {d}
    BY <1>16 DEF CloseDel
  <2>2. op'[f].at = "close_f" /\ op'[f].fd = d /\ \A g \in Fibers \ {f} : op'[g] = op[g]
    BY <1>2, <2>1 DEF Labels
  <2>3. \A b \in Fds, e \in Events : reg'[b][e] # Null => Live(b, e)'
    BY <2>1 DEF RegLive, Live
  <2>4. ASSUME NEW b \in open' \ m_datas'
        PROVE  \E g \in Fibers : Opener(g)' /\ op'[g].fd = b
    <3>1. CASE b = d
      BY <2>2, <3>1 DEF Opener
    <3>2. CASE b # d
      <4>1. PICK g \in Fibers : Opener(g) /\ op[g].fd = b
        BY <2>1, <2>4, <3>2 DEF RegLive, Opener
      <4> QED
        BY <2>1, <2>2, <4>1 DEF Opener
    <3> QED
      BY <3>1, <3>2
  <2>5. \A g \in Fibers : Closing(g)' => Closing(g) /\ op'[g].fd = op[g].fd
    BY <2>1, <2>2 DEF Closing
  <2>6. \A g \in Fibers : Closing(g)' => \A e \in Events : reg'[op'[g].fd][e] = Null
    BY <2>1, <2>5 DEF RegLive, Closing
  <2> QED
    BY <2>3, <2>4, <2>6 DEF RegLive, Opener, Closing
<1>17. ASSUME NEW f \in Fibers, CloseF(f)
       PROVE  RegLive'
  <2> DEFINE d == op[f].fd
  <2>1. /\ UNCHANGED <<inc, m_datas, reg>> /\ op[f].at = "close_f" /\ Finish(f)
        /\ open' = open \ {d}
    BY <1>17 DEF CloseF
  <2>2. op'[f].at = "out" /\ \A g \in Fibers \ {f} : op'[g] = op[g]
    BY <1>3, <2>1
  <2>3. \A e \in Events : reg[d][e] = Null
    BY <2>1 DEF RegLive
  <2>4. \A b \in Fds, e \in Events : reg'[b][e] # Null => Live(b, e)'
    BY <2>1, <2>3 DEF RegLive, Live
  <2>5. ASSUME NEW b \in open' \ m_datas'
        PROVE  \E g \in Fibers : Opener(g)' /\ op'[g].fd = b
    <3>1. PICK g \in Fibers : Opener(g) /\ op[g].fd = b
      BY <2>1, <2>5 DEF RegLive, Opener
    <3>2. g # f
      BY <2>1, <2>5, <3>1
    <3> QED
      BY <2>2, <3>1, <3>2 DEF Opener
  <2>6. \A g \in Fibers : Closing(g)' => Closing(g) /\ op'[g].fd = op[g].fd
    BY <2>2 DEF Closing
  <2>7. \A g \in Fibers : Closing(g)' => \A e \in Events : reg'[op'[g].fd][e] = Null
    BY <2>1, <2>6 DEF RegLive, Closing
  <2> QED
    BY <2>4, <2>5, <2>7 DEF RegLive, Opener, Closing
<1>18. ASSUME NEW d \in Fds, NEW e \in Events, EventFires(d, e)
       PROVE  RegLive'
  <2>1. UNCHANGED <<open, inc, m_datas, op>> /\ Trigger(d, {e})
    BY <1>18 DEF EventFires
  <2> QED
    BY <1>6, <2>1, TriggerRegs
<1>19. ASSUME NEW c \in cbs, CallbackCancel(c)
       PROVE  RegLive'
  <2>1. UNCHANGED <<open, inc, m_datas, op>> /\ CancelEvent(c.fd, c.ev)
    BY <1>19 DEF CallbackCancel, TimedOut
  <2>2. c.fd \in Fds /\ c.ev \in Events
    BY <1>0, <1>19 DEF CallbackCancel, IndInv, SleepOnce, TypeOK, Callbacks
  <2> QED
    BY <1>6, <2>1, <2>2, TriggerRegs DEF CancelEvent
<1>20. ASSUME \/ \E f \in Fibers : TimerFires(f)
              \/ \E c \in cbs : CallbackSleep(c) \/ CallbackCheck(c)
              \/ Halted
       PROVE  RegLive'
  BY <1>6, <1>20 DEF TimerFires, CallbackSleep, CallbackCheck, Halted, vars
<1> QED
  BY <1>5, <1>7, <1>8, <1>9, <1>10, <1>11, <1>12, <1>13, <1>14, <1>15, <1>16, <1>17, <1>18,
     <1>19, <1>20 DEF Next

\* A step that takes nobody's place in the run queue, in a context, in a timer
\* or in a callback, and makes nobody wait.
LEMMA ReachedKept ==
  ASSUME IndInv, WaitersReached, runq \subseteq runq',
         \A g \in Fibers : Held(g) => Held(g)' \/ g \in runq',
         \A g \in Fibers : Waiting(g)' => Waiting(g) /\ op'[g].kind = op[g].kind,
         \A g \in timer : op[g].kind = "sleep" /\ Waiting(g) =>
              g \in timer' \/ \E c \in cbs' : c.f = g /\ c.kind = "sleep",
         \A c \in cbs : c.kind = "sleep" => c \in cbs' \/ c.f \in runq'
  PROVE  WaitersReached'
<1> SUFFICES ASSUME NEW g \in Fibers, Waiting(g)' PROVE Reached(g)'
  BY DEF WaitersReached
<1>1. Waiting(g) /\ op'[g].kind = op[g].kind /\ Reached(g)
  BY DEF WaitersReached
<1>2. CASE op[g].kind = "sleep" /\ \E c \in cbs : c.f = g /\ c.kind = "sleep"
  BY <1>1, <1>2 DEF Reached
<1>3. CASE op[g].kind = "sleep" /\ g \in timer
  BY <1>1, <1>3 DEF Reached
<1> QED
  BY <1>1, <1>2, <1>3 DEF Reached

\* Who is held by a context that is triggered is scheduled.
LEMMA TriggerReaches ==
  ASSUME IndInv, NEW d \in Fds, NEW es \in SUBSET Events, Trigger(d, es)
  PROVE  /\ runq \subseteq runq'
         /\ \A g \in Fibers : Held(g) => Held(g)' \/ g \in runq'
         /\ \A g \in Fibers, e \in es : HeldAt(g, d, e) => g \in runq'
         /\ \A g \in Fibers, b \in Fds, e \in Events : HeldAt(g, b, e)' => HeldAt(g, b, e)
<1>1. \A b \in Fds, e \in Events : reg'[b][e] = IF b = d /\ e \in es THEN Null ELSE reg[b][e]
  BY TriggerRegs
<1>2. \A g \in Fibers, e \in es : HeldAt(g, d, e) => g \in runq'
  BY DEF Trigger, HeldAt
<1>3. runq \subseteq runq'
  BY DEF Trigger
<1>4. \A g \in Fibers, b \in Fds, e \in Events :
         HeldAt(g, b, e) => HeldAt(g, b, e)' \/ (b = d /\ e \in es)
  BY <1>1 DEF HeldAt
<1>5. \A g \in Fibers, b \in Fds, e \in Events : HeldAt(g, b, e)' => HeldAt(g, b, e)
  BY <1>1 DEF HeldAt
<1> QED
  BY <1>2, <1>3, <1>4, <1>5 DEF Held

\* Whoever waits is reached, also with many threads.
LEMMA NextReached ==
  ASSUME IndInv, OwnInv, WaitersReached, Next
  PROVE  WaitersReached'
<1>0. /\ TypeOK /\ op \in [Fibers -> Ops \cup {NoOp}] /\ NoOp.at = "out"
      /\ reg \in [Fds -> [Events -> Regs \cup {Null}]]
  BY DEF IndInv, TypeOK, NoOp
<1> USE DEF At, kernelVars, ctxVars, waitVars
<1>1. ASSUME UNCHANGED <<reg, runq>>, timer \subseteq timer', cbs \subseteq cbs',
             NEW f \in Fibers, \A g \in Fibers \ {f} : op'[g] = op[g], ~Waiting(f)'
      PROVE  WaitersReached'
  <2>1. \A g \in Fibers : Held(g)' <=> Held(g)
    BY <1>1 DEF Held, HeldAt
  <2>2. \A g \in Fibers : Waiting(g)' => Waiting(g) /\ op'[g].kind = op[g].kind
    BY <1>1 DEF Waiting
  <2> QED
    BY <1>1, <2>1, <2>2, ReachedKept
<1>2. ASSUME UNCHANGED <<reg, runq, timer, cbs, op>>
      PROVE  WaitersReached'
  BY <1>2, ReachedKept DEF Held, HeldAt, Waiting
<1>3. ASSUME NEW f \in Fibers, NEW l \in Labels, GoTo(f, l), op[f].at # "out"
      PROVE  /\ \A g \in Fibers \ {f} : op'[g] = op[g]
             /\ op'[f].at = l /\ op'[f].fd = op[f].fd /\ op'[f].kind = op[f].kind
  <2>1. op'[f] = [op[f] EXCEPT !.at = l] /\ op[f] \in Ops
    BY <1>0, <1>3, OpSteps
  <2> QED
    BY <1>0, <1>3, <2>1 DEF GoTo, Ops
<1>4. ASSUME NEW f \in Fibers, Finish(f)
      PROVE  op'[f].at = "out" /\ \A g \in Fibers \ {f} : op'[g] = op[g]
  BY <1>0, <1>4 DEF Finish
<1>5. ASSUME NEW f \in Fibers,
             \/ Finish(f)
             \/ op[f].at # "out" /\ \E l \in Labels \ {"yield", "parked"} : GoTo(f, l)
      PROVE  ~Waiting(f)' /\ \A g \in Fibers \ {f} : op'[g] = op[g]
  BY <1>3, <1>4, <1>5 DEF Waiting
<1>6. ASSUME NEW f \in Fibers,
             \/ \E d \in Fds, e \in Events : DoIo(f, "io", d, e) \/ DoIo(f, "accept", d, e)
             \/ \E d \in Fds, b \in BOOLEAN : Connect(f, d, b)
             \/ Sleep(f)
             \/ \E d \in Fds : Socket(f, d) \/ Close(f, d)
      PROVE  WaitersReached'
  <2>1. /\ op'[f].at \in {"try", "arm", "add", "get", "cancelAll", "close_f"}
        /\ \A g \in Fibers \ {f} : op'[g] = op[g]
    BY <1>0, <1>6 DEF DoIo, Connect, Sleep, BeginWait, Begin, Socket, Close
  <2>2. UNCHANGED <<reg, runq, timer, cbs>>
    BY <1>6 DEF DoIo, Connect, Sleep, Socket, Close
  <2> QED
    BY <1>1, <2>1, <2>2 DEF Waiting
<1>7. ASSUME NEW f \in Fibers, NEW d \in Fds,
             \/ \E e \in Events : SetSockOpt(f, d, e)
             \/ \E b \in BOOLEAN : Fcntl(f, d, b) \/ Ioctl(f, d, b)
      PROVE  WaitersReached'
  BY <1>2, <1>7 DEF SetSockOpt, Fcntl, Ioctl
<1>8. ASSUME NEW f \in Fibers, NEW d \in Fds, TryAccepted(f, d)
      PROVE  WaitersReached'
  <2>1. op[f] \in Ops
    BY <1>0, <1>8, OpSteps DEF TryAccepted
  <2>2. op'[f].at = "get" /\ \A g \in Fibers \ {f} : op'[g] = op[g]
    BY <1>0, <1>8, <2>1 DEF TryAccepted, Ops
  <2> QED
    BY <1>1, <1>8, <2>2 DEF TryAccepted, Waiting
<1>9. ASSUME NEW f \in Fibers,
             \/ TryDone(f) \/ TryAgain(f) \/ Check(f) \/ Get(f) \/ Create(f) \/ Insert(f)
             \/ CloseDel(f) \/ CloseF(f)
      PROVE  WaitersReached'
  <2>1. UNCHANGED <<reg, runq, timer, cbs>>
    BY <1>9 DEF TryDone, TryAgain, Check, Get, Create, Insert, CloseDel, CloseF
  <2>2. \/ Finish(f)
        \/ op[f].at # "out" /\ \E l \in Labels \ {"yield", "parked"} : GoTo(f, l)
    BY <1>9 DEF TryDone, TryAgain, Wait, Check, Get, Create, Insert, CloseDel, CloseF, Labels
  <2> QED
    BY <1>1, <1>5, <2>1, <2>2
<1>10. ASSUME NEW f \in Fibers, Arm(f)
       PROVE  WaitersReached'
  <2>1. /\ UNCHANGED <<reg, runq, cbs>> /\ timer' = timer \cup {f} /\ op[f].at = "arm"
        /\ GoTo(f, IF op[f].kind = "sleep" THEN "yield" ELSE "add")
    BY <1>10 DEF Arm
  <2>2. CASE op[f].kind # "sleep"
    <3>1. GoTo(f, "add")
      BY <2>1, <2>2
    <3> QED
      BY <1>1, <1>5, <2>1, <3>1 DEF Labels
  <2>3. CASE op[f].kind = "sleep"
    <3>1. op'[f].kind = "sleep" /\ \A g \in Fibers \ {f} : op'[g] = op[g]
      BY <1>3, <2>1, <2>3 DEF Labels
    <3>2. Reached(f)'
      BY <2>1, <3>1 DEF Reached
    <3>3. ASSUME NEW g \in Fibers \ {f}, Waiting(g)'
          PROVE  Reached(g)'
      <4>1. Reached(g)
        BY <3>1, <3>3 DEF WaitersReached, Waiting
      <4> QED
        BY <2>1, <3>1, <4>1 DEF Reached, Held, HeldAt
    <3> QED
      BY <3>2, <3>3 DEF WaitersReached
  <2> QED
    BY <2>2, <2>3
<1>11. ASSUME NEW f \in Fibers, AddEvent(f)
       PROVE  WaitersReached'
  <2>1. op[f].at = "add" /\ op[f] \in Ops /\ op[f].kind # "sleep"
    BY <1>0, <1>11, OpSteps DEF AddEvent, IndInv, OpShape, NoOp
  <2>2. CASE AddDuplicate(f)
    BY <1>2, <2>2 DEF AddDuplicate
  <2>3. CASE AddRefused(f)
    <3>1. UNCHANGED <<reg, runq, cbs>> /\ timer' = timer \ {f} /\ Finish(f)
      BY <2>3 DEF AddRefused
    <3>2. op'[f].at = "out" /\ \A g \in Fibers \ {f} : op'[g] = op[g]
      BY <1>4, <3>1
    <3> QED
      BY <2>1, <3>1, <3>2, ReachedKept DEF Held, HeldAt, Waiting
  <2>4. CASE AddHeld(f)
    <3> DEFINE d == op[f].fd
               a == op[f].ev
    <3>1. d \in Fds /\ a \in Events
      BY <1>0, <2>1 DEF IndInv, OpShape, Ops, NoOp
    <3>2. UNCHANGED <<runq, timer, cbs>> /\ GoTo(f, "yield") /\ reg[d][a] = Null
      BY <2>4 DEF AddHeld
    <3>3. /\ \A b \in Fds, e \in Events : b # d \/ e # a => reg'[b][e] = reg[b][e]
          /\ reg'[d][a] = [f |-> f, inc |-> inc[d]]
      BY <1>0, <2>4, <3>1 DEF AddHeld
    <3>4. [f |-> f, inc |-> inc[d]] # Null
      BY <1>0, <3>1, HookAssumption DEF TypeOK, Regs
    <3>5. Held(f)'
      BY <3>1, <3>3, <3>4 DEF Held, HeldAt
    <3>6. \A g \in Fibers : Held(g) => Held(g)'
      BY <3>2, <3>3 DEF Held, HeldAt
    <3>7. op'[f].at = "yield" /\ \A g \in Fibers \ {f} : op'[g] = op[g]
      BY <1>3, <2>1, <3>2 DEF Labels
    <3>8. ASSUME NEW g \in Fibers \ {f}, Waiting(g)'
          PROVE  Reached(g)'
      <4>1. Reached(g)
        BY <3>7, <3>8 DEF WaitersReached, Waiting
      <4> QED
        BY <3>2, <3>6, <3>7, <4>1 DEF Reached
    <3> QED
      BY <3>5, <3>8 DEF WaitersReached, Reached
  <2> QED
    BY <1>11, <2>2, <2>3, <2>4 DEF AddEvent
<1>12. ASSUME NEW f \in Fibers, Yield(f)
       PROVE  WaitersReached'
  <2>1. UNCHANGED <<reg, runq, timer, cbs>> /\ op[f].at = "yield" /\ GoTo(f, "parked")
    BY <1>12 DEF Yield
  <2>2. op'[f].kind = op[f].kind /\ \A g \in Fibers \ {f} : op'[g] = op[g]
    BY <1>3, <2>1 DEF Labels
  <2>3. \A g \in Fibers : Waiting(g)' => Waiting(g) /\ op'[g].kind = op[g].kind
    BY <2>1, <2>2 DEF Waiting
  <2> QED
    BY <2>1, <2>3, ReachedKept DEF Held, HeldAt
<1>13. ASSUME NEW f \in Fibers, Resume(f) \/ Woken(f)
       PROVE  WaitersReached'
  <2>1. /\ UNCHANGED <<reg, cbs>> /\ runq \ {f} \subseteq runq' /\ timer \ {f} \subseteq timer'
        /\ op[f].at \in {"parked", "woken"}
        /\ Finish(f) \/ \E l \in {"woken", "check"} : GoTo(f, l)
    BY <1>13 DEF Resume, Woken, Disarm
  <2>2. ~Waiting(f)' /\ \A g \in Fibers \ {f} : op'[g] = op[g]
    BY <1>5, <2>1 DEF Labels
  <2>3. ASSUME NEW g \in Fibers \ {f}, Waiting(g)'
        PROVE  Reached(g)'
    <3>1. Reached(g)
      BY <2>2, <2>3 DEF WaitersReached, Waiting
    <3> QED
      BY <2>1, <2>2, <3>1 DEF Reached, Held, HeldAt
  <2> QED
    BY <2>2, <2>3 DEF WaitersReached
<1>14. ASSUME NEW f \in Fibers, CloseCancelAll(f)
       PROVE  WaitersReached'
  <2> DEFINE d == op[f].fd
  <2>1. /\ UNCHANGED <<timer, cbs>> /\ op[f].at = "cancelAll" /\ GoTo(f, "del") /\ CancelAll(d)
        /\ d \in Fds
    BY <1>0, <1>14 DEF CloseCancelAll, OwnInv, Owning, TypeOK
  <2>2. ~Waiting(f)' /\ \A g \in Fibers \ {f} : op'[g] = op[g]
    BY <1>5, <2>1 DEF Labels
  <2>3. runq \subseteq runq' /\ \A g \in Fibers : Held(g) => Held(g)' \/ g \in runq'
    <3>1. CASE Watched(d)
      BY <2>1, <3>1, TriggerReaches DEF CancelAll
    <3>2. CASE ~Watched(d)
      BY <2>1, <3>2 DEF CancelAll, Held, HeldAt
    <3> QED
      BY <3>1, <3>2
  <2>4. \A g \in Fibers : Waiting(g)' => Waiting(g) /\ op'[g].kind = op[g].kind
    BY <2>2 DEF Waiting
  <2> QED
    BY <2>1, <2>3, <2>4, ReachedKept
<1>15. ASSUME NEW d \in Fds, NEW e \in Events, EventFires(d, e)
       PROVE  WaitersReached'
  <2>1. UNCHANGED <<timer, cbs, op>> /\ Trigger(d, {e})
    BY <1>15 DEF EventFires
  <2> QED
    BY <2>1, TriggerReaches, ReachedKept DEF Waiting
<1>16. ASSUME NEW f \in Fibers, TimerFires(f)
       PROVE  WaitersReached'
  <2> DEFINE n == [f |-> f, n |-> opn[f], kind |-> op[f].kind,
                   fd |-> op[f].fd, ev |-> op[f].ev, at |-> "queued"]
  <2>1. UNCHANGED <<reg, runq, op>> /\ timer' = timer \ {f} /\ cbs' = cbs \cup {n}
    BY <1>16 DEF TimerFires
  <2>2. n \in cbs' /\ n.f = f /\ n.kind = op[f].kind
    BY <2>1
  <2> HIDE DEF n
  <2> QED
    BY <2>1, <2>2, ReachedKept DEF Held, HeldAt, Waiting
<1>17. ASSUME NEW c \in cbs, CallbackSleep(c)
       PROVE  WaitersReached'
  BY <1>17, ReachedKept DEF CallbackSleep, Held, HeldAt, Waiting
<1>18. ASSUME NEW c \in cbs, CallbackCheck(c)
       PROVE  WaitersReached'
  <2>1. /\ UNCHANGED <<reg, runq, timer, op>>
        /\ \A b \in cbs : b.kind = "sleep" => b \in cbs'
    BY <1>18 DEF CallbackCheck
  <2> QED
    BY <2>1, ReachedKept DEF Held, HeldAt, Waiting
<1>19. ASSUME NEW c \in cbs, CallbackCancel(c)
       PROVE  WaitersReached'
  <2>1. UNCHANGED <<timer, op>> /\ CancelEvent(c.fd, c.ev) /\ cbs' = cbs \ {c} /\ c.kind # "sleep"
    BY <1>19 DEF CallbackCancel, TimedOut, IndInv, SleepOnce
  <2>2. c.fd \in Fds /\ c.ev \in Events
    BY <1>0, <1>19 DEF CallbackCancel, IndInv, SleepOnce, TypeOK, Callbacks
  <2>3. runq \subseteq runq' /\ \A g \in Fibers : Held(g) => Held(g)' \/ g \in runq'
    <3>1. CASE Trigger(c.fd, {c.ev})
      BY <2>2, <3>1, TriggerReaches
    <3>2. CASE UNCHANGED <<reg, runq>>
      BY <3>2 DEF Held, HeldAt
    <3> QED
      BY <2>1, <3>1, <3>2 DEF CancelEvent
  <2> QED
    BY <2>1, <2>3, ReachedKept DEF Waiting
<1>20. CASE Halted
  BY <1>2, <1>20 DEF Halted, vars
<1> QED
  BY <1>6, <1>7, <1>8, <1>9, <1>10, <1>11, <1>12, <1>13, <1>14, <1>15, <1>16, <1>17, <1>18,
     <1>19, <1>20 DEF Next

\* All of it, with one scheduler thread.
LEMMA SingleHolds == ASSUME ~Parallel PROVE Spec => []SingleInv
<1>1. Init => SingleInv
  BY DEF Init, SingleInv, OwnInv, Owning, ManagedNonblock, OneActs, RegLive, WaitersReached,
     Waiting, Quiet, NoOp
<1>2. IndInv /\ SingleInv /\ [Next]_vars => SingleInv'
  <2>1. ASSUME SingleInv, UNCHANGED vars
        PROVE  SingleInv'
    BY <2>1 DEF vars, kernelVars, ctxVars, waitVars, SingleInv, OwnInv, Owning, ManagedNonblock,
       OneActs, Quiet, RegLive, Live, WaitersReached, Waiting, Reached, Held, HeldAt
  <2> QED
    BY <2>1, NextOwn, NextActs, NextLive, NextReached DEF SingleInv
<1> QED
  BY <1>1, <1>2, HookInv, PTL DEF Spec

\* With one scheduler thread no fiber that parked in do_io(), connect() or a
\* sleep is lost: it is scheduled, or its timer or callback is to come, or
\* epoll watches the descriptor for it, also when others close the descriptor
\* and open its number anew.
THEOREM ParkedStayReachable == ASSUME ~Parallel PROVE Spec => []ParkedReachable
<1>1. IndInv /\ SingleInv => ParkedReachable
  <2> SUFFICES ASSUME IndInv, SingleInv, NEW f \in Fibers, op[f].at = "parked"
               PROVE  \/ f \in runq
                      \/ op[f].kind = "sleep" /\ (f \in timer \/ \E c \in cbs : c.f = f /\ c.kind = "sleep")
                      \/ \E d \in Fds, e \in Events : HeldAt(f, d, e) /\ Live(d, e)
    BY DEF ParkedReachable
  <2>1. Reached(f)
    BY DEF SingleInv, WaitersReached, Waiting
  <2> QED
    BY <2>1 DEF Reached, Held, HeldAt, SingleInv, RegLive
<1> QED
  BY <1>1, HookInv, SingleHolds, PTL

----------------------------------------------------------------------------
(* One scheduler thread: who waits with a timeout is timed out.            *)

\* A fiber that goes on waiting, or not, for the same event in the same call.
LEMMA TimedKept ==
  ASSUME NEW g \in Fibers, Timed(g),
         op'[g] = op[g], opn'[g] = opn[g], cbs' = cbs,
         g \in cancelled' => g \in cancelled, g \in runq => g \in runq', g \in timer => g \in timer',
         \A d \in Fds, e \in Events : HeldAt(g, d, e)' => HeldAt(g, d, e)
  PROVE  Timed(g)'
<1>1. (InWait(g)' <=> InWait(g)) /\ (Waiting(g)' <=> Waiting(g)) /\ \A c : Mine(c, g)' <=> Mine(c, g)
  BY DEF InWait, Waiting, Mine
<1> QED
  BY <1>1 DEF Timed

\* With one thread the timer stays armed until its callback is collected, and
\* a callback that finds its wait still on ends it.
LEMMA NextTimed ==
  ASSUME ~Parallel, IndInv, SingleInv, TimedInv, Next
  PROVE  TimedInv'
<1>0. /\ TypeOK /\ WaitSettled /\ OpShape /\ SleepOnce
      /\ op \in [Fibers -> Ops \cup {NoOp}] /\ NoOp.at = "out"
      /\ reg \in [Fds -> [Events -> Regs \cup {Null}]] /\ opn \in [Fibers -> 0..MaxWaits]
      /\ cbs \subseteq Callbacks
  BY DEF IndInv, TypeOK, NoOp
<1>a. \A f \in Fibers : Timed(f)
  BY DEF TimedInv
<1>b. \A c \in cbs : c.f \in Fibers /\ c.n \in Nat /\ c.n <= opn[c.f]
  BY <1>0 DEF TimedInv, Callbacks
<1>c. \A f \in Fibers : op[f].at \notin {"yield", "parked"} =>
         \A d \in Fds, e \in Events : ~HeldAt(f, d, e)
  BY <1>0 DEF WaitSettled, Held, Waiting
<1> USE DEF At, kernelVars, ctxVars, waitVars
<1>1. ASSUME NEW f \in Fibers, \A g \in Fibers \ {f} : op'[g] = op[g] /\ opn'[g] = opn[g],
             cbs' = cbs, cancelled' \subseteq cancelled, timer \ {f} \subseteq timer',
             runq \ {f} \subseteq runq', opn'[f] \in Nat, opn'[f] >= opn[f],
             \A g \in Fibers \ {f}, d \in Fds, e \in Events : HeldAt(g, d, e)' => HeldAt(g, d, e),
             Timed(f)'
      PROVE  TimedInv'
  <2>1. \A g \in Fibers \ {f} : Timed(g)'
    BY <1>1, <1>a, TimedKept
  <2>2. \A c \in cbs : c.n <= opn'[c.f]
    BY <1>0, <1>1, <1>b
  <2> QED
    BY <1>1, <2>1, <2>2 DEF TimedInv
<1>2. ASSUME UNCHANGED <<op, opn, cbs, timer, cancelled>>, runq \subseteq runq',
             \A g \in Fibers, d \in Fds, e \in Events : HeldAt(g, d, e)' => HeldAt(g, d, e)
      PROVE  TimedInv'
  BY <1>2, <1>a, <1>b, TimedKept DEF TimedInv
<1>3. ASSUME NEW f \in Fibers, NEW l \in Labels, GoTo(f, l), op[f].at # "out"
      PROVE  /\ \A g \in Fibers \ {f} : op'[g] = op[g]
             /\ op'[f].at = l /\ op'[f].fd = op[f].fd /\ op'[f].ev = op[f].ev
             /\ op'[f].to = op[f].to
  <2>1. op'[f] = [op[f] EXCEPT !.at = l] /\ op[f] \in Ops
    BY <1>0, <1>3, OpSteps
  <2> QED
    BY <1>0, <1>3, <2>1 DEF GoTo, Ops
<1>4. ASSUME NEW f \in Fibers, Finish(f)
      PROVE  op'[f].at = "out" /\ \A g \in Fibers \ {f} : op'[g] = op[g]
  BY <1>0, <1>4 DEF Finish
<1>5. ASSUME NEW f \in Fibers, ~InWait(f)'
      PROVE  Timed(f)'
  BY <1>5 DEF Timed
<1>6. ASSUME NEW f \in Fibers, \A g \in Fibers \ {f} : op'[g] = op[g], ~InWait(f)',
             UNCHANGED <<reg, runq, cbs, cancelled, opn>>, timer \ {f} \subseteq timer'
      PROVE  TimedInv'
  BY <1>0, <1>1, <1>5, <1>6 DEF HeldAt
<1>7. ASSUME NEW f \in Fibers,
             \/ \E d \in Fds, e \in Events : DoIo(f, "io", d, e) \/ DoIo(f, "accept", d, e)
             \/ \E d \in Fds, b \in BOOLEAN : Connect(f, d, b)
             \/ Sleep(f)
      PROVE  TimedInv'
  <2>1. /\ op'[f].at \in {"try", "arm", "add"} /\ op[f].at = "out"
        /\ op'[f].at = "add" => ~op'[f].to
        /\ \A g \in Fibers \ {f} : op'[g] = op[g]
    BY <1>0, <1>7 DEF DoIo, Connect, Sleep, BeginWait, Begin
  <2>2. /\ UNCHANGED <<reg, runq, timer, cbs>> /\ cancelled' = cancelled \ {f}
        /\ opn' = [opn EXCEPT ![f] = @ + 1]
    BY <1>7 DEF DoIo, Connect, Sleep, BeginWait
  <2>3. opn'[f] = opn[f] + 1 /\ opn[f] \in Nat /\ \A g \in Fibers \ {f} : opn'[g] = opn[g]
    BY <1>0, <2>2
  <2>4. \A c \in cbs' : ~Mine(c, f)'
    BY <1>b, <2>2, <2>3 DEF Mine
  <2>5. \A d \in Fds, e \in Events : ~HeldAt(f, d, e)'
    BY <1>c, <2>1, <2>2 DEF HeldAt
  <2>6. Timed(f)'
    BY <2>1, <2>2, <2>4, <2>5 DEF Timed, Waiting
  <2> QED
    BY <1>1, <2>1, <2>2, <2>3, <2>6 DEF HeldAt
<1>8. ASSUME NEW f \in Fibers, NEW d \in Fds, Socket(f, d) \/ Close(f, d) \/ TryAccepted(f, d)
      PROVE  TimedInv'
  <2>1. op'[f].at \in {"get", "cancelAll", "close_f"} /\ \A g \in Fibers \ {f} : op'[g] = op[g]
    <3>1. CASE Socket(f, d) \/ Close(f, d)
      BY <1>0, <3>1 DEF Socket, Close, Begin
    <3>2. CASE TryAccepted(f, d)
      <4>1. op[f] \in Ops
        BY <1>0, <3>2, OpSteps DEF TryAccepted
      <4> QED
        BY <1>0, <3>2, <4>1 DEF TryAccepted, Ops
    <3> QED
      BY <1>8, <3>1, <3>2
  <2> QED
    BY <1>6, <1>8, <2>1 DEF InWait, Socket, Close, TryAccepted
<1>9. ASSUME NEW f \in Fibers, NEW d \in Fds,
             \/ \E e \in Events : SetSockOpt(f, d, e)
             \/ \E b \in BOOLEAN : Fcntl(f, d, b) \/ Ioctl(f, d, b)
      PROVE  TimedInv'
  BY <1>2, <1>9 DEF SetSockOpt, Fcntl, Ioctl, HeldAt
<1>10. ASSUME NEW f \in Fibers,
              \/ TryDone(f) \/ Get(f) \/ Create(f) \/ Insert(f) \/ CloseDel(f) \/ CloseF(f)
       PROVE  TimedInv'
  <2>1. UNCHANGED <<reg, runq, timer, cbs, cancelled, opn>>
    BY <1>10 DEF TryDone, Get, Create, Insert, CloseDel, CloseF
  <2>2. \/ Finish(f)
        \/ op[f].at # "out" /\ \E l \in {"create", "insert", "close_f"} : GoTo(f, l)
    BY <1>10 DEF TryDone, Get, Create, Insert, CloseDel, CloseF
  <2>3. ~InWait(f)' /\ \A g \in Fibers \ {f} : op'[g] = op[g]
    BY <1>3, <1>4, <2>2 DEF InWait, Labels
  <2> QED
    BY <1>6, <2>1, <2>3
<1>11. ASSUME NEW f \in Fibers, NEW l \in {"arm", "add", "yield", "parked", "check", "try", "woken"},
              op[f].at \in {"try", "arm", "add", "yield", "parked", "woken", "check"},
              GoTo(f, l), UNCHANGED <<cbs, cancelled, opn>>, timer \ {f} \subseteq timer',
              runq \ {f} \subseteq runq',
              \A g \in Fibers, d \in Fds, e \in Events : HeldAt(g, d, e)' =>
                 HeldAt(g, d, e) \/ (g = f /\ d = op[f].fd /\ e = op[f].ev),
              f \in cancelled => l \in {"woken", "check"},
              op[f].to => /\ l = "add" => f \in timer'
                          /\ l \in {"yield", "parked"} =>
                               f \in runq' \/ f \in timer' \/ \E c \in cbs : Mine(c, f)
       PROVE  TimedInv'
  <2>1. /\ op'[f].at = l /\ op'[f].fd = op[f].fd /\ op'[f].ev = op[f].ev /\ op'[f].to = op[f].to
        /\ \A g \in Fibers \ {f} : op'[g] = op[g]
    BY <1>3, <1>11 DEF Labels
  <2>2. Timed(f) /\ InWait(f) /\ \A c : Mine(c, f)' <=> Mine(c, f)
    BY <1>a, <1>11 DEF InWait, Mine
  <2>3. Timed(f)'
    BY <1>11, <2>1, <2>2 DEF Timed, Waiting
  <2> QED
    BY <1>0, <1>1, <1>11, <2>1, <2>3
<1>12. ASSUME NEW f \in Fibers, TryAgain(f)
       PROVE  TimedInv'
  <2>1. f \notin cancelled /\ op[f].at = "try" /\ UNCHANGED <<reg, runq, timer, cbs, cancelled, opn>>
    BY <1>12, <1>a DEF TryAgain, Timed, InWait
  <2>2. CASE op[f].to
    BY <1>11, <1>12, <2>1, <2>2 DEF TryAgain, Wait, HeldAt
  <2>3. CASE ~op[f].to
    BY <1>11, <1>12, <2>1, <2>3 DEF TryAgain, Wait, HeldAt
  <2> QED
    BY <2>2, <2>3
<1>13. ASSUME NEW f \in Fibers, Arm(f)
       PROVE  TimedInv'
  <2>1. /\ f \notin cancelled /\ op[f].at = "arm" /\ UNCHANGED <<reg, runq, cbs, cancelled, opn>>
        /\ timer' = timer \cup {f}
        /\ GoTo(f, "yield") \/ GoTo(f, "add")
    BY <1>13, <1>a DEF Arm, Timed, InWait
  <2> QED
    BY <1>11, <2>1 DEF HeldAt
<1>14. ASSUME NEW f \in Fibers, AddEvent(f)
       PROVE  TimedInv'
  <2>1. op[f].at = "add" /\ UNCHANGED <<opn>> /\ f \notin cancelled /\ (op[f].to => f \in timer)
    BY <1>14, <1>a DEF AddEvent, Timed, InWait
  <2>2. CASE AddDuplicate(f)
    BY <1>2, <2>1, <2>2 DEF AddDuplicate, HeldAt
  <2>3. CASE AddRefused(f)
    <3>1. UNCHANGED <<reg, runq, cbs, cancelled>> /\ timer' = timer \ {f} /\ Finish(f)
      BY <2>3 DEF AddRefused
    <3>2. ~InWait(f)' /\ \A g \in Fibers \ {f} : op'[g] = op[g]
      BY <1>4, <3>1 DEF InWait
    <3> QED
      BY <1>6, <2>1, <3>1, <3>2
  <2>4. CASE AddHeld(f)
    <3> DEFINE d == op[f].fd
               a == op[f].ev
    <3>1. d \in Fds /\ a \in Events
      BY <1>0, <2>1, OpSteps DEF OpShape, Ops, NoOp
    <3>2. UNCHANGED <<runq, timer, cbs, cancelled>> /\ GoTo(f, "yield")
      BY <2>4 DEF AddHeld
    <3>3. /\ \A b \in Fds, e \in Events : b # d \/ e # a => reg'[b][e] = reg[b][e]
          /\ reg'[d][a].f = f
      BY <1>0, <2>4, <3>1 DEF AddHeld
    <3>4. \A g \in Fibers, b \in Fds, e \in Events : HeldAt(g, b, e)' =>
             HeldAt(g, b, e) \/ (g = f /\ b = d /\ e = a)
      BY <3>3 DEF HeldAt
    <3> QED
      BY <1>11, <2>1, <3>2, <3>4
  <2> QED
    BY <1>14, <2>2, <2>3, <2>4 DEF AddEvent
<1>15. ASSUME NEW f \in Fibers, Yield(f)
       PROVE  TimedInv'
  <2>1. /\ f \notin cancelled /\ op[f].at = "yield" /\ GoTo(f, "parked")
        /\ UNCHANGED <<reg, runq, timer, cbs, cancelled, opn>>
        /\ op[f].to => f \in runq \/ f \in timer \/ \E c \in cbs : Mine(c, f)
    BY <1>15, <1>a DEF Yield, Timed, InWait, Waiting
  <2> QED
    BY <1>11, <2>1 DEF HeldAt
<1>16. ASSUME NEW f \in Fibers, Resume(f)
       PROVE  TimedInv'
  <2>1. /\ op[f].at = "parked" /\ runq' = runq \ {f} /\ UNCHANGED <<reg, timer, cbs, cancelled, opn>>
        /\ Finish(f) \/ GoTo(f, "woken")
    BY <1>16 DEF Resume
  <2>2. CASE GoTo(f, "woken")
    BY <1>11, <2>1, <2>2 DEF HeldAt
  <2>3. CASE Finish(f)
    <3>1. ~InWait(f)' /\ \A g \in Fibers \ {f} : op'[g] = op[g]
      BY <1>4, <2>3 DEF InWait
    <3> QED
      BY <1>0, <1>1, <1>5, <2>1, <3>1 DEF HeldAt
  <2> QED
    BY <2>1, <2>2, <2>3
<1>17. ASSUME NEW f \in Fibers, Woken(f)
       PROVE  TimedInv'
  <2>1. /\ op[f].at = "woken" /\ timer' = timer \ {f} /\ UNCHANGED <<reg, runq, cbs, cancelled, opn>>
        /\ GoTo(f, "check")
    BY <1>17 DEF Woken, Disarm
  <2> QED
    BY <1>11, <2>1 DEF HeldAt
<1>18. ASSUME NEW f \in Fibers, Check(f)
       PROVE  TimedInv'
  <2>1. /\ op[f].at = "check" /\ UNCHANGED <<reg, runq, timer, cbs, cancelled, opn>>
        /\ Finish(f) \/ (f \notin cancelled /\ GoTo(f, "try"))
    BY <1>18 DEF Check
  <2>2. CASE f \notin cancelled /\ GoTo(f, "try")
    BY <1>11, <2>1, <2>2 DEF HeldAt
  <2>3. CASE Finish(f)
    BY <1>4, <1>6, <2>1, <2>3 DEF InWait
  <2> QED
    BY <2>1, <2>2, <2>3
<1>19. ASSUME NEW f \in Fibers, CloseCancelAll(f)
       PROVE  TimedInv'
  <2> DEFINE d == op[f].fd
  <2>1. /\ UNCHANGED <<timer, cbs, cancelled, opn>> /\ op[f].at = "cancelAll" /\ GoTo(f, "del")
        /\ CancelAll(d) /\ d \in Fds
    BY <1>0, <1>19 DEF CloseCancelAll, SingleInv, OwnInv, Owning, TypeOK
  <2>2. ~InWait(f)' /\ \A g \in Fibers \ {f} : op'[g] = op[g]
    BY <1>3, <2>1 DEF InWait, Labels
  <2>3. /\ runq \subseteq runq'
        /\ \A g \in Fibers, b \in Fds, e \in Events : HeldAt(g, b, e)' => HeldAt(g, b, e)
    <3>1. CASE Watched(d)
      BY <2>1, <3>1, TriggerReaches DEF CancelAll
    <3>2. CASE ~Watched(d)
      BY <2>1, <3>2 DEF CancelAll, HeldAt
    <3> QED
      BY <3>1, <3>2
  <2> QED
    BY <1>0, <1>1, <1>5, <2>1, <2>2, <2>3
<1>20. ASSUME NEW d \in Fds, NEW e \in Events, EventFires(d, e)
       PROVE  TimedInv'
  <2>1. UNCHANGED <<timer, cbs, cancelled, op, opn>> /\ Trigger(d, {e})
    BY <1>20 DEF EventFires
  <2> QED
    BY <1>2, <2>1, TriggerReaches
<1>21. ASSUME UNCHANGED <<op, opn, timer>>, cbs' \subseteq cbs, cancelled' = cancelled,
              runq \subseteq runq',
              \A g \in Fibers, d \in Fds, e \in Events : HeldAt(g, d, e)' => HeldAt(g, d, e),
              \A g \in Fibers, c \in cbs \ cbs' : Mine(c, g) /\ Waiting(g) => g \in runq'
       PROVE  TimedInv'
  <2>1. ASSUME NEW g \in Fibers
        PROVE  Timed(g)'
    <3>1. /\ InWait(g)' <=> InWait(g)
          /\ Waiting(g)' <=> Waiting(g)
          /\ \A c : Mine(c, g)' <=> Mine(c, g)
      BY <1>21 DEF InWait, Waiting, Mine
    <3>2. InWait(g) => /\ \A c \in cbs' : Mine(c, g) => c.fd = op[g].fd /\ c.ev = op[g].ev
                       /\ \A d \in Fds, e \in Events : HeldAt(g, d, e)' =>
                             d = op[g].fd /\ e = op[g].ev
      BY <1>21, <1>a DEF Timed
    <3>3. InWait(g) /\ g \in cancelled =>
            /\ op[g].at \in {"parked", "woken", "check"}
            /\ op[g].at = "parked" => g \in runq' \/ \E c \in cbs' : Mine(c, g) /\ c.at = "cancel"
      BY <1>21, <1>a DEF Timed, Waiting
    <3>4. InWait(g) /\ op[g].to =>
            /\ op[g].at = "add" => g \in timer
            /\ Waiting(g) => g \in runq' \/ g \in timer \/ \E c \in cbs' : Mine(c, g)
      BY <1>21, <1>a DEF Timed
    <3> QED
      BY <1>21, <3>1, <3>2, <3>3, <3>4 DEF Timed
  <2> QED
    BY <1>21, <1>b, <2>1 DEF TimedInv
<1>22. ASSUME NEW c \in cbs, CallbackSleep(c)
       PROVE  TimedInv'
  BY <1>21, <1>22 DEF CallbackSleep, Mine, HeldAt
<1>23. ASSUME NEW c \in cbs, CallbackCancel(c)
       PROVE  TimedInv'
  <2>1. /\ UNCHANGED <<timer, cancelled, op, opn>> /\ CancelEvent(c.fd, c.ev)
        /\ cbs' = cbs \ {c} /\ c.kind # "sleep" /\ c.fd \in Fds /\ c.ev \in Events
    BY <1>0, <1>23 DEF CallbackCancel, TimedOut, SleepOnce, Callbacks
  <2>2. /\ runq \subseteq runq'
        /\ \A g \in Fibers, d \in Fds, e \in Events : HeldAt(g, d, e)' => HeldAt(g, d, e)
    <3>1. CASE Trigger(c.fd, {c.ev})
      BY <2>1, <3>1, TriggerReaches
    <3>2. CASE UNCHANGED <<reg, runq>>
      BY <3>2 DEF HeldAt
    <3> QED
      BY <2>1, <3>1, <3>2 DEF CancelEvent
  <2>3. ASSUME NEW g \in Fibers, Mine(c, g), Waiting(g)
        PROVE  g \in runq'
    <3>1. InWait(g) /\ c.fd = op[g].fd /\ c.ev = op[g].ev
      BY <1>a, <2>3 DEF InWait, Waiting, Timed
    <3>2. op[g].kind # "sleep"
      BY <1>0, <2>1, <2>3, <3>1 DEF OpShape, Waiting, SleepOnce
    <3>3. CASE g \in runq
      BY <2>2, <3>3
    <3>4. CASE g \notin runq
      <4>1. Held(g)
        BY <2>3, <3>2, <3>4 DEF SingleInv, WaitersReached, Reached
      <4>2. HeldAt(g, c.fd, c.ev)
        BY <1>a, <3>1, <4>1 DEF Held, Timed
      <4>3. reg[c.fd][c.ev] # Null /\ Watched(c.fd)
        BY <2>1, <4>2 DEF HeldAt, SingleInv, RegLive, Watched
      <4>4. Trigger(c.fd, {c.ev})
        BY <2>1, <4>3 DEF CancelEvent
      <4> QED
        BY <2>1, <4>2, <4>4, TriggerReaches
    <3> QED
      BY <3>3, <3>4
  <2> QED
    BY <1>21, <2>1, <2>2, <2>3
<1>24. ASSUME NEW f \in Fibers, TimerFires(f)
       PROVE  TimedInv'
  <2> DEFINE n == [f |-> f, n |-> opn[f], kind |-> op[f].kind,
                   fd |-> op[f].fd, ev |-> op[f].ev, at |-> "queued"]
  <2>1. /\ UNCHANGED <<reg, runq, cancelled, op, opn>> /\ timer' = timer \ {f}
        /\ cbs' = cbs \cup {n} /\ Quiet(f) /\ f \in timer
    BY <1>24, LoopSteps DEF TimerFires
  <2>2. op[f].at = "parked"
    BY <1>0, <2>1 DEF WaitSettled, Quiet
  <2>3. n.f = f /\ n.n = opn[f] /\ n.fd = op[f].fd /\ n.ev = op[f].ev /\ n \in cbs'
    BY <2>1
  <2> HIDE DEF n
  <2>4. ASSUME NEW g \in Fibers
        PROVE  Timed(g)'
    <3>1. /\ InWait(g)' <=> InWait(g)
          /\ Waiting(g)' <=> Waiting(g)
          /\ \A c : Mine(c, g)' <=> Mine(c, g)
          /\ \A d \in Fds, e \in Events : HeldAt(g, d, e)' <=> HeldAt(g, d, e)
          /\ Mine(n, g) <=> g = f
      BY <2>1, <2>3 DEF InWait, Waiting, Mine, HeldAt
    <3>2. \A c \in cbs' : Mine(c, g) /\ InWait(g) => c.fd = op[g].fd /\ c.ev = op[g].ev
      BY <1>a, <2>1, <2>3, <3>1 DEF Timed
    <3>3. InWait(g) /\ op[g].to =>
            /\ op[g].at = "add" => g \in timer'
            /\ Waiting(g) => g \in runq \/ g \in timer' \/ \E c \in cbs' : Mine(c, g)
      <4>1. CASE g = f
        BY <2>2, <2>3, <3>1, <4>1
      <4>2. CASE g # f
        BY <1>a, <2>1, <4>2 DEF Timed
      <4> QED
        BY <4>1, <4>2
    <3> QED
      BY <1>a, <2>1, <3>1, <3>2, <3>3 DEF Timed
  <2>5. \A c \in cbs' : c.n <= opn'[c.f]
    <3>1. n.n <= opn[n.f]
      BY <1>0, <2>3
    <3> QED
      BY <1>b, <2>1, <3>1
  <2> QED
    BY <2>4, <2>5 DEF TimedInv
<1>25. ASSUME NEW c \in cbs, CallbackCheck(c)
       PROVE  TimedInv'
  <2>1. UNCHANGED <<reg, runq, timer, op, opn>> /\ \A g \in Fibers : Quiet(g)
    BY <1>25, LoopSteps DEF CallbackCheck
  <2>2. \A b \in cbs : b.at # "cancel"
    BY <1>25 DEF CallbackCheck, OthersTurn, Acting
  <2>3. CASE ~Alive(c) \/ c.f \in cancelled
    <3>1. cbs' = cbs \ {c} /\ UNCHANGED cancelled
      BY <1>25, <2>3 DEF CallbackCheck
    <3>2. ASSUME NEW g \in Fibers, Mine(c, g), Waiting(g)
          PROVE  g \in runq
      <4>1. g = c.f /\ g \in cancelled
        BY <2>3, <3>2 DEF Mine, Alive, Waiting
      <4>2. op[g].at = "parked" /\ InWait(g)
        BY <2>1, <3>2 DEF Quiet, Waiting, InWait
      <4> QED
        BY <1>a, <2>2, <4>1, <4>2 DEF Timed
    <3> QED
      BY <1>21, <2>1, <3>1, <3>2 DEF HeldAt
  <2>4. CASE Alive(c) /\ c.f \notin cancelled
    <3> DEFINE n == [c EXCEPT !.at = "cancel"]
    <3>1. cbs' = (cbs \ {c}) \cup {n} /\ cancelled' = cancelled \cup {c.f}
      BY <1>25, <2>4 DEF CallbackCheck
    <3>2. n.f = c.f /\ n.n = c.n /\ n.fd = c.fd /\ n.ev = c.ev /\ n.at = "cancel" /\ n \in cbs'
      BY <1>0, <3>1 DEF Callbacks
    <3> HIDE DEF n
    <3>3. c.n = opn[c.f] /\ op[c.f].at = "parked"
      BY <1>b, <2>1, <2>4 DEF Alive, Quiet
    <3>4. ASSUME NEW g \in Fibers
          PROVE  Timed(g)'
      <4>1. /\ InWait(g)' <=> InWait(g)
            /\ Waiting(g)' <=> Waiting(g)
            /\ \A b : Mine(b, g)' <=> Mine(b, g)
            /\ \A d \in Fds, e \in Events : HeldAt(g, d, e)' <=> HeldAt(g, d, e)
            /\ Mine(n, g) <=> g = c.f
            /\ Mine(c, g) <=> g = c.f
        BY <2>1, <3>2, <3>3 DEF InWait, Waiting, Mine, HeldAt
      <4>2. \A b \in cbs' : Mine(b, g) /\ InWait(g) => b.fd = op[g].fd /\ b.ev = op[g].ev
        BY <1>a, <3>1, <3>2, <4>1 DEF Timed
      <4>3. InWait(g) /\ op[g].to =>
              /\ op[g].at = "add" => g \in timer
              /\ Waiting(g) => g \in runq \/ g \in timer \/ \E b \in cbs' : Mine(b, g)
        <5>1. CASE g = c.f
          BY <3>2, <3>3, <4>1, <5>1
        <5>2. CASE g # c.f
          BY <1>a, <3>1, <4>1, <5>2 DEF Timed
        <5> QED
          BY <5>1, <5>2
      <4>4. InWait(g) /\ g \in cancelled' =>
              /\ op[g].at \in {"parked", "woken", "check"}
              /\ op[g].at = "parked" => g \in runq \/ \E b \in cbs' : Mine(b, g) /\ b.at = "cancel"
        <5>1. CASE g = c.f
          BY <3>2, <3>3, <4>1, <5>1
        <5>2. CASE g # c.f
          BY <1>a, <2>2, <3>1, <5>2 DEF Timed
        <5> QED
          BY <5>1, <5>2
      <4> QED
        BY <1>a, <2>1, <4>1, <4>2, <4>3, <4>4 DEF Timed
    <3>5. \A b \in cbs' : b.n <= opn'[b.f]
      BY <1>b, <2>1, <3>1, <3>2
    <3> QED
      BY <3>4, <3>5 DEF TimedInv
  <2> QED
    BY <2>3, <2>4
<1>26. CASE Halted
  BY <1>2, <1>26 DEF Halted, vars, HeldAt
<1> QED
  BY <1>7, <1>8, <1>9, <1>10, <1>12, <1>13, <1>14, <1>15, <1>16, <1>17, <1>18, <1>19, <1>20,
     <1>22, <1>23, <1>24, <1>25, <1>26 DEF Next

\* With one scheduler thread a call that waits with a timeout does not wait
\* for ever: until the fiber is scheduled its timer is armed, or the callback
\* of the timer, which cancels the event, has not finished.
THEOREM TimeoutsStand == ASSUME ~Parallel PROVE Spec => []TimeoutPending
<1>1. Init => TimedInv
  BY DEF Init, TimedInv, Timed, InWait, NoOp
<1>2. IndInv /\ SingleInv /\ TimedInv /\ [Next]_vars => TimedInv'
  <2>1. ASSUME TimedInv, UNCHANGED vars
        PROVE  TimedInv'
    BY <2>1 DEF vars, kernelVars, ctxVars, waitVars, TimedInv, Timed, InWait, Mine, Waiting, HeldAt
  <2> QED
    BY <2>1, NextTimed
<1>3. TimedInv => TimeoutPending
  BY DEF TimedInv, Timed, TimeoutPending, InWait, Waiting, Mine
<1> QED
  BY <1>1, <1>2, <1>3, HookInv, SingleHolds, PTL DEF Spec
=============================================================================
