-------------------------- MODULE SchedulerProofs --------------------------
(***************************************************************************)
(* Proofs about Scheduler, for every number of threads, fibers and         *)
(* callbacks: its counters and callbacks; that it implements TaskPool;     *)
(* that nothing faults and nothing is left queued when it does not poll;   *)
(* what a scheduler with one thread does, polling or not.                  *)
(***************************************************************************)
EXTENDS Scheduler, FiniteSetTheorems, SequenceTheorems, TLAPS

\* Threads is finite, so the numbers of busy and idle threads are numbers.
LEMMA ThreadsFinite == IsFiniteSet(Threads)
<1>1. IsFiniteSet({Caller}) /\ IsFiniteSet({})
  BY FS_Singleton, FS_EmptySet
<1>2. IsFiniteSet(IF UseCaller THEN {Caller} ELSE {})
  BY <1>1
<1> QED
  BY <1>2, FS_Union, SchedulerAssumption DEF Threads

\* What erasing one list element leaves.
LEMMA RemoveAtFacts ==
  ASSUME NEW S, NEW s \in Seq(S), NEW i \in 1..Len(s)
  PROVE  /\ RemoveAt(s, i) \in Seq(S)
         /\ Len(RemoveAt(s, i)) = Len(s) - 1
         /\ \A k \in 1..(Len(s) - 1) :
               RemoveAt(s, i)[k] = IF k < i THEN s[k] ELSE s[k + 1]
<1> DEFINE p == SubSeq(s, 1, i - 1)
           q == SubSeq(s, i + 1, Len(s))
<1>1. /\ p \in Seq(S)
      /\ Len(p) = i - 1
      /\ \A k \in 1..(i - 1) : p[k] = s[k]
  OBVIOUS
<1>2. /\ q \in Seq(S)
      /\ Len(q) = Len(s) - i
      /\ \A k \in 1..(Len(s) - i) : q[k] = s[k + i]
  OBVIOUS
<1>3. RemoveAt(s, i) = p \o q
  BY DEF RemoveAt
<1> HIDE DEF p, q
<1>4. /\ p \o q \in Seq(S)
      /\ Len(p \o q) = Len(s) - 1
  <2>1. Len(p) + Len(q) = Len(s) - 1
    BY <1>1, <1>2
  <2> QED
    BY <2>1, <1>1, <1>2, ConcatProperties
<1>5. ASSUME NEW k \in 1..(Len(s) - 1)
      PROVE  (p \o q)[k] = IF k < i THEN s[k] ELSE s[k + 1]
  <2>1. CASE k < i
    BY <2>1, <1>1, <1>2
  <2>2. CASE ~(k < i)
    <3>1. (k - (i - 1)) \in 1..(Len(s) - i)
      BY <2>2
    <3>2. (p \o q)[k] = q[k - (i - 1)]
      BY <2>2, <1>1, <1>2
    <3>3. q[k - (i - 1)] = s[(k - (i - 1)) + i]
      BY <3>1, <1>2
    <3>4. (k - (i - 1)) + i = k + 1
      OBVIOUS
    <3> QED
      BY <3>2, <3>3, <3>4, <2>2
  <2> QED
    BY <2>1, <2>2
<1> QED
  BY <1>3, <1>4, <1>5

\* The number of threads whose label is in P.
Count(P, labels) == Cardinality({u \in Threads : labels[u] \in P})

\* One thread changes its label: what becomes of the number of threads whose
\* label is in P.
LEMMA Move ==
  ASSUME NEW P, NEW t \in Threads, NEW l, NEW Q, pc \in [Threads -> PCs],
         Q = [pc EXCEPT ![t] = l]
  PROVE  /\ Count(P, pc) \in Nat
         /\ Count(P, Q) \in Nat
         /\ (l \in P <=> pc[t] \in P) => Count(P, Q) = Count(P, pc)
         /\ l \in P /\ pc[t] \notin P => Count(P, Q) = Count(P, pc) + 1
         /\ l \notin P /\ pc[t] \in P => Count(P, Q) = Count(P, pc) - 1
<1> DEFINE B == {u \in Threads : pc[u] \in P}
           C == {u \in Threads : Q[u] \in P}
<1>1. IsFiniteSet(B) /\ IsFiniteSet(C)
  BY ThreadsFinite, FS_Subset
<1>2. Cardinality(B) \in Nat /\ Cardinality(C) \in Nat
  BY <1>1, FS_CardinalityType
<1>3. (l \in P <=> pc[t] \in P) => B = C
  OBVIOUS
<1>4. l \in P /\ pc[t] \notin P => C = B \cup {t} /\ t \notin B
  OBVIOUS
<1>5. l \notin P /\ pc[t] \in P => C = B \ {t} /\ t \in B
  OBVIOUS
<1>6. Count(P, pc) = Cardinality(B) /\ Count(P, Q) = Cardinality(C)
  BY DEF Count
<1> HIDE DEF B, C
<1>7. C = B \cup {t} /\ t \notin B => Cardinality(C) = Cardinality(B) + 1
  BY <1>1, FS_AddElement
<1>8. C = B \ {t} /\ t \in B => Cardinality(C) = Cardinality(B) - 1
  BY <1>1, FS_RemoveElement
<1> QED
  BY <1>2, <1>3, <1>4, <1>5, <1>6, <1>7, <1>8

USE DEF queueVars, countVars, stopVars, localVars, fiberVars, cbVars

\* The cases of Next, as the proofs below split them.
LEMMA NextCases ==
  ASSUME [Next]_vars
  PROVE  \/ \E c \in Cbs, thr \in Pins : MainSubmit(c, thr)
         \/ Start \/ StopRequest \/ StopFlag \/ StopLook \/ StopCall
         \/ StopReturn \/ StopJoin
         \/ \E t \in Threads : RunStep(t)
         \/ \E t \in Threads, c \in Cbs, thr \in Pins : UserSubmit(t, c, thr)
         \/ \E t \in Threads, f \in Fibers : Wake(t, f)
         \/ UNCHANGED vars
  BY DEF Next, StopStep, Halted

\* Queue entries are typed, and so are their parts.
LEMMA EntryTypes ==
  /\ NoEntry \in Entries
  /\ NoEntry.fiber = Null /\ NoEntry.cb = Null
  /\ \A f \in Fibers : /\ FiberEntry(f) \in Entries
                       /\ FiberEntry(f).fiber = f
                       /\ FiberEntry(f).cb = Null
                       /\ FiberEntry(f).thread = AnyThread
  /\ \A c \in Cbs, thr \in Pins : /\ CbEntry(c, thr) \in Entries
                                  /\ CbEntry(c, thr).fiber = Null
                                  /\ CbEntry(c, thr).cb = c
  /\ \A e \in Entries : e.fiber \in Fibers \cup {Null} /\ e.cb \in Cbs \cup {Null}
  BY SchedulerAssumption DEF Entries, NoEntry, FiberEntry, CbEntry

\* A thread that is busy, or idle, has been counted.
LEMMA CountedOnce ==
  ASSUME TypeOK, CountersCover, NEW t \in Threads
  PROVE  /\ pc[t] \in BusyPCs => m_activeThreadCount - 1 \in Nat
         /\ pc[t] \in IdlePCs => m_idleThreadCount - 1 \in Nat
<1> DEFINE Q == [pc EXCEPT ![t] = "scan"]
<1>0. Q = [pc EXCEPT ![t] = "scan"] /\ "scan" \notin BusyPCs \cup IdlePCs
  BY DEF BusyPCs, IdlePCs
<1> HIDE DEF Q
<1>1. /\ Count(BusyPCs, pc) \in Nat
      /\ Count(BusyPCs, Q) \in Nat
      /\ pc[t] \in BusyPCs => Count(BusyPCs, Q) = Count(BusyPCs, pc) - 1
  BY <1>0, Move DEF TypeOK
<1>2. /\ Count(IdlePCs, pc) \in Nat
      /\ Count(IdlePCs, Q) \in Nat
      /\ pc[t] \in IdlePCs => Count(IdlePCs, Q) = Count(IdlePCs, pc) - 1
  BY <1>0, Move DEF TypeOK
<1>3. Cardinality(Busy) = Count(BusyPCs, pc) /\ Cardinality(Idle) = Count(IdlePCs, pc)
  BY DEF Busy, Idle, Count
<1> QED
  BY <1>1, <1>2, <1>3 DEF TypeOK, CountersCover

\* The fiber a thread is on is a fiber, and its callback one of Cbs or none.
LEMMA RunningType ==
  ASSUME TypeOK, HandOK, NEW t \in Threads, pc[t] \in FiberPCs
  PROVE  Running(t) \in Fibers /\ m_cb[Running(t)] \in Cbs \cup {Null}
  BY EntryTypes DEF TypeOK, HandOK, LocalOK, Running

\* What the shared parts of the actions do to the types.
LEMMA IdleOrBreakTypes ==
  ASSUME TypeOK, NEW t \in Threads, IdleOrBreak(t)
  PROVE  pc' \in [Threads -> PCs] /\ m_idleThreadCount' \in Nat
<1>1. CASE idleTerm[t]
  BY <1>1 DEF TypeOK, IdleOrBreak, GoTo, PCs
<1>2. CASE ~idleTerm[t]
  BY <1>2 DEF TypeOK, IdleOrBreak, GoTo, PCs
<1> QED
  BY <1>1, <1>2

\* Dropping what a thread held leaves well-typed locals.
LEMMA ForgetTypes ==
  ASSUME TypeOK, NEW t \in Threads, Forget(t)
  PROVE  ft' \in [Threads -> Entries] /\ cb_fiber' \in [Threads -> Fibers \cup {Null}]
<1>1. NoEntry \in Entries
  BY EntryTypes
<1>2. CASE ft[t].fiber # Null
  BY <1>1, <1>2 DEF TypeOK, Forget
<1>3. CASE ft[t].fiber = Null
  BY <1>1, <1>3 DEF TypeOK, Forget
<1> QED
  BY <1>2, <1>3

\* Aborting changes nothing but the fault.
LEMMA AbortTypes ==
  ASSUME TypeOK, NEW w \in Faults, Abort(w)
  PROVE  TypeOK'
  BY DEF TypeOK, Abort

\* Every step preserves the types.
LEMMA TypeStep ==
  ASSUME IndInv, [Next]_vars
  PROVE  TypeOK'
<1>a. /\ TypeOK /\ CountersCover /\ HandOK
      /\ Null \notin Fibers \cup Cbs
      /\ {"swapIn", "reset", "exec", "stack"} \subseteq Faults
      /\ {"INIT", "HOLD", "EXEC", "TERM", "READY", "EXCEPT"} \subseteq States
  BY SchedulerAssumption DEF IndInv, Faults, States
<1> USE <1>a DEF TypeOK, At, MainAt, GoTo, PCs, MainPCs
<1>1. ASSUME NEW c \in Cbs, NEW thr \in Pins, MainSubmit(c, thr)
      PROVE  TypeOK'
  BY <1>1, EntryTypes DEF MainSubmit, ScheduleCb
<1>2. CASE Start
  BY <1>2 DEF Start
<1>3. CASE StopRequest
  BY <1>3 DEF StopRequest
<1>4. CASE StopFlag
  BY <1>4 DEF StopFlag
<1>5. CASE StopLook
  BY <1>5, SchedulerAssumption DEF StopLook, StopGoTo, Threads
<1>6. CASE StopCall
  BY <1>6, SchedulerAssumption DEF StopCall, StopGoTo, Threads
<1>7. CASE StopReturn
  BY <1>7 DEF StopReturn
<1>8. CASE StopJoin
  BY <1>8 DEF StopJoin
<1>9. ASSUME NEW t \in Threads, RunStep(t)
      PROVE  TypeOK'
  <2>1. CASE ScanTake(t)
    <3>1. PICK i \in DOMAIN m_fibers :
             /\ ft' = [ft EXCEPT ![t] = m_fibers[i]]
             /\ m_fibers' = RemoveAt(m_fibers, i)
      BY <2>1 DEF ScanTake, Erase
    <3>2. i \in 1..Len(m_fibers) /\ m_fibers[i] \in Entries
      BY <3>1
    <3>3. m_fibers' \in Seq(Entries)
      BY <3>1, <3>2, RemoveAtFacts
    <3> QED
      BY <2>1, <3>1, <3>2, <3>3 DEF ScanTake, CountUp
  <2>2. CASE ScanNone(t)
    <3>1. NoEntry \in Entries
      BY EntryTypes
    <3> QED
      BY <2>2, <3>1, IdleOrBreakTypes DEF ScanNone
  <2>3. CASE DispatchDead(t)
    BY <2>3, IdleOrBreakTypes DEF DispatchDead
  <2>4. CASE DispatchFiber(t)
    <3> DEFINE f == ft[t].fiber
    <3>1. f \in Fibers
      BY <2>4, EntryTypes DEF DispatchFiber
    <3>2. CASE Abort("swapIn") \/ Abort("stack")
      BY <3>2, AbortTypes
    <3>3. CASE /\ m_state' = [m_state EXCEPT ![f] = "EXEC"]
               /\ GoTo(t, "user")
               /\ UNCHANGED <<queueVars, countVars, stopVars, localVars, m_cb,
                              armed, cbVars, fault>>
      BY <3>1, <3>3
    <3> QED
      BY <2>4, <3>2, <3>3 DEF DispatchFiber
  <2>5. CASE DispatchCb(t)
    <3> DEFINE c == ft[t].cb
    <3>1. c \in Cbs
      BY <2>5 DEF DispatchCb, HandOK, LocalOK, EntryOK
    <3>2. CASE Abort("reset") \/ Abort("stack")
      BY <3>2, AbortTypes
    <3>3. ASSUME NEW f \in Fibers,
                 m_cb' = [m_cb EXCEPT ![f] = c],
                 m_state' = [m_state EXCEPT ![f] = "EXEC"],
                 cb_fiber' = [cb_fiber EXCEPT ![t] = f],
                 ft' = [ft EXCEPT ![t] = NoEntry],
                 starts' = [starts EXCEPT ![c] = @ + 1],
                 GoTo(t, "user"),
                 UNCHANGED <<queueVars, countVars, stopVars, idleTerm, armed,
                             suspends, finished, fault>>
          PROVE  TypeOK'
      BY <3>1, <3>3, EntryTypes
    <3> QED
      BY <2>5, <3>2, <3>3 DEF DispatchCb
  <2>6. CASE YieldToReady(t)
    BY <2>6, RunningType DEF YieldToReady, MaySuspend, Suspended, InCallback,
                         States, FiberPCs
  <2>7. CASE Arm(t)
    <3>1. CASE Abort("exec")
      BY <3>1, AbortTypes
    <3>2. CASE m_state[Running(t)] = "EXEC"
      <4>1. /\ Running(t) \in Fibers
            /\ m_cb[Running(t)] \in Cbs
        BY <2>7, RunningType DEF Arm, MaySuspend, InCallback, FiberPCs
      <4>2. suspends' \in [Cbs -> Nat] /\ armed' \subseteq Fibers
        BY <2>7, <3>2, <4>1 DEF Arm, Suspended
      <4> QED
        BY <2>7, <3>2, <4>2 DEF Arm
    <3> QED
      BY <2>7, <3>1, <3>2 DEF Arm
  <2>8. CASE YieldToHold(t)
    BY <2>8, RunningType DEF YieldToHold, States, FiberPCs
  <2>9. CASE MainFuncEnd(t)
    <3>1. Running(t) \in Fibers /\ m_cb[Running(t)] \in Cbs \cup {Null}
      BY <2>9, RunningType DEF MainFuncEnd, FiberPCs
    <3>2. m_state' \in [Fibers -> States]
      BY <2>9, <3>1 DEF MainFuncEnd
    <3>3. m_cb' \in [Fibers -> Cbs \cup {Null}]
      BY <2>9, <3>1 DEF MainFuncEnd
    <3> QED
      BY <2>9, <3>1, <3>2, <3>3 DEF MainFuncEnd
  <2>10. CASE SwapOut(t)
    BY <2>10 DEF SwapOut
  <2>11. CASE Deactivate(t)
    BY <2>11, CountedOnce DEF Deactivate, CountDown, BusyPCs
  <2>12. CASE SettleReady(t)
    <3>1. Running(t) \in Fibers
      BY <2>12, RunningType DEF SettleReady, FiberPCs
    <3>2. m_fibers' \in Seq(Entries)
      BY <2>12, <3>1, EntryTypes DEF SettleReady, ScheduleFiber
    <3> QED
      BY <2>12, <3>2, ForgetTypes DEF SettleReady
  <2>13. CASE SettleEnded(t)
    <3>1. Running(t) \in Fibers
      BY <2>13, RunningType DEF SettleEnded, FiberPCs
    <3>2. CASE Abort("stack")
      BY <3>2, AbortTypes
    <3>3. CASE ft[t].fiber # Null
      BY <2>13, <3>3, ForgetTypes DEF SettleEnded
    <3>4. CASE ft[t].fiber = Null /\ ~StackBusy(Running(t))
      <4>1. /\ m_state' = [m_state EXCEPT ![Running(t)] = "INIT"]
            /\ m_cb' = [m_cb EXCEPT ![Running(t)] = Null]
            /\ GoTo(t, "scan")
            /\ UNCHANGED <<queueVars, countVars, stopVars, localVars, armed,
                           cbVars, fault>>
        BY <2>13, <3>4 DEF SettleEnded
      <4> QED
        BY <3>1, <4>1
    <3> QED
      BY <2>13, <3>2, <3>3, <3>4 DEF SettleEnded
  <2>14. CASE SettleOther(t)
    BY <2>14 DEF SettleOther
  <2>15. CASE SetHold(t)
    <3>1. Running(t) \in Fibers
      BY <2>15, RunningType DEF SetHold, FiberPCs
    <3> QED
      BY <2>15, <3>1, ForgetTypes DEF SetHold
  <2>16. CASE IdleLook(t)
    BY <2>16 DEF IdleLook, LookAtPending, KeepIdle
  <2>17. CASE IdleCheck(t)
    BY <2>17 DEF IdleCheck, Stopping, KeepIdle
  <2>18. CASE PollEnd(t)
    BY <2>18 DEF PollEnd
  <2>19. CASE IdleBack(t)
    BY <2>19, CountedOnce DEF IdleBack, IdlePCs
  <2> QED
    BY <1>9, <2>1, <2>2, <2>3, <2>4, <2>5, <2>6, <2>7, <2>8, <2>9, <2>10, <2>11, <2>12, <2>13, <2>14, <2>15, <2>16, <2>17, <2>18, <2>19 DEF RunStep
<1>10. ASSUME NEW t \in Threads, NEW c \in Cbs, NEW thr \in Pins,
              UserSubmit(t, c, thr)
       PROVE  TypeOK'
  BY <1>10, EntryTypes DEF UserSubmit, ScheduleCb
<1>11. ASSUME NEW t \in Threads, NEW f \in Fibers, Wake(t, f)
       PROVE  TypeOK'
  BY <1>11, EntryTypes DEF Wake, ScheduleFiber
<1>12. CASE UNCHANGED vars
  BY <1>12 DEF vars
<1> QED
  BY NextCases, <1>1, <1>2, <1>3, <1>4, <1>5, <1>6, <1>7, <1>8, <1>9, <1>10,
     <1>11, <1>12

\* One thread moves: the counters stay right if they follow the move.
LEMMA CountersMove ==
  ASSUME TypeOK, TypeOK', CountersCover, NEW t \in Threads,
         \A u \in Threads : u # t => pc'[u] = pc[u],
         pc'[t] \in BusyPCs =>
            m_activeThreadCount' >= m_activeThreadCount
                                      + (IF pc[t] \in BusyPCs THEN 0 ELSE 1),
         pc'[t] \notin BusyPCs =>
            m_activeThreadCount' >= m_activeThreadCount
                                      - (IF pc[t] \in BusyPCs THEN 1 ELSE 0),
         pc'[t] \in IdlePCs =>
            m_idleThreadCount' = m_idleThreadCount
                                   + (IF pc[t] \in IdlePCs THEN 0 ELSE 1),
         pc'[t] \notin IdlePCs =>
            m_idleThreadCount' = m_idleThreadCount
                                   - (IF pc[t] \in IdlePCs THEN 1 ELSE 0)
  PROVE  CountersCover'
<1>1. pc' = [pc EXCEPT ![t] = pc'[t]]
  BY DEF TypeOK
<1> DEFINE l == pc'[t]
           Q == pc'
<1>2. Q = [pc EXCEPT ![t] = l]
  BY <1>1
<1>3. /\ Cardinality(Busy) = Count(BusyPCs, pc)
      /\ Cardinality(Idle) = Count(IdlePCs, pc)
      /\ Cardinality(Busy)' = Count(BusyPCs, Q)
      /\ Cardinality(Idle)' = Count(IdlePCs, Q)
  BY DEF Busy, Idle, Count
<1>a. pc \in [Threads -> PCs]
  BY DEF TypeOK
<1> HIDE DEF Q, l
<1>4. /\ Count(BusyPCs, pc) \in Nat
      /\ Count(BusyPCs, Q) \in Nat
      /\ (l \in BusyPCs <=> pc[t] \in BusyPCs)
            => Count(BusyPCs, Q) = Count(BusyPCs, pc)
      /\ l \in BusyPCs /\ pc[t] \notin BusyPCs
            => Count(BusyPCs, Q) = Count(BusyPCs, pc) + 1
      /\ l \notin BusyPCs /\ pc[t] \in BusyPCs
            => Count(BusyPCs, Q) = Count(BusyPCs, pc) - 1
  BY <1>2, <1>a, Move
<1>5. /\ Count(IdlePCs, pc) \in Nat
      /\ Count(IdlePCs, Q) \in Nat
      /\ (l \in IdlePCs <=> pc[t] \in IdlePCs)
            => Count(IdlePCs, Q) = Count(IdlePCs, pc)
      /\ l \in IdlePCs /\ pc[t] \notin IdlePCs
            => Count(IdlePCs, Q) = Count(IdlePCs, pc) + 1
      /\ l \notin IdlePCs /\ pc[t] \in IdlePCs
            => Count(IdlePCs, Q) = Count(IdlePCs, pc) - 1
  BY <1>2, <1>a, Move
<1>6. m_activeThreadCount' >= Count(BusyPCs, Q)
  BY <1>3, <1>4 DEF TypeOK, CountersCover, l
<1>7. m_idleThreadCount' = Count(IdlePCs, Q)
  BY <1>3, <1>5 DEF TypeOK, CountersCover, l
<1> QED
  BY <1>3, <1>6, <1>7 DEF CountersCover

\* Nobody moves, nothing is counted.
LEMMA CountersKept ==
  ASSUME CountersCover, UNCHANGED <<countVars, pc>>
  PROVE  CountersCover'
  BY DEF CountersCover, Busy, Idle, BusyPCs, IdlePCs

\* Every step keeps the counters right.
LEMMA CountersStep ==
  ASSUME IndInv, TypeOK', [Next]_vars
  PROVE  CountersCover'
<1>a. TypeOK /\ CountersCover
  BY DEF IndInv
<1>b. /\ pc \in [Threads -> PCs]
      /\ m_activeThreadCount \in Nat /\ m_idleThreadCount \in Nat
  BY <1>a DEF TypeOK
<1> USE <1>a, <1>b
<1>1. ASSUME NEW c \in Cbs, NEW thr \in Pins, MainSubmit(c, thr)
      PROVE  CountersCover'
  BY <1>1, CountersKept DEF MainSubmit
<1>2. CASE Start
  <2>1. /\ \A t \in Threads : pc[t] = "off"
        /\ pc' \in [Threads -> {"off", "scan"}]
        /\ UNCHANGED countVars
    BY <1>2 DEF Start, IndInv, PhaseOK, MainAt
  <2>2. Busy' = Busy /\ Idle' = Idle
    BY <2>1 DEF Busy, Idle, BusyPCs, IdlePCs
  <2> QED
    BY <2>1, <2>2 DEF CountersCover
<1>3. CASE StopRequest
  BY <1>3, CountersKept DEF StopRequest
<1>4. CASE StopFlag
  BY <1>4, CountersKept DEF StopFlag
<1>5. ASSUME NEW label, StopGoTo(label), main \in {"stopping", "quiet"},
             label = "called" => UseCaller
      PROVE  CountersCover'
  <2>1. CASE label = "called"
    <3>1. Caller \in Threads /\ pc[Caller] = "off"
      BY <1>5, <2>1 DEF Threads, IndInv, PhaseOK
    <3>2. /\ pc' = [pc EXCEPT ![Caller] = "scan"]
          /\ UNCHANGED countVars
      BY <1>5, <2>1 DEF StopGoTo, GoTo
    <3> QED
      BY <3>1, <3>2, CountersMove DEF BusyPCs, IdlePCs
  <2>2. CASE label # "called"
    BY <1>5, <2>2, CountersKept DEF StopGoTo
  <2> QED
    BY <2>1, <2>2
<1>6. CASE StopLook \/ StopCall
  <2>1. PICK label : StopGoTo(label) /\ (label = "called" => UseCaller)
    BY <1>6 DEF StopLook, StopCall, MainAt, IndInv, PhaseOK
  <2> QED
    BY <1>5, <1>6, <2>1 DEF StopLook, StopCall, MainAt
<1>7. CASE StopReturn \/ StopJoin
  BY <1>7, CountersKept DEF StopReturn, StopJoin
<1>8. ASSUME NEW w, Abort(w)
      PROVE  CountersCover'
  BY <1>8, CountersKept DEF Abort
<1>9. ASSUME NEW t \in Threads, RunStep(t)
      PROVE  CountersCover'
  <2> USE DEF At, GoTo, BusyPCs, IdlePCs
  <2>1. CASE ScanTake(t)
    BY <2>1, CountersMove DEF ScanTake, CountUp
  <2>2. CASE ScanNone(t)
    <3>1. CASE idleTerm[t]
      BY <2>2, <3>1, CountersMove DEF ScanNone, IdleOrBreak
    <3>2. CASE ~idleTerm[t]
      BY <2>2, <3>2, CountersMove DEF ScanNone, IdleOrBreak
    <3> QED
      BY <3>1, <3>2
  <2>3. CASE DispatchDead(t)
    <3>1. CASE idleTerm[t]
      BY <2>3, <3>1, CountersMove DEF DispatchDead, IdleOrBreak
    <3>2. CASE ~idleTerm[t]
      BY <2>3, <3>2, CountersMove DEF DispatchDead, IdleOrBreak
    <3> QED
      BY <3>1, <3>2
  <2>4. CASE DispatchFiber(t)
    <3>1. CASE Abort("swapIn") \/ Abort("stack")
      BY <3>1, <1>8
    <3>2. CASE pc[t] = "dispatch" /\ GoTo(t, "user") /\ UNCHANGED countVars
      BY <3>2, CountersMove
    <3> QED
      BY <2>4, <3>1, <3>2 DEF DispatchFiber
  <2>5. CASE DispatchCb(t)
    <3>1. CASE Abort("reset") \/ Abort("stack")
      BY <3>1, <1>8
    <3>2. CASE pc[t] = "dispatch" /\ GoTo(t, "user") /\ UNCHANGED countVars
      BY <3>2, CountersMove
    <3> QED
      BY <2>5, <3>1, <3>2 DEF DispatchCb
  <2>6. CASE YieldToReady(t)
    BY <2>6, CountersMove DEF YieldToReady, MaySuspend, InCallback
  <2>7. CASE Arm(t)
    <3>1. CASE Abort("exec")
      BY <3>1, <1>8
    <3>2. CASE pc[t] = "user" /\ GoTo(t, "armed") /\ UNCHANGED countVars
      BY <3>2, CountersMove
    <3> QED
      BY <2>7, <3>1, <3>2 DEF Arm, MaySuspend, InCallback
  <2>8. CASE YieldToHold(t)
    BY <2>8, CountersMove DEF YieldToHold
  <2>9. CASE MainFuncEnd(t)
    BY <2>9, CountersMove DEF MainFuncEnd
  <2>10. CASE SwapOut(t)
    BY <2>10, CountersMove DEF SwapOut
  <2>11. CASE Deactivate(t)
    BY <2>11, CountersMove DEF Deactivate, CountDown
  <2>12. CASE SettleReady(t)
    BY <2>12, CountersMove DEF SettleReady
  <2>13. CASE SettleEnded(t)
    <3>1. CASE Abort("stack")
      BY <3>1, <1>8
    <3>2. CASE pc[t] = "settle" /\ GoTo(t, "scan") /\ UNCHANGED countVars
      BY <3>2, CountersMove
    <3> QED
      BY <2>13, <3>1, <3>2 DEF SettleEnded
  <2>14. CASE SettleOther(t)
    BY <2>14, CountersMove DEF SettleOther
  <2>15. CASE SetHold(t)
    BY <2>15, CountersMove DEF SetHold
  <2>16. CASE IdleLook(t)
    BY <2>16, CountersMove DEF IdleLook, LookAtPending, KeepIdle
  <2>17. CASE IdleCheck(t)
    BY <2>17, CountersMove DEF IdleCheck, Stopping, KeepIdle
  <2>18. CASE PollEnd(t)
    BY <2>18, CountersMove DEF PollEnd
  <2>19. CASE IdleBack(t)
    BY <2>19, CountersMove DEF IdleBack
  <2> QED
    BY <1>9, <2>1, <2>2, <2>3, <2>4, <2>5, <2>6, <2>7, <2>8, <2>9, <2>10,
       <2>11, <2>12, <2>13, <2>14, <2>15, <2>16, <2>17, <2>18, <2>19 DEF RunStep
<1>10. ASSUME NEW t \in Threads, NEW c \in Cbs, NEW thr \in Pins,
              UserSubmit(t, c, thr)
       PROVE  CountersCover'
  BY <1>10, CountersKept DEF UserSubmit
<1>11. ASSUME NEW t \in Threads, NEW f \in Fibers, Wake(t, f)
       PROVE  CountersCover'
  BY <1>11, CountersKept DEF Wake
<1>12. CASE UNCHANGED vars
  BY <1>12, CountersKept DEF vars
<1> QED
  BY NextCases, <1>1, <1>2, <1>3, <1>4, <1>6, <1>7, <1>9, <1>10, <1>11, <1>12

\* What a list is after push_back.
LEMMA AppendFacts ==
  ASSUME NEW S, NEW s \in Seq(S), NEW e \in S
  PROVE  /\ Append(s, e) \in Seq(S)
         /\ Len(Append(s, e)) = Len(s) + 1
         /\ \A k \in 1..Len(s) : Append(s, e)[k] = s[k]
         /\ Append(s, e)[Len(s) + 1] = e
  OBVIOUS

\* Pushing a good entry and erasing one keep the entries good.
LEMMA QueuePush ==
  ASSUME TypeOK, QueueOK, NEW e \in Entries, EntryOK(e),
         m_fibers' = Append(m_fibers, e)
  PROVE  QueueOK'
<1>1. m_fibers \in Seq(Entries)
  BY DEF TypeOK
<1> SUFFICES ASSUME NEW i \in DOMAIN m_fibers'
             PROVE  EntryOK(m_fibers'[i])
  BY DEF QueueOK, EntryOK
<1>2. i \in 1..(Len(m_fibers) + 1)
  BY <1>1
<1>3. CASE i \in 1..Len(m_fibers)
  BY <1>1, <1>3, AppendFacts DEF QueueOK
<1>4. CASE i = Len(m_fibers) + 1
  BY <1>1, <1>4, AppendFacts
<1> QED
  BY <1>1, <1>2, <1>3, <1>4

\* Erasing an entry keeps the queue entries well formed.
LEMMA QueueErase ==
  ASSUME TypeOK, QueueOK, NEW i \in 1..Len(m_fibers),
         m_fibers' = RemoveAt(m_fibers, i)
  PROVE  QueueOK'
<1>1. m_fibers \in Seq(Entries)
  BY DEF TypeOK
<1>2. /\ m_fibers' \in Seq(Entries)
      /\ Len(m_fibers') = Len(m_fibers) - 1
      /\ \A k \in 1..(Len(m_fibers) - 1) :
            m_fibers'[k] = IF k < i THEN m_fibers[k] ELSE m_fibers[k + 1]
  BY <1>1, RemoveAtFacts
<1> SUFFICES ASSUME NEW k \in 1..(Len(m_fibers) - 1)
             PROVE  EntryOK(m_fibers'[k])
  BY <1>1, <1>2 DEF QueueOK, EntryOK
<1>3. m_fibers'[k] = m_fibers[k] \/ m_fibers'[k] = m_fibers[k + 1]
  BY <1>2
<1>4. k \in DOMAIN m_fibers /\ k + 1 \in DOMAIN m_fibers
  BY <1>1
<1> QED
  BY <1>3, <1>4 DEF QueueOK

\* A thread changes its own locals only.
LEMMA LocalMove ==
  ASSUME HandOK, NEW t \in Threads, QueueOK', LocalOK(t)',
         \A u \in Threads : u # t => /\ pc'[u] = pc[u]
                                     /\ ft'[u] = ft[u]
                                     /\ cb_fiber'[u] = cb_fiber[u]
  PROVE  HandOK'
<1>1. ASSUME NEW u \in Threads, u # t
      PROVE  LocalOK(u)'
  BY <1>1 DEF HandOK, LocalOK, EntryOK, Running
<1> QED
  BY <1>1 DEF HandOK

\* So does a step that leaves the locals of the threads alone.
LEMMA LocalsKept ==
  ASSUME HandOK, QueueOK', UNCHANGED <<pc, ft, cb_fiber>>
  PROVE  HandOK'
  BY DEF HandOK, LocalOK, EntryOK, Running

\* Every step keeps queue entries and threads' locals well formed.
LEMMA HandStep ==
  ASSUME IndInv, [Next]_vars
  PROVE  HandOK'
<1>a. TypeOK /\ HandOK /\ QueueOK /\ PhaseOK
  BY DEF IndInv, HandOK
<1>b. /\ pc \in [Threads -> PCs] /\ ft \in [Threads -> Entries]
      /\ cb_fiber \in [Threads -> Fibers \cup {Null}]
      /\ Null \notin Fibers \cup Cbs
  BY <1>a, SchedulerAssumption DEF TypeOK
<1>c. UNCHANGED m_fibers => QueueOK'
  BY <1>a DEF QueueOK, EntryOK
<1> USE <1>a, <1>b
<1>1. ASSUME NEW c \in Cbs, NEW thr \in Pins, ScheduleCb(c, thr)
      PROVE  QueueOK'
  <2>1. CbEntry(c, thr) \in Entries /\ EntryOK(CbEntry(c, thr))
    BY EntryTypes DEF EntryOK
  <2> QED
    BY <1>1, <2>1, QueuePush DEF ScheduleCb
<1>2. ASSUME NEW f \in Fibers, ScheduleFiber(f)
      PROVE  QueueOK'
  <2>1. FiberEntry(f) \in Entries /\ EntryOK(FiberEntry(f))
    BY EntryTypes DEF EntryOK
  <2> QED
    BY <1>2, <2>1, QueuePush DEF ScheduleFiber
<1>3. ASSUME NEW c \in Cbs, NEW thr \in Pins,
             MainSubmit(c, thr) \/ \E t \in Threads : UserSubmit(t, c, thr)
      PROVE  HandOK'
  BY <1>1, <1>3, LocalsKept DEF MainSubmit, UserSubmit
<1>4. CASE Start
  <2>1. /\ \A t \in Threads : pc[t] = "off" /\ pc'[t] \in {"off", "scan"}
        /\ UNCHANGED <<ft, cb_fiber, m_fibers>>
    BY <1>4 DEF Start, PhaseOK, MainAt
  <2>2. ASSUME NEW t \in Threads
        PROVE  LocalOK(t)'
    BY <2>1 DEF HandOK, LocalOK, FiberPCs
  <2> QED
    BY <1>c, <2>1, <2>2 DEF HandOK
<1>5. ASSUME NEW label, StopGoTo(label), label = "called" => UseCaller,
             main \in {"stopping", "quiet"}
      PROVE  HandOK'
  <2>1. CASE label = "called"
    <3>1. Caller \in Threads /\ pc[Caller] = "off"
      BY <1>5, <2>1 DEF Threads, PhaseOK
    <3>2. /\ pc' = [pc EXCEPT ![Caller] = "scan"]
          /\ UNCHANGED <<ft, cb_fiber, m_fibers>>
      BY <1>5, <2>1 DEF StopGoTo, GoTo
    <3>3. LocalOK(Caller)'
      BY <3>1, <3>2 DEF HandOK, LocalOK, FiberPCs
    <3> QED
      BY <1>c, <3>1, <3>2, <3>3, LocalMove
  <2>2. CASE label # "called"
    BY <1>5, <2>2, <1>c, LocalsKept DEF StopGoTo
  <2> QED
    BY <2>1, <2>2
<1>6. CASE StopLook \/ StopCall
  <2>1. PICK label : StopGoTo(label) /\ (label = "called" => UseCaller)
    BY <1>6 DEF StopLook, StopCall, MainAt, PhaseOK
  <2> QED
    BY <1>5, <1>6, <2>1 DEF StopLook, StopCall, MainAt
<1>7. CASE StopRequest \/ StopFlag \/ StopReturn \/ StopJoin
  BY <1>7, <1>c, LocalsKept DEF StopRequest, StopFlag, StopReturn, StopJoin
<1>8. ASSUME NEW w, Abort(w)
      PROVE  HandOK'
  BY <1>8, <1>c, LocalsKept DEF Abort
<1>9. ASSUME NEW t \in Threads, RunStep(t)
      PROVE  HandOK'
  <2>a. LocalOK(t) /\ EntryOK(ft[t]) \in BOOLEAN
    BY DEF HandOK, EntryOK
  <2>b. NoEntry.cb = Null /\ NoEntry.fiber = Null
    BY EntryTypes
  <2>c. ASSUME NEW l, GoTo(t, l), UNCHANGED <<m_fibers, ft, cb_fiber>>,
               l # "dispatch", pc[t] # "dispatch",
               l \in FiberPCs => pc[t] \in FiberPCs
        PROVE  HandOK'
    <3>1. LocalOK(t)'
      BY <2>a, <2>c DEF LocalOK, GoTo, Running
    <3> QED
      BY <1>c, <2>c, <3>1, LocalMove DEF GoTo
  <2>d. ASSUME Forget(t), GoTo(t, "scan"), pc[t] # "dispatch", QueueOK'
        PROVE  HandOK'
    <3>1. LocalOK(t)'
      BY <2>a, <2>b, <2>d DEF LocalOK, GoTo, Forget, FiberPCs
    <3> QED
      BY <2>d, <3>1, LocalMove DEF GoTo, Forget
  <2> USE DEF At, FiberPCs
  <2>1. CASE ScanTake(t)
    <3>1. PICK i \in 1..Len(m_fibers) :
             /\ ft' = [ft EXCEPT ![t] = m_fibers[i]]
             /\ m_fibers' = RemoveAt(m_fibers, i)
      <4>1. DOMAIN m_fibers = 1..Len(m_fibers)
        BY DEF TypeOK
      <4> QED
        BY <2>1, <4>1 DEF ScanTake, Erase
    <3>2. QueueOK'
      BY <3>1, QueueErase
    <3>3. EntryOK(m_fibers[i])
      BY <3>1 DEF QueueOK, TypeOK
    <3>4. LocalOK(t)'
      BY <2>1, <3>1, <3>3 DEF ScanTake, GoTo, LocalOK, EntryOK
    <3> QED
      BY <2>1, <3>1, <3>2, <3>4, LocalMove DEF ScanTake, GoTo
  <2>2. CASE ScanNone(t)
    <3>1. pc' = [pc EXCEPT ![t] = "done"] \/ pc' = [pc EXCEPT ![t] = "idle"]
      BY <2>2 DEF ScanNone, IdleOrBreak, GoTo
    <3>2. LocalOK(t)'
      BY <2>2, <3>1, <2>b DEF ScanNone, LocalOK
    <3> QED
      BY <2>2, <3>1, <3>2, <1>c, LocalMove DEF ScanNone
  <2>3. CASE DispatchDead(t)
    <3>1. pc' = [pc EXCEPT ![t] = "done"] \/ pc' = [pc EXCEPT ![t] = "idle"]
      BY <2>3 DEF DispatchDead, IdleOrBreak, GoTo
    <3>2. LocalOK(t)'
      BY <2>3, <2>a, <3>1 DEF DispatchDead, LocalOK, EntryOK
    <3> QED
      BY <2>3, <3>1, <3>2, <1>c, LocalMove DEF DispatchDead
  <2>4. CASE DispatchFiber(t)
    <3>1. CASE Abort("swapIn") \/ Abort("stack")
      BY <3>1, <1>8
    <3>2. CASE GoTo(t, "user") /\ UNCHANGED <<queueVars, localVars>>
      <4>1. LocalOK(t)'
        BY <2>4, <2>a, <3>2 DEF DispatchFiber, LocalOK, EntryOK, GoTo, Running
      <4> QED
        BY <1>c, <3>2, <4>1, LocalMove DEF GoTo
    <3> QED
      BY <2>4, <3>1, <3>2 DEF DispatchFiber
  <2>5. CASE DispatchCb(t)
    <3>1. CASE Abort("reset") \/ Abort("stack")
      BY <3>1, <1>8
    <3>2. ASSUME NEW f \in Fibers, GoTo(t, "user"), UNCHANGED queueVars,
                 cb_fiber' = [cb_fiber EXCEPT ![t] = f],
                 ft' = [ft EXCEPT ![t] = NoEntry]
          PROVE  HandOK'
      <4>1. LocalOK(t)'
        BY <2>b, <3>2 DEF LocalOK, GoTo, Running
      <4> QED
        BY <1>c, <3>2, <4>1, LocalMove DEF GoTo
    <3> QED
      BY <2>5, <3>1, <3>2 DEF DispatchCb
  <2>6. CASE YieldToReady(t)
    BY <2>6, <2>c DEF YieldToReady, MaySuspend, InCallback
  <2>7. CASE Arm(t)
    <3>1. CASE Abort("exec")
      BY <3>1, <1>8
    <3>2. CASE GoTo(t, "armed") /\ UNCHANGED <<queueVars, localVars>>
      BY <2>7, <3>2, <2>c DEF Arm, MaySuspend, InCallback
    <3> QED
      BY <2>7, <3>1, <3>2 DEF Arm
  <2>8. CASE YieldToHold(t)
    BY <2>8, <2>c DEF YieldToHold
  <2>9. CASE MainFuncEnd(t)
    BY <2>9, <2>c DEF MainFuncEnd
  <2>10. CASE SwapOut(t)
    BY <2>10, <2>c DEF SwapOut
  <2>11. CASE Deactivate(t)
    BY <2>11, <2>c DEF Deactivate
  <2>12. CASE SettleReady(t)
    <3>1. Running(t) \in Fibers
      BY <2>12, RunningType DEF SettleReady
    <3>2. QueueOK'
      BY <2>12, <1>2, <3>1 DEF SettleReady
    <3> QED
      BY <2>12, <2>d, <3>2 DEF SettleReady
  <2>13. CASE SettleEnded(t)
    <3>1. CASE Abort("stack")
      BY <3>1, <1>8
    <3>2. CASE GoTo(t, "scan") /\ UNCHANGED <<queueVars, localVars>>
      BY <2>13, <3>2, <2>c DEF SettleEnded
    <3>3. CASE GoTo(t, "scan") /\ Forget(t) /\ UNCHANGED queueVars
      BY <2>13, <3>3, <2>d, <1>c DEF SettleEnded
    <3>4. \/ Abort("stack")
          \/ GoTo(t, "scan") /\ UNCHANGED <<queueVars, localVars>>
          \/ GoTo(t, "scan") /\ Forget(t) /\ UNCHANGED queueVars
      BY <2>13 DEF SettleEnded
    <3> QED
      BY <3>1, <3>2, <3>3, <3>4
  <2>14. CASE SettleOther(t)
    BY <2>14, <2>c DEF SettleOther
  <2>15. CASE SetHold(t)
    BY <2>15, <2>d, <1>c DEF SetHold
  <2>16. CASE IdleLook(t)
    BY <2>16, <2>c DEF IdleLook, LookAtPending, KeepIdle
  <2>17. CASE IdleCheck(t)
    BY <2>17, <2>c DEF IdleCheck, KeepIdle
  <2>18. CASE PollEnd(t)
    BY <2>18, <2>c DEF PollEnd
  <2>19. CASE IdleBack(t)
    BY <2>19, <2>c DEF IdleBack
  <2> QED
    BY <1>9, <2>1, <2>2, <2>3, <2>4, <2>5, <2>6, <2>7, <2>8, <2>9, <2>10,
       <2>11, <2>12, <2>13, <2>14, <2>15, <2>16, <2>17, <2>18, <2>19 DEF RunStep
<1>10. ASSUME NEW t \in Threads, NEW f \in Fibers, Wake(t, f)
       PROVE  HandOK'
  BY <1>10, <1>2, LocalsKept DEF Wake
<1>11. CASE UNCHANGED vars
  BY <1>11, <1>c, LocalsKept DEF vars
<1> QED
  BY NextCases, <1>3, <1>4, <1>6, <1>7, <1>9, <1>10, <1>11

\* Every step respects the phases of start() and stop().
LEMMA PhaseStep ==
  ASSUME IndInv, [Next]_vars
  PROVE  PhaseOK'
<1>a. TypeOK /\ PhaseOK /\ HandOK
  BY DEF IndInv
<1>b. pc \in [Threads -> PCs] /\ (UseCaller => Caller \in Threads)
  BY <1>a DEF TypeOK, Threads
<1> USE <1>a, <1>b
<1>1. ASSUME UNCHANGED <<main, pc>>
      PROVE  PhaseOK'
  BY <1>1 DEF PhaseOK
<1>2. CASE Start
  BY <1>2, SchedulerAssumption DEF Start, PhaseOK, MainAt, Threads
<1>3. CASE StopStep
  BY <1>3 DEF StopStep, StopRequest, StopFlag, StopLook, StopCall, StopReturn,
              StopJoin, StopGoTo, PhaseOK, MainAt
<1>4. ASSUME NEW t \in Threads, RunStep(t)
      PROVE  PhaseOK'
  <2>1. pc[t] # "off" /\ UNCHANGED main
    BY <1>4 DEF RunStep, ScanTake, ScanNone, DispatchDead, DispatchFiber,
       DispatchCb, YieldToReady, MaySuspend, InCallback, Arm, YieldToHold,
       MainFuncEnd, SwapOut, Deactivate, SettleReady, SettleEnded,
       SettleOther, SetHold, IdleLook, IdleCheck, PollEnd, IdleBack, At, Abort
  <2>2. \A u \in Threads : u # t => pc'[u] = pc[u]
    BY <1>4 DEF RunStep, ScanTake, ScanNone, DispatchDead, DispatchFiber,
       DispatchCb, YieldToReady, Arm, YieldToHold,
       MainFuncEnd, SwapOut, Deactivate, SettleReady, SettleEnded,
       SettleOther, SetHold, IdleLook, IdleCheck, PollEnd, IdleBack,
       IdleOrBreak, GoTo, Abort
  <2> QED
    BY <2>1, <2>2 DEF PhaseOK
<1> QED
  BY NextCases, <1>1, <1>2, <1>3, <1>4
     DEF MainSubmit, UserSubmit, Wake, StopStep, vars

\* No callback moves.
LEMMA CbsKept ==
  ASSUME CbOnce, UNCHANGED <<m_fibers, submitted, starts>>,
         \A t \in Threads : ft'[t].cb = ft[t].cb
  PROVE  CbOnce'
  BY DEF CbOnce, CbPlaced, QueueDistinct, HandDistinct, InQueue, InHand

\* A fiber joins the queue.
LEMMA CbsFiberPushed ==
  ASSUME TypeOK, CbOnce, NEW f \in Fibers, ScheduleFiber(f),
         UNCHANGED <<submitted, starts>>,
         \A t \in Threads : ft'[t].cb = ft[t].cb
  PROVE  CbOnce'
<1> DEFINE n == Len(m_fibers)
<1>1. /\ n \in Nat
      /\ DOMAIN m_fibers = 1..n
      /\ DOMAIN m_fibers' = 1..(n + 1)
      /\ \A k \in 1..n : m_fibers'[k] = m_fibers[k]
      /\ m_fibers'[n + 1].cb = Null
  BY EntryTypes, AppendFacts DEF TypeOK, ScheduleFiber
<1> HIDE DEF n
<1>2. Null \notin Cbs
  BY SchedulerAssumption
<1>3. ASSUME NEW c \in Cbs PROVE InQueue(c)' <=> InQueue(c)
  BY <1>1, <1>2 DEF InQueue
<1>4. QueueDistinct'
  BY <1>1 DEF CbOnce, QueueDistinct
<1>5. \A c \in Cbs : InHand(c)' <=> InHand(c)
  BY DEF InHand
<1>6. \A c \in Cbs : CbPlaced(c)'
  BY <1>3, <1>5 DEF CbOnce, CbPlaced
<1>7. HandDistinct'
  BY DEF CbOnce, HandDistinct
<1> QED
  BY <1>4, <1>6, <1>7 DEF CbOnce

\* A callback that was never submitted joins the queue.
LEMMA CbsPushed ==
  ASSUME TypeOK, CbOnce, NEW c \in Cbs, NEW thr \in Pins, c \notin submitted,
         ScheduleCb(c, thr), UNCHANGED <<starts, ft>>
  PROVE  CbOnce'
<1> DEFINE n == Len(m_fibers)
<1>1. /\ n \in Nat
      /\ DOMAIN m_fibers = 1..n
      /\ DOMAIN m_fibers' = 1..(n + 1)
      /\ \A k \in 1..n : m_fibers'[k] = m_fibers[k]
      /\ m_fibers'[n + 1].cb = c
  BY EntryTypes, AppendFacts DEF TypeOK, ScheduleCb
<1> HIDE DEF n
<1>2. ~InQueue(c) /\ ~InHand(c) /\ starts[c] = 0
  BY DEF CbOnce, CbPlaced, TypeOK
<1>3. ASSUME NEW d \in Cbs PROVE InQueue(d)' <=> InQueue(d) \/ d = c
  BY <1>1 DEF InQueue
<1>4. QueueDistinct'
  BY <1>1, <1>2 DEF CbOnce, QueueDistinct, InQueue
<1>5. \A d \in Cbs : InHand(d)' <=> InHand(d)
  BY DEF InHand
<1>6. \A d \in Cbs : CbPlaced(d)'
  BY <1>2, <1>3, <1>5 DEF CbOnce, CbPlaced, ScheduleCb
<1>7. HandDistinct'
  BY DEF CbOnce, HandDistinct
<1> QED
  BY <1>4, <1>6, <1>7 DEF CbOnce

\* A thread takes the entry at i.
LEMMA CbsTaken ==
  ASSUME TypeOK, CbOnce, NEW t \in Threads, NEW i \in 1..Len(m_fibers),
         ft[t].cb = Null, ft' = [ft EXCEPT ![t] = m_fibers[i]],
         m_fibers' = RemoveAt(m_fibers, i), UNCHANGED <<submitted, starts>>
  PROVE  CbOnce'
<1> DEFINE n == Len(m_fibers)
<1>1. /\ n \in Nat /\ i \in 1..n
      /\ DOMAIN m_fibers = 1..n
      /\ DOMAIN m_fibers' = 1..(n - 1)
      /\ \A k \in 1..(n - 1) :
            m_fibers'[k] = IF k < i THEN m_fibers[k] ELSE m_fibers[k + 1]
  <2>1. m_fibers \in Seq(Entries)
    BY DEF TypeOK
  <2> QED
    BY <2>1, RemoveAtFacts
<1>2. \A u \in Threads : ft'[u] = IF u = t THEN m_fibers[i] ELSE ft[u]
  BY DEF TypeOK
<1>3. Null \notin Cbs
  BY SchedulerAssumption
<1> HIDE DEF n
<1>4. ASSUME NEW c \in Cbs PROVE InQueue(c)' <=> InQueue(c) /\ m_fibers[i].cb # c
  <2>1. ASSUME NEW k \in 1..n, m_fibers[k].cb = c, k # i
        PROVE  \E j \in 1..(n - 1) : m_fibers'[j].cb = c
    <3>1. CASE k < i
      BY <1>1, <2>1, <3>1
    <3>2. CASE k > i
      <4>1. (k - 1) \in 1..(n - 1) /\ ~((k - 1) < i) /\ (k - 1) + 1 = k
        BY <1>1, <3>2
      <4>2. m_fibers'[k - 1] = m_fibers[k]
        BY <1>1, <4>1
      <4> QED
        BY <2>1, <4>1, <4>2
    <3> QED
      BY <1>1, <2>1, <3>1, <3>2
  <2>2. ASSUME NEW j \in 1..(n - 1), m_fibers'[j].cb = c
        PROVE  \E k \in 1..n : k # i /\ m_fibers[k].cb = c
    <3>1. CASE j < i
      BY <1>1, <2>2, <3>1
    <3>2. CASE ~(j < i)
      <4>1. j + 1 \in 1..n /\ j + 1 # i
        BY <1>1, <3>2
      <4> QED
        BY <1>1, <2>2, <3>2, <4>1
    <3> QED
      BY <3>1, <3>2
  <2>3. \A k \in 1..n : m_fibers[k].cb = c /\ m_fibers[i].cb = c => k = i
    BY <1>1, <1>3 DEF CbOnce, QueueDistinct
  <2> QED
    BY <1>1, <2>1, <2>2, <2>3 DEF InQueue
<1>5. ASSUME NEW c \in Cbs PROVE InHand(c)' <=> InHand(c) \/ m_fibers[i].cb = c
  BY <1>2, <1>3 DEF InHand
<1>6. QueueDistinct'
  <2> SUFFICES ASSUME NEW j \in 1..(n - 1), NEW k \in 1..(n - 1),
                      m_fibers'[j].cb = m_fibers'[k].cb, m_fibers'[j].cb # Null
               PROVE  j = k
    BY <1>1 DEF QueueDistinct
  <2> DEFINE Old(x) == IF x < i THEN x ELSE x + 1
  <2>1. /\ Old(j) \in 1..n /\ Old(k) \in 1..n
        /\ m_fibers'[j] = m_fibers[Old(j)] /\ m_fibers'[k] = m_fibers[Old(k)]
    BY <1>1
  <2>2. Old(j) = Old(k)
    BY <1>1, <2>1 DEF CbOnce, QueueDistinct
  <2> QED
    BY <1>1, <2>2
<1>7. \A c \in Cbs : m_fibers[i].cb = c => InQueue(c)
  BY <1>1 DEF InQueue
<1>8. ASSUME NEW c \in Cbs PROVE CbPlaced(c)'
  BY <1>4, <1>5, <1>7 DEF CbOnce, CbPlaced
<1>9. HandDistinct'
  <2> SUFFICES ASSUME NEW u \in Threads, NEW v \in Threads,
                      ft'[u].cb = ft'[v].cb, ft'[u].cb # Null, u # v
               PROVE  FALSE
    BY DEF HandDistinct
  <2>1. CASE u # t /\ v # t
    BY <1>2, <2>1 DEF CbOnce, HandDistinct
  <2>2. CASE u = t \/ v = t
    <3>1. PICK w \in Threads : w # t /\ ft[w].cb = m_fibers[i].cb /\ ft[w].cb # Null
      BY <1>2, <2>2
    <3>2. m_fibers[i].cb \in Cbs
      BY <3>1, EntryTypes DEF TypeOK
    <3>3. InHand(m_fibers[i].cb) /\ InQueue(m_fibers[i].cb)
      BY <3>1, <3>2, <1>7 DEF InHand
    <3> QED
      BY <3>2, <3>3 DEF CbOnce, CbPlaced
  <2> QED
    BY <2>1, <2>2
<1> QED
  BY <1>6, <1>8, <1>9 DEF CbOnce

\* A thread enters the callback it took.
LEMMA CbsEntered ==
  ASSUME TypeOK, CbOnce, NEW t \in Threads, NEW c \in Cbs, ft[t].cb = c,
         ft' = [ft EXCEPT ![t] = NoEntry],
         starts' = [starts EXCEPT ![c] = @ + 1],
         UNCHANGED <<m_fibers, submitted>>
  PROVE  CbOnce'
<1>1. \A u \in Threads : ft'[u].cb = IF u = t THEN Null ELSE ft[u].cb
  BY EntryTypes DEF TypeOK
<1>2. Null \notin Cbs /\ starts \in [Cbs -> Nat]
  BY SchedulerAssumption DEF TypeOK
<1>3. InHand(c) /\ starts[c] = 0 /\ ~InQueue(c) /\ c \in submitted
  BY DEF CbOnce, CbPlaced, InHand
<1>4. \A d \in Cbs : InQueue(d)' <=> InQueue(d)
  BY DEF InQueue
<1>5. ASSUME NEW d \in Cbs PROVE InHand(d)' <=> InHand(d) /\ d # c
  BY <1>1, <1>2 DEF InHand, CbOnce, HandDistinct
<1>6. \A d \in Cbs : starts'[d] = IF d = c THEN 1 ELSE starts[d]
  BY <1>2, <1>3
<1>7. ASSUME NEW d \in Cbs PROVE CbPlaced(d)'
  BY <1>3, <1>4, <1>5, <1>6 DEF CbOnce, CbPlaced
<1>8. HandDistinct'
  BY <1>1 DEF CbOnce, HandDistinct
<1>9. QueueDistinct'
  BY DEF CbOnce, QueueDistinct
<1> QED
  BY <1>7, <1>8, <1>9 DEF CbOnce

\* Every step keeps each submitted callback in exactly one place.
LEMMA CbStep ==
  ASSUME IndInv, [Next]_vars
  PROVE  CbOnce'
<1>a. TypeOK /\ CbOnce /\ HandOK
  BY DEF IndInv
<1>b. /\ ft \in [Threads -> Entries]
      /\ NoEntry.cb = Null
      /\ \A t \in Threads : pc[t] # "dispatch" => ft[t].cb = Null
  BY <1>a, EntryTypes DEF TypeOK, HandOK, LocalOK
<1> USE <1>a, <1>b
<1>1. ASSUME NEW c \in Cbs, NEW thr \in Pins,
             MainSubmit(c, thr) \/ \E t \in Threads : UserSubmit(t, c, thr)
      PROVE  CbOnce'
  BY <1>1, CbsPushed DEF MainSubmit, UserSubmit
<1>2. CASE Start \/ StopStep
  BY <1>2, CbsKept DEF Start, StopStep, StopRequest, StopFlag, StopLook,
     StopCall, StopReturn, StopJoin, StopGoTo
<1>3. ASSUME NEW w, Abort(w)
      PROVE  CbOnce'
  BY <1>3, CbsKept DEF Abort
<1>4. ASSUME NEW t \in Threads, RunStep(t)
      PROVE  CbOnce'
  <2>1. CASE ScanTake(t)
    <3>1. DOMAIN m_fibers = 1..Len(m_fibers)
      BY DEF TypeOK
    <3> QED
      BY <2>1, <3>1, CbsTaken DEF ScanTake, Erase, At
  <2>2. CASE ScanNone(t)
    BY <2>2, CbsKept DEF ScanNone, At
  <2>3. CASE DispatchCb(t)
    <3>1. CASE Abort("reset") \/ Abort("stack")
      BY <3>1, <1>3
    <3>2. CASE /\ ft' = [ft EXCEPT ![t] = NoEntry]
               /\ starts' = [starts EXCEPT ![ft[t].cb] = @ + 1]
               /\ UNCHANGED queueVars
      <4>1. ft[t].cb \in Cbs
        BY <2>3, SchedulerAssumption DEF DispatchCb, At, HandOK, LocalOK, EntryOK
      <4> QED
        BY <3>2, <4>1, CbsEntered
    <3> QED
      BY <2>3, <3>1, <3>2 DEF DispatchCb
  <2>4. CASE SettleReady(t)
    <3>1. Running(t) \in Fibers
      BY <2>4, RunningType DEF SettleReady, At, FiberPCs
    <3>2. \A u \in Threads : ft'[u].cb = ft[u].cb
      BY <2>4 DEF SettleReady, Forget, At
    <3> QED
      BY <2>4, <3>1, <3>2, CbsFiberPushed DEF SettleReady
  <2>5. CASE SettleEnded(t) \/ SetHold(t)
    <3>1. CASE Abort("stack")
      BY <3>1, <1>3
    <3>2. CASE (UNCHANGED ft \/ Forget(t)) /\ UNCHANGED <<queueVars, starts>>
      <4>0. ft[t].cb = Null
        <5>1. pc[t] \in {"settle", "hold"}
          BY <2>5 DEF SettleEnded, SetHold, At
        <5> QED
          BY <5>1
      <4>1. \A u \in Threads : ft'[u].cb = ft[u].cb
        BY <3>2, <4>0 DEF Forget
      <4> QED
        BY <3>2, <4>1, CbsKept
    <3> QED
      BY <2>5, <3>1, <3>2 DEF SettleEnded, SetHold
  <2>6. CASE DispatchFiber(t) \/ Arm(t)
    <3>1. CASE UNCHANGED <<queueVars, ft, starts>>
      BY <3>1, CbsKept
    <3> QED
      BY <2>6, <3>1 DEF DispatchFiber, Arm, Abort
  <2>7. CASE \/ DispatchDead(t) \/ YieldToReady(t) \/ YieldToHold(t)
             \/ MainFuncEnd(t) \/ SwapOut(t) \/ Deactivate(t)
             \/ SettleOther(t) \/ IdleLook(t) \/ IdleCheck(t) \/ PollEnd(t)
             \/ IdleBack(t)
    <3>1. UNCHANGED <<queueVars, ft, starts>>
      BY <2>7 DEF DispatchDead, YieldToReady, YieldToHold, MainFuncEnd,
         SwapOut, Deactivate, SettleOther, IdleLook, IdleCheck, PollEnd,
         IdleBack
    <3> QED
      BY <3>1, CbsKept
  <2> QED
    BY <1>4, <2>1, <2>2, <2>3, <2>4, <2>5, <2>6, <2>7 DEF RunStep
<1>5. ASSUME NEW t \in Threads, NEW f \in Fibers, Wake(t, f)
      PROVE  CbOnce'
  BY <1>5, CbsFiberPushed DEF Wake
<1>6. CASE UNCHANGED vars
  BY <1>6, CbsKept DEF vars
<1> QED
  BY NextCases, <1>1, <1>2, <1>4, <1>5, <1>6 DEF StopStep

\* IndInv holds at the start ...
LEMMA InitInd == Init => IndInv
<1> SUFFICES ASSUME Init PROVE IndInv
  OBVIOUS
<1>1. TypeOK
  <2>1. NoEntry \in Entries
    BY EntryTypes
  <2>2. <<>> \in Seq(Entries)
    OBVIOUS
  <2> QED
    BY <2>1, <2>2 DEF Init, TypeOK, PCs, States, MainPCs, Faults
<1>2. CountersCover
  <2>1. Busy = {} /\ Idle = {}
    BY DEF Init, Busy, Idle, BusyPCs, IdlePCs
  <2> QED
    BY <2>1, FS_EmptySet DEF Init, CountersCover
<1>3. HandOK
  BY EntryTypes DEF Init, HandOK, QueueOK, LocalOK, FiberPCs
<1>4. PhaseOK
  BY DEF Init, PhaseOK
<1>5. CbOnce
  BY EntryTypes, SchedulerAssumption
     DEF Init, CbOnce, CbPlaced, QueueDistinct, HandDistinct, InQueue, InHand
<1> QED
  BY <1>1, <1>2, <1>3, <1>4, <1>5 DEF IndInv

\* ... and every step keeps it,
LEMMA NextInd == IndInv /\ [Next]_vars => IndInv'
  BY TypeStep, CountersStep, HandStep, PhaseStep, CbStep DEF IndInv

\* so it is an invariant of every scheduler.
LEMMA IndInvHolds == Spec => []IndInv
  BY InitInd, NextInd, PTL DEF Spec

\* The types hold in every reachable state of every scheduler: neither size_t
\* counter of run() is ever decremented below zero.
THEOREM SchedulerTypes == Spec => []TypeOK
<1>1. IndInv => TypeOK
  BY DEF IndInv
<1> QED
  BY <1>1, IndInvHolds, PTL

\* m_activeThreadCount never misses a thread that holds work, whatever the
\* number of threads and in spite of the races on fibers.
THEOREM SchedulerCounters == Spec => []CountersCover
<1>1. IndInv => CountersCover
  BY DEF IndInv
<1> QED
  BY <1>1, IndInvHolds, PTL

\* No submitted callback is lost or entered twice.
THEOREM SchedulerCbOnce == Spec => []CbOnce
<1>1. IndInv => CbOnce
  BY DEF IndInv
<1> QED
  BY <1>1, IndInvHolds, PTL

USE DEF queueVars, countVars, stopVars, localVars, fiberVars, cbVars

----------------------------------------------------------------------------
(* Every scheduler is a pool.                                              *)

\* A fiber's callback, and one that has ended, was entered; after stop() no
\* thread moves, and the caller's not while stop() joins the others.
StartedOK ==
    /\ \A f \in Fibers : m_cb[f] # Null => starts[m_cb[f]] = 1
    /\ \A c \in finished : starts[c] = 1
StopQuiet ==
    /\ UseCaller /\ main \in {"join", "stopped"} => ~Alive(Caller)
    /\ main = "stopped" => \A t \in Threads : ~Alive(t)

\* For every scheduler: what makes it a TaskPool.
PoolInv == IndInv /\ StartedOK /\ StopQuiet

\* A step of run() is of a thread in run(), moves no other, and is not one of
\* the main thread.
LEMMA RunStepMoves ==
  ASSUME TypeOK, NEW t \in Threads, RunStep(t)
  PROVE  /\ Alive(t) /\ UNCHANGED main
         /\ \A u \in Threads : u # t => pc'[u] = pc[u]
<1>1. Alive(t) /\ UNCHANGED main
  BY DEF Alive, RunStep, ScanTake, ScanNone, DispatchDead, DispatchFiber,
     DispatchCb, YieldToReady, MaySuspend, InCallback, Arm, YieldToHold,
     MainFuncEnd, SwapOut, Deactivate, SettleReady, SettleEnded,
     SettleOther, SetHold, IdleLook, IdleCheck, PollEnd, IdleBack, At, Abort
<1>2. \A u \in Threads : u # t => pc'[u] = pc[u]
  BY DEF TypeOK, RunStep, ScanTake, ScanNone, DispatchDead, DispatchFiber,
     DispatchCb, YieldToReady, Arm, YieldToHold,
     MainFuncEnd, SwapOut, Deactivate, SettleReady, SettleEnded,
     SettleOther, SetHold, IdleLook, IdleCheck, PollEnd, IdleBack,
     IdleOrBreak, GoTo, Abort
<1> QED
  BY <1>1, <1>2

\* The two steps of run() that enter and end callbacks; all others leave the
\* history of the callbacks alone.
LEMMA RunStepHistory ==
  ASSUME NEW t \in Threads, RunStep(t)
  PROVE  /\ DispatchCb(t) \/ UNCHANGED starts
         /\ MainFuncEnd(t) \/ UNCHANGED finished
         /\ DispatchCb(t) \/ MainFuncEnd(t) \/ SettleEnded(t) \/ UNCHANGED m_cb
         /\ UNCHANGED submitted
<1>1. CASE \/ ScanTake(t) \/ ScanNone(t) \/ DispatchDead(t) \/ DispatchFiber(t)
           \/ YieldToReady(t) \/ Arm(t) \/ YieldToHold(t) \/ SwapOut(t)
           \/ Deactivate(t)
  BY <1>1 DEF ScanTake, ScanNone, DispatchDead, DispatchFiber, YieldToReady,
     Arm, YieldToHold, SwapOut, Deactivate, Abort
<1>2. CASE \/ SettleReady(t) \/ SettleEnded(t) \/ SettleOther(t) \/ SetHold(t)
           \/ IdleLook(t) \/ IdleCheck(t) \/ PollEnd(t) \/ IdleBack(t)
  BY <1>2 DEF SettleReady, SettleEnded, SettleOther, SetHold, IdleLook,
     IdleCheck, PollEnd, IdleBack, ScheduleFiber, Abort
<1>3. CASE DispatchCb(t)
  BY <1>3 DEF DispatchCb, Abort
<1>4. CASE MainFuncEnd(t)
  BY <1>4 DEF MainFuncEnd
<1> QED
  BY <1>1, <1>2, <1>3, <1>4 DEF RunStep

\* DispatchCb either aborts or enters, for the first time, the callback that
\* the thread took.
LEMMA EnterFacts ==
  ASSUME IndInv, NEW t \in Threads, DispatchCb(t)
  PROVE  \/ UNCHANGED <<m_cb, starts, finished, submitted>>
         \/ \E f \in Fibers, c \in Cbs :
               /\ m_cb' = [m_cb EXCEPT ![f] = c]
               /\ starts' = [starts EXCEPT ![c] = 1]
               /\ starts[c] = 0 /\ c \in submitted
               /\ UNCHANGED <<finished, submitted>>
<1> DEFINE c == ft[t].cb
<1>1. c \in Cbs
  BY SchedulerAssumption DEF IndInv, HandOK, LocalOK, EntryOK, DispatchCb, At
<1>2. starts[c] = 0 /\ c \in submitted
  BY <1>1 DEF IndInv, CbOnce, CbPlaced, InHand
<1>3. starts \in [Cbs -> Nat]
  BY DEF IndInv, TypeOK
<1>4. CASE Abort("reset") \/ Abort("stack")
  BY <1>4 DEF Abort
<1>5. ASSUME NEW f \in Fibers,
             m_cb' = [m_cb EXCEPT ![f] = c],
             starts' = [starts EXCEPT ![c] = @ + 1],
             UNCHANGED <<finished, submitted>>
      PROVE  /\ m_cb' = [m_cb EXCEPT ![f] = c]
             /\ starts' = [starts EXCEPT ![c] = 1]
             /\ starts[c] = 0 /\ c \in submitted
             /\ UNCHANGED <<finished, submitted>>
  BY <1>1, <1>2, <1>3, <1>5
<1> HIDE DEF c
<1> QED
  BY <1>1, <1>4, <1>5 DEF DispatchCb, c

\* The callback that ends is the fiber's, if it has one.
LEMMA EndFacts ==
  ASSUME IndInv, NEW t \in Threads, MainFuncEnd(t)
  PROVE  \E f \in Fibers :
            /\ m_cb' = m_cb \/ m_cb' = [m_cb EXCEPT ![f] = Null]
            /\ finished' = finished \cup ({m_cb[f]} \ {Null})
            /\ UNCHANGED <<starts, submitted>>
<1>1. Running(t) \in Fibers
  BY RunningType DEF IndInv, MainFuncEnd, At, FiberPCs
<1> QED
  BY <1>1 DEF MainFuncEnd

\* A fiber gets a callback when it enters it, and a callback ends on the fiber
\* it was entered on.
LEMMA StartedStep ==
  ASSUME PoolInv, [Next]_vars
  PROVE  StartedOK'
<1>a. /\ IndInv /\ StartedOK
      /\ starts \in [Cbs -> Nat] /\ m_cb \in [Fibers -> Cbs \cup {Null}]
      /\ finished \subseteq Cbs
      /\ Null \notin Cbs
  BY SchedulerAssumption DEF PoolInv, IndInv, TypeOK
<1> USE <1>a
<1>1. ASSUME UNCHANGED <<m_cb, starts, finished>>
      PROVE  StartedOK'
  BY <1>1 DEF StartedOK
<1>2. ASSUME NEW c \in Cbs, NEW thr \in Pins,
             MainSubmit(c, thr) \/ \E t \in Threads : UserSubmit(t, c, thr)
      PROVE  StartedOK'
  BY <1>1, <1>2 DEF MainSubmit, UserSubmit
<1>3. CASE Start \/ StopStep
  BY <1>1, <1>3 DEF Start, StopStep, StopRequest, StopFlag, StopLook, StopCall,
     StopReturn, StopJoin, StopGoTo
<1>4. ASSUME NEW t \in Threads, RunStep(t)
      PROVE  StartedOK'
  <2>1. CASE DispatchCb(t)
    <3>1. ASSUME NEW f \in Fibers, NEW c \in Cbs,
                 m_cb' = [m_cb EXCEPT ![f] = c],
                 starts' = [starts EXCEPT ![c] = 1],
                 starts[c] = 0, UNCHANGED finished
          PROVE  StartedOK'
      BY <3>1 DEF StartedOK
    <3> QED
      BY <2>1, <3>1, <1>1, EnterFacts
  <2>2. CASE MainFuncEnd(t)
    BY <2>2, EndFacts DEF StartedOK
  <2>3. CASE SettleEnded(t)
    <3>1. Running(t) \in Fibers
      BY <2>3, RunningType DEF IndInv, SettleEnded, At, FiberPCs
    <3>2. m_cb' = m_cb \/ m_cb' = [m_cb EXCEPT ![Running(t)] = Null]
      BY <2>3 DEF SettleEnded, Abort
    <3>3. UNCHANGED <<starts, finished>>
      BY <2>3 DEF SettleEnded, Abort
    <3> QED
      BY <3>1, <3>2, <3>3 DEF StartedOK
  <2>4. CASE ~(DispatchCb(t) \/ MainFuncEnd(t) \/ SettleEnded(t))
    BY <1>1, <1>4, <2>4, RunStepHistory
  <2> QED
    BY <2>1, <2>2, <2>3, <2>4
<1>5. ASSUME NEW t \in Threads, NEW f \in Fibers, Wake(t, f)
      PROVE  StartedOK'
  BY <1>1, <1>5 DEF Wake
<1>6. CASE UNCHANGED vars
  BY <1>1, <1>6 DEF vars
<1> QED
  BY NextCases, <1>2, <1>3, <1>4, <1>5, <1>6 DEF StopStep

\* Once stop() joins, the threads it has seen out of run() stay out.
LEMMA QuietStep ==
  ASSUME PoolInv, [Next]_vars
  PROVE  StopQuiet'
<1>a. /\ PhaseOK /\ StopQuiet /\ TypeOK
      /\ pc \in [Threads -> PCs]
      /\ Caller \notin Workers
  BY SchedulerAssumption DEF PoolInv, IndInv, TypeOK
<1> USE <1>a DEF Alive
<1>1. ASSUME UNCHANGED <<main, pc>>
      PROVE  StopQuiet'
  BY <1>1 DEF StopQuiet
<1>2. CASE Start
  BY <1>2 DEF Start, StopQuiet
<1>3. CASE StopRequest
  BY <1>3 DEF StopRequest, StopQuiet
<1>4. CASE StopFlag
  BY <1>4 DEF StopFlag, StopQuiet, PhaseOK, MainAt, Threads
<1>5. CASE StopLook
  BY <1>5 DEF StopLook, StopGoTo, StopQuiet
<1>6. CASE StopCall
  BY <1>6 DEF StopCall, StopGoTo, StopQuiet, PhaseOK, MainAt
<1>7. CASE StopReturn
  BY <1>7 DEF StopReturn, StopQuiet
<1>8. CASE StopJoin
  BY <1>8 DEF StopJoin, StopQuiet, MainAt, Threads
<1>9. ASSUME NEW t \in Threads, RunStep(t)
      PROVE  StopQuiet'
  <2>1. /\ Alive(t) /\ UNCHANGED main
        /\ \A u \in Threads : u # t => pc'[u] = pc[u]
    BY <1>9, RunStepMoves
  <2>2. main # "stopped" /\ (main = "join" /\ UseCaller => Caller \in Threads /\ Caller # t)
    BY <2>1 DEF StopQuiet, Threads
  <2> QED
    BY <2>1, <2>2 DEF StopQuiet
<1> QED
  BY NextCases, <1>1, <1>2, <1>3, <1>4, <1>5, <1>6, <1>7, <1>8, <1>9
     DEF MainSubmit, UserSubmit, Wake, vars

\* PoolInv holds for every scheduler, polling or not.
LEMMA PoolInvHolds == Spec => []PoolInv
<1>1. Init => PoolInv
  <2>1. Init => StartedOK /\ StopQuiet
    BY DEF Init, StartedOK, StopQuiet
  <2> QED
    BY <2>1, InitInd DEF PoolInv
<1>2. PoolInv /\ [Next]_vars => PoolInv'
  BY NextInd, StartedStep, QuietStep DEF PoolInv
<1> QED
  BY <1>1, <1>2, PTL DEF Spec

----------------------------------------------------------------------------
(* Each kind of step, seen from the pool.                                  *)

USE DEF Pool!Next, Pool!vars, Pool!Move, Pool!Submit, Pool!Enter, Pool!End,
        Pool!Join, Pool!Advance

\* What does not touch a callback and does not end stop() is not seen.
LEMMA PoolStutters ==
  ASSUME UNCHANGED <<starts, finished, submitted>>,
         main' = "stopped" <=> main = "stopped"
  PROVE  [Pool!Next]_(Pool!vars)
<1>1. UNCHANGED PoolState
  BY DEF PoolState
<1>2. UNCHANGED (main = "stopped")
  OBVIOUS
<1> QED
  BY <1>1, <1>2

\* A step that leaves the callbacks alone is a join of the pool or a stutter.
LEMMA PoolJoins ==
  ASSUME UNCHANGED <<starts, finished, submitted>>, main # "stopped"
  PROVE  [Pool!Next]_(Pool!vars)
<1>1. UNCHANGED PoolState
  BY DEF PoolState
<1>2. CASE main' = "stopped"
  BY <1>1, <1>2
<1>3. CASE main' # "stopped"
  BY <1>1, <1>3
<1> QED
  BY <1>2, <1>3

\* A callback goes one step.
LEMMA PoolAdvances ==
  ASSUME NEW c \in Cbs, main # "stopped", UNCHANGED main,
         \A d \in Cbs : d # c => PoolState'[d] = PoolState[d],
         \/ PoolState[c] = "new" /\ PoolState'[c] = "queued"
         \/ PoolState[c] = "queued" /\ PoolState'[c] = "running"
         \/ PoolState[c] = "running" /\ PoolState'[c] = "done"
  PROVE  [Pool!Next]_(Pool!vars)
<1> DEFINE S == PoolState
           T == PoolState'
<1>1. S = [d \in Cbs |-> S[d]] /\ T = [d \in Cbs |-> T[d]]
  BY DEF PoolState
<1> HIDE DEF S, T
<1>2. T = [S EXCEPT ![c] = T[c]]
  BY <1>1 DEF S, T
<1> QED
  BY <1>2 DEF S, T

\* It is submitted, entered or ended.
LEMMA PoolSubmits ==
  ASSUME PoolInv, NEW c \in Cbs, c \notin submitted,
         submitted' = submitted \cup {c}, UNCHANGED <<starts, finished, main>>,
         main # "stopped"
  PROVE  [Pool!Next]_(Pool!vars)
<1>1. starts[c] = 0 /\ c \notin finished
  BY DEF PoolInv, StartedOK, IndInv, CbOnce, CbPlaced, TypeOK
<1>2. ~(starts[c] > 1) /\ starts[c] # 1
  BY <1>1
<1>3. PoolState[c] = "new"
  BY <1>1, <1>2 DEF PoolState
<1>4. PoolState'[c] = "queued"
  <2>1. c \in submitted' /\ c \notin finished' /\ starts'[c] = starts[c]
    BY <1>1
  <2> QED
    BY <1>2, <2>1 DEF PoolState
<1>5. \A d \in Cbs : d # c => PoolState'[d] = PoolState[d]
  BY DEF PoolState
<1> QED
  BY <1>3, <1>4, <1>5, PoolAdvances

\* A step that enters a submitted callback is an Enter of the pool ...
LEMMA PoolEnters ==
  ASSUME PoolInv, NEW c \in Cbs, starts[c] = 0, c \in submitted,
         starts' = [starts EXCEPT ![c] = 1],
         UNCHANGED <<finished, submitted, main>>, main # "stopped"
  PROVE  [Pool!Next]_(Pool!vars)
<1>1. c \notin finished /\ starts \in [Cbs -> Nat]
  BY DEF PoolInv, StartedOK, IndInv, TypeOK
<1>2. starts'[c] = 1 /\ ~(1 > 1) /\ ~(0 > 1)
  BY <1>1
<1>3. PoolState[c] = "queued"
  BY <1>1, <1>2 DEF PoolState
<1>4. PoolState'[c] = "running"
  BY <1>1, <1>2 DEF PoolState
<1>5. \A d \in Cbs : d # c => PoolState'[d] = PoolState[d]
  <2>1. \A d \in Cbs : d # c => starts'[d] = starts[d]
    BY <1>1
  <2> QED
    BY <2>1 DEF PoolState
<1> QED
  BY <1>3, <1>4, <1>5, PoolAdvances

\* ... and one that ends it an End.
LEMMA PoolEnds ==
  ASSUME PoolInv, NEW c \in Cbs, starts[c] = 1, c \notin finished,
         finished' = finished \cup {c},
         UNCHANGED <<starts, submitted, main>>, main # "stopped"
  PROVE  [Pool!Next]_(Pool!vars)
<1>1. PoolState[c] = "running"
  <2>1. ~(starts[c] > 1)
    OBVIOUS
  <2> QED
    BY <2>1 DEF PoolState
<1>2. PoolState'[c] = "done"
  <2>1. ~(starts'[c] > 1) /\ c \in finished'
    OBVIOUS
  <2> QED
    BY <2>1 DEF PoolState
<1>3. \A d \in Cbs : d # c => PoolState'[d] = PoolState[d]
  BY DEF PoolState
<1> QED
  BY <1>1, <1>2, <1>3, PoolAdvances

\* A step of the scheduler is one of the pool, or is not seen by it.
LEMMA PoolStep ==
  ASSUME PoolInv, [Next]_vars
  PROVE  [Pool!Next]_(Pool!vars)
<1>a. /\ IndInv /\ StartedOK /\ StopQuiet /\ TypeOK
      /\ Null \notin Cbs /\ m_cb \in [Fibers -> Cbs \cup {Null}]
  BY SchedulerAssumption DEF PoolInv, IndInv, TypeOK
<1>b. \A t \in Threads : Alive(t) => main # "stopped"
  BY <1>a DEF StopQuiet
<1> USE <1>a
<1>1. ASSUME NEW c \in Cbs, NEW thr \in Pins, MainSubmit(c, thr)
      PROVE  [Pool!Next]_(Pool!vars)
  BY <1>1, PoolSubmits DEF MainSubmit, ScheduleCb, MainAt
<1>2. ASSUME NEW t \in Threads, NEW c \in Cbs, NEW thr \in Pins,
             UserSubmit(t, c, thr)
      PROVE  [Pool!Next]_(Pool!vars)
  <2>1. main # "stopped"
    BY <1>2, <1>b DEF UserSubmit, InCallback, At, Alive
  <2> QED
    BY <1>2, <2>1, PoolSubmits DEF UserSubmit, ScheduleCb
<1>3. CASE Start \/ StopStep
  <2>1. main # "stopped" /\ UNCHANGED <<starts, finished, submitted>>
    BY <1>3 DEF Start, StopStep, StopRequest, StopFlag, StopLook, StopCall,
       StopReturn, StopJoin, StopGoTo, MainAt
  <2> QED
    BY <2>1, PoolJoins
<1>4. ASSUME NEW t \in Threads, RunStep(t)
      PROVE  [Pool!Next]_(Pool!vars)
  <2>1. main # "stopped" /\ UNCHANGED <<main, submitted>>
    BY <1>4, <1>b, RunStepMoves, RunStepHistory
  <2>2. CASE DispatchCb(t)
    BY <2>1, <2>2, EnterFacts, PoolStutters, PoolEnters
  <2>3. CASE MainFuncEnd(t)
    <3>1. PICK f \in Fibers : /\ finished' = finished \cup ({m_cb[f]} \ {Null})
                              /\ UNCHANGED <<starts, submitted>>
      BY <2>3, EndFacts
    <3>2. CASE m_cb[f] = Null \/ m_cb[f] \in finished
      <4>1. finished' = finished
        BY <3>1, <3>2
      <4> QED
        BY <2>1, <3>1, <4>1, PoolStutters
    <3>3. CASE m_cb[f] # Null /\ m_cb[f] \notin finished
      <4>1. m_cb[f] \in Cbs /\ starts[m_cb[f]] = 1
        BY <3>3 DEF StartedOK
      <4>2. finished' = finished \cup {m_cb[f]}
        BY <3>1, <3>3
      <4> QED
        BY <2>1, <3>1, <3>3, <4>1, <4>2, PoolEnds
    <3> QED
      BY <3>2, <3>3
  <2>4. CASE ~(DispatchCb(t) \/ MainFuncEnd(t))
    BY <1>4, <2>1, <2>4, RunStepHistory, PoolStutters
  <2> QED
    BY <2>2, <2>3, <2>4
<1>5. ASSUME NEW t \in Threads, NEW f \in Fibers, Wake(t, f)
      PROVE  [Pool!Next]_(Pool!vars)
  BY <1>5, PoolStutters DEF Wake
<1>6. CASE UNCHANGED vars
  BY <1>6, PoolStutters DEF vars
<1> QED
  BY NextCases, <1>1, <1>2, <1>3, <1>4, <1>5, <1>6 DEF StopStep

\* Seen from outside, a scheduler with any number of threads, fibers and
\* callbacks is a pool: each callback goes from new over queued and running
\* to done, and nothing moves once stop() has returned.
THEOREM SchedulerIsPool == Spec => ImplementsPool
<1>1. Init => Pool!Init
  BY DEF Init, Pool!Init, PoolState
<1> QED
  BY <1>1, PoolStep, PoolInvHolds, PTL DEF Spec, ImplementsPool, Pool!Spec
----------------------------------------------------------------------------
(* A scheduler that does not poll.                                         *)

\* The queue as positions 1..n, and what push_back makes of it.
LEMMA QueueAppended ==
  ASSUME TypeOK, NEW e \in Entries, m_fibers' = Append(m_fibers, e)
  PROVE  \E n \in Nat : /\ DOMAIN m_fibers = 1..n /\ DOMAIN m_fibers' = 1..(n + 1)
                        /\ \A i \in 1..n : m_fibers'[i] = m_fibers[i]
                        /\ m_fibers'[n + 1] = e
<1>1. m_fibers \in Seq(Entries) /\ Len(m_fibers) \in Nat
  BY DEF TypeOK
<1>2. DOMAIN m_fibers = 1..Len(m_fibers) /\ DOMAIN m_fibers' = 1..(Len(m_fibers) + 1)
  BY <1>1, AppendFacts
<1>3. /\ \A i \in 1..Len(m_fibers) : m_fibers'[i] = m_fibers[i]
      /\ m_fibers'[Len(m_fibers) + 1] = e
  BY <1>1, AppendFacts
<1> QED
  BY <1>1, <1>2, <1>3

\* Two entries of the queue were two other entries before one was erased.
LEMMA QueueErased ==
  ASSUME TypeOK, NEW i \in 1..Len(m_fibers), m_fibers' = RemoveAt(m_fibers, i)
  PROVE  \A j, k \in DOMAIN m_fibers' :
            \E p, q \in DOMAIN m_fibers \ {i} :
               /\ m_fibers'[j] = m_fibers[p] /\ m_fibers'[k] = m_fibers[q]
               /\ p = q => j = k
<1> DEFINE n == Len(m_fibers)
           Old(j) == IF j < i THEN j ELSE j + 1
<1>1. /\ n \in Nat /\ i \in 1..n
      /\ DOMAIN m_fibers = 1..n
      /\ DOMAIN m_fibers' = 1..(n - 1)
      /\ \A k \in 1..(n - 1) :
            m_fibers'[k] = IF k < i THEN m_fibers[k] ELSE m_fibers[k + 1]
  <2>1. m_fibers \in Seq(Entries)
    BY DEF TypeOK
  <2> QED
    BY <2>1, RemoveAtFacts
<1> HIDE DEF n
<1>2. \A j \in 1..(n - 1) : Old(j) \in (1..n) \ {i} /\ m_fibers'[j] = m_fibers[Old(j)]
  BY <1>1
<1>3. \A j, k \in 1..(n - 1) : Old(j) = Old(k) => j = k
  BY <1>1
<1> HIDE DEF Old
<1> QED
  BY <1>1, <1>2, <1>3

\* The places of the fibers: nothing is added ...
LEMMA OwnedKept ==
  ASSUME FiberOwned,
         \A i \in DOMAIN m_fibers' :
            \/ i \in DOMAIN m_fibers /\ m_fibers'[i] = m_fibers[i]
            \/ m_fibers'[i].fiber = Null,
         \A t \in Threads : /\ ft'[t].fiber \in {ft[t].fiber, Null}
                            /\ cb_fiber'[t] \in {cb_fiber[t], Null}
  PROVE  FiberOwned'
<1>1. \A i, j \in DOMAIN m_fibers' :
         m_fibers'[i].fiber = m_fibers'[j].fiber
            => i = j \/ m_fibers'[i].fiber = Null
  BY DEF FiberOwned
<1>2. \A i \in DOMAIN m_fibers', t \in Threads :
         m_fibers'[i].fiber \in {ft'[t].fiber, cb_fiber'[t]}
            => m_fibers'[i].fiber = Null
  BY DEF FiberOwned
<1>3. \A t, u \in Threads :
         /\ ft'[t].fiber = ft'[u].fiber => t = u \/ ft'[t].fiber = Null
         /\ cb_fiber'[t] = cb_fiber'[u] => t = u \/ cb_fiber'[t] = Null
         /\ ft'[t].fiber = cb_fiber'[u] => ft'[t].fiber = Null
  BY DEF FiberOwned
<1> QED
  BY <1>1, <1>2, <1>3 DEF FiberOwned

\* ... a thread takes the entry at i ...
LEMMA OwnedTaken ==
  ASSUME FiberOwned, TypeOK, NEW t \in Threads, NEW i \in 1..Len(m_fibers),
         m_fibers' = RemoveAt(m_fibers, i), UNCHANGED cb_fiber,
         ft' = [ft EXCEPT ![t] = m_fibers[i]]
  PROVE  FiberOwned'
<1>1. \A u \in Threads : ft'[u] = IF u = t THEN m_fibers[i] ELSE ft[u]
  BY DEF TypeOK
<1>2. i \in DOMAIN m_fibers
  BY DEF TypeOK
<1>3. \A j, k \in DOMAIN m_fibers' :
         m_fibers'[j].fiber = m_fibers'[k].fiber
            => j = k \/ m_fibers'[j].fiber = Null
  BY QueueErased DEF FiberOwned
<1>4. \A j \in DOMAIN m_fibers' : \E p \in DOMAIN m_fibers \ {i} : m_fibers'[j] = m_fibers[p]
  BY QueueErased
<1>5. \A j \in DOMAIN m_fibers', u \in Threads :
         m_fibers'[j].fiber \in {ft'[u].fiber, cb_fiber'[u]}
            => m_fibers'[j].fiber = Null
  BY <1>1, <1>2, <1>4 DEF FiberOwned
<1>6. \A u, v \in Threads :
         /\ ft'[u].fiber = ft'[v].fiber => u = v \/ ft'[u].fiber = Null
         /\ cb_fiber'[u] = cb_fiber'[v] => u = v \/ cb_fiber'[u] = Null
         /\ ft'[u].fiber = cb_fiber'[v] => ft'[u].fiber = Null
  BY <1>1, <1>2 DEF FiberOwned
<1> QED
  BY <1>3, <1>5, <1>6 DEF FiberOwned

\* ... gets a fiber that nothing refers to ...
LEMMA OwnedEntered ==
  ASSUME FiberOwned, TypeOK, NEW t \in Threads, NEW f \in Fibers,
         f = cb_fiber[t] \/ ~Referenced(f),
         cb_fiber' = [cb_fiber EXCEPT ![t] = f],
         ft' = [ft EXCEPT ![t] = NoEntry], UNCHANGED m_fibers
  PROVE  FiberOwned'
<1>0. f # Null /\ NoEntry.fiber = Null
  BY EntryTypes, SchedulerAssumption
<1>1. \A u \in Threads : /\ ft'[u] = IF u = t THEN NoEntry ELSE ft[u]
                         /\ cb_fiber'[u] = IF u = t THEN f ELSE cb_fiber[u]
  BY DEF TypeOK
<1>2. /\ \A i \in DOMAIN m_fibers : m_fibers[i].fiber # f
      /\ \A u \in Threads : ft[u].fiber # f /\ (u # t => cb_fiber[u] # f)
  BY <1>0 DEF FiberOwned, Referenced
<1>3. \A i \in DOMAIN m_fibers, u \in Threads :
         m_fibers[i].fiber \in {ft'[u].fiber, cb_fiber'[u]} => m_fibers[i].fiber = Null
  BY <1>0, <1>1, <1>2 DEF FiberOwned
<1>4. \A u, v \in Threads :
         /\ ft'[u].fiber = ft'[v].fiber => u = v \/ ft'[u].fiber = Null
         /\ cb_fiber'[u] = cb_fiber'[v] => u = v \/ cb_fiber'[u] = Null
         /\ ft'[u].fiber = cb_fiber'[v] => ft'[u].fiber = Null
  BY <1>0, <1>1, <1>2 DEF FiberOwned
<1> QED
  BY <1>3, <1>4 DEF FiberOwned

\* ... or queues the one it was on and forgets it.
LEMMA OwnedQueued ==
  ASSUME FiberOwned, TypeOK, NEW t \in Threads, Running(t) \in Fibers,
         ScheduleFiber(Running(t)), Forget(t)
  PROVE  FiberOwned'
<1> DEFINE f == Running(t)
<1>0. f # Null /\ NoEntry.fiber = Null /\ f = Running(t)
  BY EntryTypes, SchedulerAssumption
<1>1. PICK n \in Nat : /\ DOMAIN m_fibers = 1..n /\ DOMAIN m_fibers' = 1..(n + 1)
                       /\ \A i \in 1..n : m_fibers'[i] = m_fibers[i]
                       /\ m_fibers'[n + 1].fiber = f
  BY EntryTypes, QueueAppended DEF ScheduleFiber
<1> HIDE DEF f
<1>2. \A u \in Threads : /\ ft'[u].fiber \in {ft[u].fiber, Null}
                         /\ cb_fiber'[u] \in {cb_fiber[u], Null}
  BY <1>0 DEF Forget, TypeOK
<1>3. \A u \in Threads : ft'[u].fiber # f /\ cb_fiber'[u] # f
  <2>1. CASE ft[t].fiber # Null
    <3>1. f = ft[t].fiber /\ \A u \in Threads : ft'[u] = IF u = t THEN NoEntry ELSE ft[u]
      BY <1>0, <2>1 DEF Forget, Running, TypeOK
    <3>2. UNCHANGED cb_fiber
      BY <2>1 DEF Forget
    <3> QED
      BY <1>0, <3>1, <3>2 DEF FiberOwned
  <2>2. CASE ft[t].fiber = Null
    <3>1. f = cb_fiber[t] /\ \A u \in Threads : cb_fiber'[u] = IF u = t THEN Null ELSE cb_fiber[u]
      BY <1>0, <2>2 DEF Forget, Running, TypeOK
    <3>2. UNCHANGED ft
      BY <2>2 DEF Forget
    <3> QED
      BY <1>0, <3>1, <3>2 DEF FiberOwned
  <2> QED
    BY <2>1, <2>2
<1>4. \A i \in 1..n : m_fibers[i].fiber # f
  BY <1>0, <1>1 DEF Running, FiberOwned
<1>5. \A i, j \in 1..(n + 1) :
         m_fibers'[i].fiber = m_fibers'[j].fiber
            => i = j \/ m_fibers'[i].fiber = Null
  BY <1>1, <1>4 DEF FiberOwned
<1>6. \A i \in 1..(n + 1), u \in Threads :
         m_fibers'[i].fiber \in {ft'[u].fiber, cb_fiber'[u]}
            => m_fibers'[i].fiber = Null
  BY <1>1, <1>2, <1>3 DEF FiberOwned
<1>7. \A u, v \in Threads :
         /\ ft'[u].fiber = ft'[v].fiber => u = v \/ ft'[u].fiber = Null
         /\ cb_fiber'[u] = cb_fiber'[v] => u = v \/ cb_fiber'[u] = Null
         /\ ft'[u].fiber = cb_fiber'[v] => ft'[u].fiber = Null
  BY <1>2 DEF FiberOwned
<1> QED
  BY <1>1, <1>5, <1>6, <1>7 DEF FiberOwned

\* What a thread is on is nowhere else, so no other thread's stack is used.
LEMMA StackFree ==
  ASSUME FiberOwned, NEW t \in Threads, NEW f \in Fibers,
         f \in {ft[t].fiber, cb_fiber[t]}, pc[t] \notin {"user", "armed", "swapout"}
  PROVE  ~StackBusy(f)
BY SchedulerAssumption DEF FiberOwned, StackBusy, OnStack, Running

\* Nobody runs a fiber that is not referenced.
LEMMA StackUnused ==
  ASSUME NEW f \in Fibers, ~Referenced(f)
  PROVE  ~StackBusy(f)
BY DEF StackBusy, OnStack, Running, Referenced

\* Every step but Wake leaves each fiber in one place.
LEMMA OwnedStep ==
  ASSUME IndInv, FiberOwned, [Next]_vars,
         \A t \in Threads, f \in Fibers : ~Wake(t, f)
  PROVE  FiberOwned'
<1>a. /\ IndInv /\ TypeOK /\ HandOK /\ FiberOwned
      /\ NoEntry.fiber = Null
  BY EntryTypes DEF IndInv
<1> USE <1>a
<1>1. ASSUME UNCHANGED <<m_fibers, ft, cb_fiber>>
      PROVE  FiberOwned'
  BY <1>1, OwnedKept
<1>2. ASSUME NEW c \in Cbs, NEW thr \in Pins,
             MainSubmit(c, thr) \/ \E t \in Threads : UserSubmit(t, c, thr)
      PROVE  FiberOwned'
  <2>1. /\ m_fibers' = Append(m_fibers, CbEntry(c, thr))
        /\ UNCHANGED <<ft, cb_fiber>>
    BY <1>2 DEF MainSubmit, UserSubmit, ScheduleCb
  <2>2. CbEntry(c, thr) \in Entries /\ CbEntry(c, thr).fiber = Null
    BY EntryTypes
  <2> QED
    BY <2>1, <2>2, QueueAppended, OwnedKept
<1>3. CASE Start \/ StopStep
  BY <1>1, <1>3 DEF Start, StopStep, StopRequest, StopFlag, StopLook, StopCall,
     StopReturn, StopJoin, StopGoTo
<1>4. ASSUME NEW t \in Threads, RunStep(t)
      PROVE  FiberOwned'
  <2>1. CASE ScanTake(t)
    <3>1. DOMAIN m_fibers = 1..Len(m_fibers)
      BY DEF TypeOK
    <3> QED
      BY <2>1, <3>1, OwnedTaken DEF ScanTake, Erase
  <2>2. CASE ScanNone(t)
    BY <2>2, OwnedKept DEF ScanNone, TypeOK
  <2>3. CASE DispatchCb(t)
    <3>1. CASE Abort("reset") \/ Abort("stack")
      BY <1>1, <3>1 DEF Abort
    <3> QED
      BY <2>3, <3>1, OwnedEntered DEF DispatchCb
  <2>4. CASE SettleReady(t)
    <3>1. Running(t) \in Fibers
      BY <2>4, RunningType DEF SettleReady, At, FiberPCs
    <3> QED
      BY <2>4, <3>1, OwnedQueued DEF SettleReady
  <2>5. CASE SettleEnded(t) \/ SetHold(t)
    <3>1. CASE UNCHANGED <<m_fibers, ft, cb_fiber>>
      BY <1>1, <3>1
    <3>2. CASE Forget(t) /\ UNCHANGED m_fibers
      BY <3>2, OwnedKept DEF Forget, TypeOK
    <3> QED
      BY <2>5, <3>1, <3>2 DEF SettleEnded, SetHold, Abort
  <2>6. CASE \/ DispatchFiber(t) \/ Arm(t) \/ DispatchDead(t) \/ YieldToReady(t)
             \/ YieldToHold(t) \/ MainFuncEnd(t) \/ SwapOut(t) \/ Deactivate(t)
             \/ SettleOther(t) \/ IdleLook(t) \/ IdleCheck(t) \/ PollEnd(t)
             \/ IdleBack(t)
    BY <2>6, <1>1 DEF DispatchFiber, Arm, Abort, DispatchDead, YieldToReady,
       YieldToHold, MainFuncEnd, SwapOut, Deactivate, SettleOther, IdleLook,
       IdleCheck, PollEnd, IdleBack
  <2> QED
    BY <1>4, <2>1, <2>2, <2>3, <2>4, <2>5, <2>6 DEF RunStep
<1>5. CASE UNCHANGED vars
  BY <1>1, <1>5 DEF vars
<1> QED
  BY NextCases, <1>2, <1>3, <1>4, <1>5 DEF StopStep

\* Without polling there is nothing to wake.
LEMMA NoWake ==
  ASSUME FiberStates PROVE \A t \in Threads, f \in Fibers : ~Wake(t, f)
BY DEF FiberStates, Wake

\* The state of a fiber changes: only the thread that has it, or gets it,
\* sees that.
LEMMA StatesMove ==
  ASSUME IndInv, FiberOwned, FiberStates, NEW t \in Threads,
         NEW g \in Fibers \cup {Null},
         g \in {Null, ft[t].fiber, cb_fiber[t]} \/ ~Referenced(g),
         \A f \in Fibers : f # g => m_state'[f] = m_state[f],
         \A i \in DOMAIN m_fibers' :
            \/ \E p \in DOMAIN m_fibers : m_fibers'[i] = m_fibers[p]
            \/ m_fibers'[i].fiber = Null
            \/ m_state'[m_fibers'[i].fiber] = "READY",
         \A u \in Threads : u # t => /\ pc'[u] = pc[u]
                                     /\ ft'[u] = ft[u]
                                     /\ cb_fiber'[u] = cb_fiber[u],
         StateOK(t)', armed' = {}, fault' = "none"
  PROVE  FiberStates'
<1>a. /\ ft \in [Threads -> Entries] /\ m_fibers \in Seq(Entries)
      /\ cb_fiber \in [Threads -> Fibers \cup {Null}]
      /\ Null \notin Fibers
  BY SchedulerAssumption DEF IndInv, TypeOK
<1>1. \A i \in DOMAIN m_fibers : m_fibers[i].fiber = Null \/ m_fibers[i].fiber # g
  BY DEF FiberOwned, Referenced
<1>2. \A i \in DOMAIN m_fibers : m_fibers[i].fiber \in Fibers \cup {Null}
  BY <1>a, EntryTypes
<1>3. QueuedReady'
  BY <1>1, <1>2 DEF FiberStates, QueuedReady
<1>4. ASSUME NEW u \in Threads, u # t
      PROVE  StateOK(u)'
  <2>1. \A f \in {ft[u].fiber, cb_fiber[u]} : f = Null \/ m_state'[f] = m_state[f]
    <3>1. \A f \in {ft[u].fiber, cb_fiber[u]} : f \in Fibers \cup {Null}
      BY <1>a, EntryTypes
    <3>2. \A f \in {ft[u].fiber, cb_fiber[u]} : f = Null \/ f # g
      BY <1>4 DEF FiberOwned, Referenced
    <3> QED
      BY <3>1, <3>2
  <2>2. pc[u] \in FiberPCs => Running(u) # Null
    BY DEF IndInv, HandOK, LocalOK
  <2>3. Running(u)' = Running(u) /\ Running(u) \in {ft[u].fiber, cb_fiber[u]}
    BY <1>4 DEF Running
  <2>4. StateOK(u)
    BY DEF FiberStates
  <2> QED
    BY <1>4, <2>1, <2>2, <2>3, <2>4 DEF StateOK, FiberPCs
<1> QED
  BY <1>3, <1>4 DEF FiberStates

\* Threads may begin run(), and callbacks be queued.
LEMMA StatesKept ==
  ASSUME FiberStates, UNCHANGED <<ft, cb_fiber, m_state, armed, fault>>,
         \A i \in DOMAIN m_fibers' :
            \/ i \in DOMAIN m_fibers /\ m_fibers'[i] = m_fibers[i]
            \/ m_fibers'[i].fiber = Null,
         \A t \in Threads : pc'[t] = pc[t] \/ (pc[t] = "off" /\ pc'[t] = "scan")
  PROVE  FiberStates'
<1>1. QueuedReady'
  BY DEF FiberStates, QueuedReady
<1>2. ASSUME NEW t \in Threads PROVE StateOK(t)'
  BY DEF FiberStates, StateOK, FiberPCs, Running
<1> QED
  BY <1>1, <1>2 DEF FiberStates
\* A thread goes on within run() and touches no fiber's state.
LEMMA StatesGo ==
  ASSUME IndInv, FiberOwned, FiberStates, NEW t \in Threads, NEW label,
         GoTo(t, label), UNCHANGED <<m_fibers, ft, cb_fiber, m_state, armed, fault>>,
         StateOK(t)'
  PROVE  FiberStates'
<1>1. \A u \in Threads : u # t => pc'[u] = pc[u]
  BY DEF IndInv, TypeOK, GoTo
<1>2. fault' = "none" /\ armed' = {} /\ Null \in Fibers \cup {Null}
  BY DEF FiberStates
<1>3. \A i \in DOMAIN m_fibers' : \E p \in DOMAIN m_fibers : m_fibers'[i] = m_fibers[p]
  OBVIOUS
<1> QED
  BY <1>1, <1>2, <1>3, StatesMove

\* Every step of run() leaves fibers in the states that their places tell, and
\* fails no assertion.
LEMMA RunStates ==
  ASSUME ~Polls, NoHoldInv, NEW t \in Threads, RunStep(t)
  PROVE  FiberStates'
<1>a. /\ IndInv /\ TypeOK /\ HandOK /\ FiberOwned /\ FiberStates
      /\ LocalOK(t) /\ StateOK(t) /\ QueuedReady /\ fault = "none" /\ armed = {}
      /\ NoEntry.fiber = Null /\ NoEntry.cb = Null /\ Null \notin Fibers
      /\ Null \in Fibers \cup {Null}
  BY EntryTypes, SchedulerAssumption DEF NoHoldInv, IndInv, HandOK, FiberStates
<1>b. /\ pc \in [Threads -> PCs] /\ ft \in [Threads -> Entries]
      /\ cb_fiber \in [Threads -> Fibers \cup {Null}]
      /\ m_state \in [Fibers -> States] /\ m_fibers \in Seq(Entries)
  BY <1>a DEF TypeOK
<1>c. \A f \in {ft[t].fiber, cb_fiber[t]} : f \in Fibers \cup {Null}
  BY <1>b, EntryTypes
<1>d. pc[t] \in FiberPCs => Running(t) \in Fibers /\ Running(t) \in {ft[t].fiber, cb_fiber[t]}
  BY <1>a, RunningType DEF Running
<1> USE <1>a, <1>b
<1>1. CASE ScanTake(t)
  <2>1. PICK i \in DOMAIN m_fibers : /\ ft' = [ft EXCEPT ![t] = m_fibers[i]]
                                     /\ m_fibers' = RemoveAt(m_fibers, i)
    BY <1>1 DEF ScanTake, Erase
  <2>2. i \in 1..Len(m_fibers)
    OBVIOUS
  <2>3. \A j \in DOMAIN m_fibers' : \E p \in DOMAIN m_fibers : m_fibers'[j] = m_fibers[p]
    BY <2>1, <2>2, QueueErased
  <2>4. /\ pc[t] = "scan" /\ pc' = [pc EXCEPT ![t] = "dispatch"]
        /\ UNCHANGED <<cb_fiber, m_state, armed, fault>>
    BY <1>1 DEF ScanTake, GoTo, At
  <2>5. ft'[t].fiber # Null => m_state'[ft'[t].fiber] = "READY"
    BY <2>1, <2>4 DEF QueuedReady
  <2>6. StateOK(t)'
    BY <2>4, <2>5 DEF StateOK, FiberPCs
  <2> QED
    BY <2>1, <2>3, <2>4, <2>6, StatesMove
<1>2. CASE ScanNone(t)
  <2>1. /\ pc[t] = "scan"
        /\ pc' = [pc EXCEPT ![t] = "done"] \/ pc' = [pc EXCEPT ![t] = "idle"]
        /\ ft' = [ft EXCEPT ![t] = NoEntry]
        /\ UNCHANGED <<m_fibers, cb_fiber, m_state, armed, fault>>
    BY <1>2 DEF ScanNone, IdleOrBreak, GoTo, At
  <2>2. StateOK(t)'
    BY <2>1 DEF StateOK, FiberPCs
  <2> QED
    BY <2>1, <2>2, StatesMove
<1>3. ASSUME DispatchDead(t) PROVE FALSE
  BY <1>3 DEF DispatchDead, Dead, StateOK, At
<1>4. CASE DispatchFiber(t)
  <2> DEFINE f == ft[t].fiber
  <2>1. pc[t] = "dispatch" /\ f # Null /\ f \in Fibers /\ m_state[f] = "READY"
    BY <1>4, <1>c DEF DispatchFiber, At, StateOK
  <2>2. ~StackBusy(f)
    BY <2>1, StackFree
  <2>3. /\ m_state' = [m_state EXCEPT ![f] = "EXEC"]
        /\ pc' = [pc EXCEPT ![t] = "user"]
        /\ UNCHANGED <<m_fibers, ft, cb_fiber, armed, fault>>
    BY <1>4, <2>1, <2>2 DEF DispatchFiber, GoTo
  <2>4. cb_fiber[t] # f
    BY <2>1 DEF FiberOwned
  <2>5. StateOK(t)'
    BY <2>1, <2>3, <2>4 DEF StateOK, FiberPCs, Running
  <2> QED
    BY <2>1, <2>3, <2>5, StatesMove
<1>5. CASE DispatchCb(t)
  <2>1. /\ pc[t] = "dispatch" /\ ft[t].fiber = Null
        /\ cb_fiber[t] # Null => m_state[cb_fiber[t]] = "INIT" /\ ~StackBusy(cb_fiber[t])
    BY <1>5, <1>c, StackFree DEF DispatchCb, At, StateOK, FiberPCs
  <2>2. PICK f \in Fibers :
           /\ f = cb_fiber[t] \/ ~Referenced(f)
           /\ m_state' = [m_state EXCEPT ![f] = "EXEC"]
           /\ cb_fiber' = [cb_fiber EXCEPT ![t] = f]
           /\ ft' = [ft EXCEPT ![t] = NoEntry]
           /\ GoTo(t, "user")
           /\ UNCHANGED <<m_fibers, armed, fault>>
    BY <1>5, <2>1 DEF DispatchCb
  <2>3. StateOK(t)'
    BY <2>2 DEF StateOK, FiberPCs, Running, GoTo
  <2> QED
    BY <2>2, <2>3, StatesMove DEF GoTo
<1>6. CASE YieldToReady(t) \/ MainFuncEnd(t)
  <2>1. /\ pc[t] = "user" /\ pc' = [pc EXCEPT ![t] = "swapout"]
        /\ UNCHANGED <<m_fibers, ft, cb_fiber, armed, fault>>
        /\ \E s \in {"READY", "TERM", "EXCEPT"} :
              m_state' = [m_state EXCEPT ![Running(t)] = s]
    BY <1>6 DEF YieldToReady, MaySuspend, InCallback, MainFuncEnd, At, GoTo
  <2>2. Running(t) \in Fibers /\ Running(t) \in {ft[t].fiber, cb_fiber[t]}
    BY <1>d, <2>1 DEF FiberPCs
  <2>3. ft[t].fiber # Null => Running(t) # cb_fiber[t]
    BY <2>2 DEF FiberOwned, Running
  <2>4. UNCHANGED Running(t)
    BY <2>1 DEF Running
  <2>5. StateOK(t)'
    BY <2>1, <2>2, <2>3, <2>4 DEF StateOK, FiberPCs
  <2>6. \A f \in Fibers : f # Running(t) => m_state'[f] = m_state[f]
    BY <2>1
  <2> QED
    BY <2>1, <2>2, <2>5, <2>6, StatesMove
<1>7. ASSUME Arm(t) \/ YieldToHold(t) \/ SettleOther(t) \/ SetHold(t) PROVE FALSE
  BY <1>7 DEF Arm, YieldToHold, SettleOther, SetHold, StateOK, At
<1>8. CASE SwapOut(t) \/ Deactivate(t)
  <2>1. PICK label \in {"post", "settle"} : GoTo(t, label)
    BY <1>8 DEF SwapOut, Deactivate
  <2>2. /\ pc[t] \in {"swapout", "post"}
        /\ UNCHANGED <<m_fibers, ft, cb_fiber, m_state, armed, fault>>
    BY <1>8 DEF SwapOut, Deactivate, At
  <2>3. StateOK(t)'
    BY <2>1, <2>2 DEF StateOK, FiberPCs, Running, GoTo
  <2> QED
    BY <2>1, <2>2, <2>3, StatesGo
<1>9. CASE SettleReady(t)
  <2>1. /\ pc[t] = "settle" /\ m_state[Running(t)] = "READY"
        /\ ScheduleFiber(Running(t)) /\ Forget(t) /\ pc' = [pc EXCEPT ![t] = "scan"]
        /\ UNCHANGED <<m_state, armed, fault>>
    BY <1>9 DEF SettleReady, At, GoTo
  <2>2. Running(t) \in Fibers
    BY <1>d, <2>1 DEF FiberPCs
  <2>3. PICK n \in Nat : /\ DOMAIN m_fibers = 1..n /\ DOMAIN m_fibers' = 1..(n + 1)
                         /\ \A i \in 1..n : m_fibers'[i] = m_fibers[i]
                         /\ m_fibers'[n + 1].fiber = Running(t)
    BY <2>1, <2>2, EntryTypes, QueueAppended DEF ScheduleFiber
  <2>4. \A i \in DOMAIN m_fibers' :
           \/ \E p \in DOMAIN m_fibers : m_fibers'[i] = m_fibers[p]
           \/ m_state'[m_fibers'[i].fiber] = "READY"
    BY <2>1, <2>3
  <2>5. /\ ft'[t].fiber = Null
        /\ cb_fiber'[t] # Null => cb_fiber'[t] = cb_fiber[t] /\ ft[t].fiber # Null
    BY <2>1 DEF Forget
  <2>6. StateOK(t)'
    BY <2>1, <2>5 DEF StateOK, FiberPCs
  <2>7. \A u \in Threads : u # t => ft'[u] = ft[u] /\ cb_fiber'[u] = cb_fiber[u]
    BY <2>1 DEF Forget
  <2> QED
    BY <2>1, <2>4, <2>6, <2>7, StatesMove
<1>10. CASE SettleEnded(t)
  <2>0. pc[t] = "settle" /\ Running(t) \in Fibers
    BY <1>10, <1>d DEF SettleEnded, At, FiberPCs
  <2>1. CASE ft[t].fiber # Null
    <3>1. /\ pc' = [pc EXCEPT ![t] = "scan"] /\ ft' = [ft EXCEPT ![t] = NoEntry]
          /\ UNCHANGED <<m_fibers, cb_fiber, m_state, armed, fault>>
      BY <1>10, <2>1 DEF SettleEnded, GoTo, Forget
    <3>2. StateOK(t)'
      BY <2>0, <2>1, <3>1 DEF StateOK, FiberPCs
    <3> QED
      BY <3>1, <3>2, StatesMove
  <2>2. CASE ft[t].fiber = Null
    <3>1. Running(t) = cb_fiber[t]
      BY <2>2 DEF Running
    <3>2. ~StackBusy(Running(t))
      BY <2>0, <3>1, StackFree
    <3>3. /\ pc' = [pc EXCEPT ![t] = "scan"]
          /\ m_state' = [m_state EXCEPT ![cb_fiber[t]] = "INIT"]
          /\ UNCHANGED <<m_fibers, ft, cb_fiber, armed, fault>>
      BY <1>10, <2>2, <3>1, <3>2 DEF SettleEnded, GoTo
    <3>4. StateOK(t)'
      BY <2>0, <2>2, <3>1, <3>3 DEF StateOK, FiberPCs
    <3> QED
      BY <2>0, <3>1, <3>3, <3>4, StatesMove
  <2> QED
    BY <2>1, <2>2
<1>11. CASE IdleLook(t) \/ IdleCheck(t) \/ PollEnd(t) \/ IdleBack(t)
  <2>1. PICK label \in {"check", "poll", "idleback", "scan"} : GoTo(t, label)
    BY <1>11 DEF IdleLook, IdleCheck, PollEnd, IdleBack, LookAtPending, KeepIdle
  <2>2. /\ pc[t] \in {"idle", "check", "poll", "idleback"}
        /\ UNCHANGED <<m_fibers, ft, cb_fiber, m_state, armed, fault>>
    BY <1>11 DEF IdleLook, IdleCheck, PollEnd, IdleBack, At
  <2>3. StateOK(t)'
    BY <2>1, <2>2 DEF StateOK, FiberPCs, GoTo
  <2> QED
    BY <2>1, <2>2, <2>3, StatesGo
<1> QED
  BY <1>1, <1>2, <1>3, <1>4, <1>5, <1>6, <1>7, <1>8, <1>9, <1>10, <1>11 DEF RunStep

\* So does every other step.
LEMMA StatesStep ==
  ASSUME ~Polls, NoHoldInv, [Next]_vars
  PROVE  FiberStates'
<1>a. TypeOK /\ FiberStates /\ PhaseOK /\ pc \in [Threads -> PCs]
  BY DEF NoHoldInv, IndInv, TypeOK
<1> USE <1>a
<1>1. ASSUME NEW c \in Cbs, NEW thr \in Pins,
             MainSubmit(c, thr) \/ \E t \in Threads : UserSubmit(t, c, thr)
      PROVE  FiberStates'
  <2>1. /\ m_fibers' = Append(m_fibers, CbEntry(c, thr))
        /\ UNCHANGED <<pc, ft, cb_fiber, m_state, armed, fault>>
    BY <1>1 DEF MainSubmit, UserSubmit, ScheduleCb
  <2>2. CbEntry(c, thr) \in Entries /\ CbEntry(c, thr).fiber = Null
    BY EntryTypes
  <2> QED
    BY <2>1, <2>2, QueueAppended, StatesKept
<1>2. CASE Start
  BY <1>2, StatesKept DEF Start, PhaseOK, MainAt
<1>3. CASE StopStep
  <2>1. UNCHANGED <<m_fibers, ft, cb_fiber, m_state, armed, fault>>
    BY <1>3 DEF StopStep, StopRequest, StopFlag, StopLook, StopCall,
       StopReturn, StopJoin, StopGoTo
  <2>2. \A t \in Threads : pc'[t] = pc[t] \/ (pc[t] = "off" /\ pc'[t] = "scan")
    BY <1>3 DEF StopStep, StopRequest, StopFlag, StopLook, StopCall,
       StopReturn, StopJoin, StopGoTo, GoTo, MainAt, PhaseOK
  <2> QED
    BY <2>1, <2>2, StatesKept
<1>4. ASSUME NEW t \in Threads, NEW f \in Fibers
      PROVE  ~Wake(t, f)
  BY DEF FiberStates, Wake
<1>5. CASE UNCHANGED vars
  BY <1>5, StatesKept DEF vars
<1> QED
  BY NextCases, <1>1, <1>2, <1>3, <1>4, <1>5, RunStates DEF StopStep

\* An entry that any thread may take is queued only while someone will scan.
LEMMA StopPhasesStep ==
  ASSUME ~Polls, NoHoldInv, PoolInv, [Next]_vars
  PROVE  StopPhases'
<1>a. /\ TypeOK /\ PhaseOK /\ StopPhases /\ FiberStates
      /\ pc \in [Threads -> PCs] /\ idleTerm \in [Threads -> BOOLEAN]
      /\ m_fibers \in Seq(Entries)
      /\ Workers \subseteq Threads /\ (UseCaller => Caller \in Threads)
      /\ Caller \notin Workers
  BY SchedulerAssumption DEF NoHoldInv, IndInv, TypeOK, Threads
<1> USE <1>a DEF Alive
<1>1. CASE Start
  BY <1>1 DEF Start, StopPhases, MainAt
<1>2. CASE StopRequest
  BY <1>2 DEF StopRequest, StopPhases, MainAt
<1>3. CASE StopFlag
  BY <1>3 DEF StopFlag, StopPhases, MainAt, NothingToRun
<1>4. CASE StopLook
  BY <1>4, SchedulerAssumption DEF StopLook, StopGoTo, GoTo, StopPhases, MainAt, Threads, FiberStates, PhaseOK
<1>5. CASE StopCall
  BY <1>5 DEF StopCall, StopGoTo, GoTo, StopPhases, MainAt, PhaseOK, Stopping
<1>6. CASE StopReturn \/ StopJoin
  BY <1>6 DEF StopReturn, StopJoin, StopPhases, MainAt
<1>7. ASSUME NEW c \in Cbs, NEW thr \in Pins, MainSubmit(c, thr)
      PROVE  StopPhases'
  BY <1>7 DEF MainSubmit, StopPhases, MainAt
<1>8. ASSUME NEW t \in Threads, NEW c \in Cbs, NEW thr \in Pins,
             UserSubmit(t, c, thr)
      PROVE  StopPhases'
  BY <1>8 DEF UserSubmit, InCallback, At, StopPhases
<1>9. ASSUME NEW t \in Threads, RunStep(t)
      PROVE  StopPhases'
  <2>1. /\ \A u \in Threads : u # t => pc'[u] = pc[u]
        /\ Alive(t) /\ UNCHANGED main
    BY <1>9, RunStepMoves
  <2>2. UNCHANGED m_autoStop
    BY <1>9 DEF RunStep, ScanTake, ScanNone, DispatchDead, DispatchFiber,
       DispatchCb, YieldToReady, Arm, YieldToHold, MainFuncEnd, SwapOut,
       Deactivate, SettleReady, SettleEnded, SettleOther, SetHold, IdleLook,
       IdleCheck, PollEnd, IdleBack, Abort
  <2>3. ASSUME pc'[t] \notin {"off", "done"},
               \A u \in Threads : idleTerm'[u] => idleTerm[u] \/ m_autoStop
        PROVE  StopPhases'
    BY <2>1, <2>2, <2>3 DEF StopPhases
  <2>4. CASE ScanNone(t)
    <3>1. CASE idleTerm[t]
      <4>1. pc' = [pc EXCEPT ![t] = "done"] /\ UNCHANGED <<m_fibers, idleTerm>>
        BY <2>4, <3>1 DEF ScanNone, IdleOrBreak, GoTo
      <4>2. \A i \in DOMAIN m_fibers : m_fibers[i].thread # AnyThread
        BY <2>4 DEF ScanNone, Takeable, FiberStates, QueuedReady
      <4> QED
        BY <2>1, <2>2, <3>1, <4>1, <4>2 DEF StopPhases
    <3>2. CASE ~idleTerm[t]
      BY <2>3, <2>4, <3>2 DEF ScanNone, IdleOrBreak, GoTo
    <3> QED
      BY <3>1, <3>2
  <2>5. ASSUME DispatchDead(t) PROVE FALSE
    BY <2>5 DEF DispatchDead, Dead, FiberStates, StateOK, At
  <2>6. CASE IdleCheck(t)
    <3>1. pc'[t] \notin {"off", "done"}
      BY <2>6 DEF IdleCheck, KeepIdle, GoTo
    <3>2. Stopping => m_autoStop
      BY DEF Stopping
    <3>3. ASSUME NEW u \in Threads, idleTerm'[u]
          PROVE  idleTerm[u] \/ m_autoStop
      BY <2>6, <3>2, <3>3 DEF IdleCheck
    <3> QED
      BY <2>3, <3>1, <3>3
  <2>7. CASE DispatchFiber(t) \/ DispatchCb(t) \/ Arm(t) \/ SettleEnded(t)
    <3>1. UNCHANGED idleTerm
      BY <2>7 DEF DispatchFiber, DispatchCb, Arm, SettleEnded, Abort
    <3>2. UNCHANGED pc \/ \E l \in {"user", "armed", "scan"} : GoTo(t, l)
      BY <2>7 DEF DispatchFiber, DispatchCb, Arm, SettleEnded, Abort
    <3>3. pc'[t] \notin {"off", "done"}
      BY <2>1, <3>2 DEF GoTo
    <3> QED
      BY <2>3, <3>1, <3>3
  <2>8. CASE \/ ScanTake(t) \/ YieldToReady(t) \/ YieldToHold(t) \/ MainFuncEnd(t)
             \/ SwapOut(t) \/ Deactivate(t) \/ SettleReady(t) \/ SettleOther(t)
             \/ SetHold(t) \/ IdleLook(t) \/ PollEnd(t) \/ IdleBack(t)
    BY <2>3, <2>8 DEF ScanTake, YieldToReady, YieldToHold, MainFuncEnd, SwapOut,
       Deactivate, SettleReady, SettleOther, SetHold, IdleLook, LookAtPending,
       KeepIdle, PollEnd, IdleBack, GoTo
  <2> QED
    BY <1>9, <2>4, <2>5, <2>6, <2>7, <2>8 DEF RunStep
<1>10. ASSUME NEW t \in Threads, NEW f \in Fibers
       PROVE  ~Wake(t, f)
  BY DEF FiberStates, Wake
<1>11. CASE UNCHANGED vars
  BY <1>11 DEF vars, StopPhases
<1> QED
  BY NextCases, <1>1, <1>2, <1>3, <1>4, <1>5, <1>6, <1>7, <1>8, <1>9, <1>10, <1>11

\* NoHoldInv holds at the start ...
LEMMA InitNoHold == Init => NoHoldInv /\ PoolInv
<1>1. Init => FiberOwned
  BY EntryTypes DEF Init, FiberOwned
<1>2. Init => FiberStates
  BY EntryTypes DEF Init, FiberStates, QueuedReady, StateOK, FiberPCs
<1>3. Init => StopPhases /\ StartedOK /\ StopQuiet
  BY DEF Init, StopPhases, StartedOK, StopQuiet
<1> QED
  BY <1>1, <1>2, <1>3, InitInd DEF NoHoldInv, PoolInv

\* ... and every step keeps it, if the scheduler does not poll.
LEMMA NextNoHold ==
  ASSUME ~Polls, NoHoldInv, PoolInv, [Next]_vars
  PROVE  NoHoldInv' /\ PoolInv'
BY NextInd, NoWake, OwnedStep, StatesStep, StopPhasesStep, StartedStep, QuietStep
   DEF NoHoldInv, PoolInv

\* The invariant of a scheduler that does not poll.
LEMMA NoHoldHolds == ASSUME ~Polls PROVE Spec => [](NoHoldInv /\ PoolInv)
BY InitNoHold, NextNoHold, PTL DEF Spec

\* Without polling each fiber is in one place, which tells its state, and
\* whatever any thread may take will be scanned.
THEOREM FibersAccountedFor == ASSUME ~Polls PROVE Spec => []NoHoldInv
  BY NoHoldHolds, PTL

\* A scheduler that does not poll fails no assertion of fiber.cc, and no two
\* of its threads run on one stack.
THEOREM NothingFaults == ASSUME ~Polls PROVE Spec => []NoFault
<1>1. NoHoldInv => NoFault
  BY DEF NoHoldInv, FiberStates, NoFault
<1> QED
  BY <1>1, NoHoldHolds, PTL

\* Its stop() leaves nothing queued that any thread may take.
THEOREM StopDrainsQueue == ASSUME ~Polls PROVE Spec => []StopDrains
<1>1. NoHoldInv /\ PoolInv => StopDrains
  BY DEF NoHoldInv, PoolInv, StopPhases, StopQuiet, StopDrains
<1> QED
  BY <1>1, NoHoldHolds, PTL

----------------------------------------------------------------------------
(* Without polling, stop() leaves nothing undone.                          *)

\* And no callback is stranded: one that was entered and has not ended is on a
\* fiber that is queued, or that a thread is about to resume or is on.
HasFiber(t, f) == \/ pc[t] = "dispatch" /\ ft[t].fiber = f
                  \/ pc[t] \in FiberPCs /\ Running(t) = f
Placed(f) == (\E i \in DOMAIN m_fibers : m_fibers[i].fiber = f) \/ \E t \in Threads : HasFiber(t, f)
NoneStranded ==
    /\ \A f \in Fibers : Dead(f) => m_cb[f] \in finished \cup {Null}
    /\ \A c \in Cbs : starts[c] = 1 => c \in finished \/ \E f \in Fibers : m_cb[f] = c /\ Placed(f)
    /\ Pins \subseteq {AnyThread} => \A i \in DOMAIN m_fibers : m_fibers[i].thread = AnyThread

DrainInv == NoHoldInv /\ PoolInv /\ NoneStranded

\* What the code shows elsewhere of the fibers' places, for the steps below.
LEMMA PlacedKept ==
  ASSUME NEW f \in Fibers, Placed(f), UNCHANGED <<m_fibers, pc, ft, cb_fiber>>
  PROVE  Placed(f)'
  BY DEF Placed, HasFiber, Running

\* A thread moves: the fibers that others have stay placed.
LEMMA PlacedMove ==
  ASSUME NEW t \in Threads, NEW f \in Fibers, Placed(f),
         \A u \in Threads : u # t => pc'[u] = pc[u] /\ ft'[u] = ft[u] /\ cb_fiber'[u] = cb_fiber[u],
         \A i \in DOMAIN m_fibers : m_fibers[i].fiber = f =>
            \/ \E j \in DOMAIN m_fibers' : m_fibers'[j].fiber = f
            \/ HasFiber(t, f)',
         HasFiber(t, f) =>
            \/ \E j \in DOMAIN m_fibers' : m_fibers'[j].fiber = f
            \/ HasFiber(t, f)'
  PROVE  Placed(f)'
<1>1. \A u \in Threads : u # t /\ HasFiber(u, f) => HasFiber(u, f)'
  BY DEF HasFiber, Running
<1> QED
  BY <1>1 DEF Placed

\* Erasing an entry leaves the others in the queue.
LEMMA OthersQueued ==
  ASSUME TypeOK, NEW i \in 1..Len(m_fibers), m_fibers' = RemoveAt(m_fibers, i)
  PROVE  /\ \A k \in DOMAIN m_fibers : k # i => \E j \in DOMAIN m_fibers' : m_fibers'[j] = m_fibers[k]
         /\ \A j \in DOMAIN m_fibers' : \E k \in DOMAIN m_fibers : m_fibers'[j] = m_fibers[k]
<1> DEFINE n == Len(m_fibers)
<1>1. /\ n \in Nat /\ i \in 1..n
      /\ DOMAIN m_fibers = 1..n
      /\ DOMAIN m_fibers' = 1..(n - 1)
      /\ \A k \in 1..(n - 1) :
            m_fibers'[k] = IF k < i THEN m_fibers[k] ELSE m_fibers[k + 1]
  <2>1. m_fibers \in Seq(Entries)
    BY DEF TypeOK
  <2> QED
    BY <2>1, RemoveAtFacts
<1> HIDE DEF n
<1>2. ASSUME NEW k \in 1..n, k # i
      PROVE  \E j \in DOMAIN m_fibers' : m_fibers'[j] = m_fibers[k]
  <2>1. CASE k < i
    BY <1>1, <1>2, <2>1
  <2>2. CASE k > i
    <3>1. k - 1 \in 1..(n - 1) /\ ~(k - 1 < i) /\ (k - 1) + 1 = k
      BY <1>1, <1>2, <2>2
    <3>2. m_fibers'[k - 1] = m_fibers[k]
      BY <1>1, <3>1
    <3> QED
      BY <1>1, <3>1, <3>2
  <2> QED
    BY <1>1, <1>2, <2>1, <2>2
<1>3. \A j \in DOMAIN m_fibers' : \E k \in DOMAIN m_fibers : m_fibers'[j] = m_fibers[k]
  BY QueueErased
<1> QED
  BY <1>1, <1>2, <1>3

\* Nothing about the callbacks changes, and fibers stay placed.
LEMMA StrandedKept ==
  ASSUME NoneStranded, UNCHANGED <<starts, finished>>,
         \A f \in Fibers : /\ m_cb'[f] = m_cb[f] \/ (m_cb[f] \in finished /\ m_cb'[f] = Null)
                           /\ Dead(f)' => Dead(f) \/ m_cb'[f] \in finished \cup {Null}
                           /\ Placed(f) => Placed(f)' \/ m_cb[f] \in finished \cup {Null},
         Pins \subseteq {AnyThread} => \A i \in DOMAIN m_fibers' : m_fibers'[i].thread = AnyThread,
         Null \notin Cbs
  PROVE  NoneStranded'
<1>1. \A f \in Fibers : Dead(f)' => m_cb'[f] \in finished' \cup {Null}
  BY DEF NoneStranded
<1>2. ASSUME NEW c \in Cbs, starts'[c] = 1, c \notin finished'
      PROVE  \E f \in Fibers : m_cb'[f] = c /\ Placed(f)'
  <2>1. PICK f \in Fibers : m_cb[f] = c /\ Placed(f)
    BY <1>2 DEF NoneStranded
  <2> QED
    BY <1>2, <2>1
<1> QED
  BY <1>1, <1>2 DEF NoneStranded

\* Every step of run() keeps a callback that has not ended on a fiber that is
\* placed.
LEMMA StrandedRun ==
  ASSUME ~Polls, DrainInv, NEW t \in Threads, RunStep(t)
  PROVE  NoneStranded'
<1>a. /\ NoHoldInv /\ IndInv /\ TypeOK /\ HandOK /\ FiberOwned /\ FiberStates /\ NoneStranded
      /\ LocalOK(t) /\ StateOK(t) /\ StartedOK
      /\ NoEntry.fiber = Null /\ NoEntry.cb = Null
      /\ Null \notin Fibers /\ Null \notin Cbs
  BY EntryTypes, SchedulerAssumption DEF DrainInv, PoolInv, NoHoldInv, IndInv, HandOK, FiberStates
<1>b. /\ pc \in [Threads -> PCs] /\ ft \in [Threads -> Entries]
      /\ cb_fiber \in [Threads -> Fibers \cup {Null}]
      /\ m_state \in [Fibers -> States] /\ m_fibers \in Seq(Entries)
      /\ m_cb \in [Fibers -> Cbs \cup {Null}] /\ starts \in [Cbs -> Nat]
      /\ finished \subseteq Cbs
  BY <1>a DEF TypeOK
<1>c. \A w \in {"swapIn", "reset", "stack", "exec"} : ~Abort(w)
  BY <1>a, RunStates DEF FiberStates, Abort
<1>d. pc[t] \in FiberPCs => Running(t) \in Fibers /\ Running(t) \in {ft[t].fiber, cb_fiber[t]}
  BY <1>a, RunningType DEF Running
<1> USE <1>a, <1>b
<1>0. ASSUME UNCHANGED <<m_fibers, m_cb, starts, finished>>,
             \A u \in Threads : u # t => pc'[u] = pc[u] /\ ft'[u] = ft[u] /\ cb_fiber'[u] = cb_fiber[u],
             \A f \in Fibers : HasFiber(t, f) => HasFiber(t, f)' \/ m_cb[f] \in finished \cup {Null},
             \A f \in Fibers : Dead(f)' => Dead(f)
      PROVE  NoneStranded'
  <2>1. ASSUME NEW f \in Fibers, Placed(f)
        PROVE  Placed(f)' \/ m_cb[f] \in finished \cup {Null}
    BY <1>0, <2>1, PlacedMove
  <2>2. Pins \subseteq {AnyThread} => \A i \in DOMAIN m_fibers' : m_fibers'[i].thread = AnyThread
    BY <1>0 DEF NoneStranded
  <2>3. \A f \in Fibers : Dead(f) => m_cb'[f] \in finished \cup {Null}
    BY <1>0 DEF NoneStranded
  <2> QED
    BY <1>0, <2>1, <2>2, <2>3, StrandedKept
<1>1. CASE ScanTake(t)
  <2>1. PICK i \in DOMAIN m_fibers : /\ ft' = [ft EXCEPT ![t] = m_fibers[i]]
                                     /\ m_fibers' = RemoveAt(m_fibers, i)
    BY <1>1 DEF ScanTake, Erase
  <2>2. i \in 1..Len(m_fibers)
    OBVIOUS
  <2>3. /\ pc[t] = "scan" /\ pc' = [pc EXCEPT ![t] = "dispatch"]
        /\ UNCHANGED <<cb_fiber, m_state, m_cb, starts, finished>>
    BY <1>1 DEF ScanTake, GoTo, At
  <2>4. /\ \A k \in DOMAIN m_fibers : k # i => \E j \in DOMAIN m_fibers' : m_fibers'[j] = m_fibers[k]
        /\ \A j \in DOMAIN m_fibers' : \E k \in DOMAIN m_fibers : m_fibers'[j] = m_fibers[k]
    BY <2>1, <2>2, OthersQueued
  <2>5. ASSUME NEW f \in Fibers, Placed(f)
        PROVE  Placed(f)'
    <3>1. ~HasFiber(t, f)
      BY <2>3 DEF HasFiber, FiberPCs
    <3>2. m_fibers[i].fiber = f => HasFiber(t, f)'
      BY <2>1, <2>3 DEF HasFiber
    <3>3. \A k \in DOMAIN m_fibers : m_fibers[k].fiber = f =>
             \/ \E j \in DOMAIN m_fibers' : m_fibers'[j].fiber = f
             \/ HasFiber(t, f)'
      BY <2>4, <3>2
    <3> QED
      BY <2>1, <2>3, <2>5, <3>1, <3>3, PlacedMove
  <2>6. Pins \subseteq {AnyThread} => \A j \in DOMAIN m_fibers' : m_fibers'[j].thread = AnyThread
    BY <2>4 DEF NoneStranded
  <2>7. \A f \in Fibers : Dead(f)' => Dead(f)
    BY <2>3 DEF Dead
  <2>8. \A f \in Fibers : Dead(f) => m_cb'[f] \in finished \cup {Null}
    BY <2>3 DEF NoneStranded
  <2> QED
    BY <2>3, <2>5, <2>6, <2>7, <2>8, StrandedKept
<1>2. CASE ScanNone(t)
  <2>1. /\ pc[t] = "scan"
        /\ pc' = [pc EXCEPT ![t] = "done"] \/ pc' = [pc EXCEPT ![t] = "idle"]
        /\ ft' = [ft EXCEPT ![t] = NoEntry]
        /\ UNCHANGED <<m_fibers, cb_fiber, m_state, m_cb, starts, finished>>
    BY <1>2 DEF ScanNone, IdleOrBreak, GoTo, At
  <2>2. \A f \in Fibers : ~HasFiber(t, f) /\ (Dead(f)' => Dead(f))
    BY <2>1 DEF HasFiber, FiberPCs, Dead
  <2> QED
    BY <1>0, <2>1, <2>2
<1>3. ASSUME DispatchDead(t) PROVE FALSE
  BY <1>3 DEF DispatchDead, Dead, StateOK, At
<1>4. CASE DispatchFiber(t)
  <2>1. /\ m_state' = [m_state EXCEPT ![ft[t].fiber] = "EXEC"]
        /\ pc' = [pc EXCEPT ![t] = "user"] /\ pc[t] = "dispatch" /\ ft[t].fiber # Null
        /\ UNCHANGED <<m_fibers, ft, cb_fiber, m_cb, starts, finished>>
    BY <1>4, <1>c DEF DispatchFiber, GoTo, At
  <2>2. \A f \in Fibers : HasFiber(t, f) => HasFiber(t, f)'
    BY <2>1 DEF HasFiber, FiberPCs, Running
  <2>3. \A f \in Fibers : Dead(f)' => Dead(f)
    BY <2>1 DEF Dead
  <2> QED
    BY <1>0, <2>1, <2>2, <2>3
<1>5. CASE DispatchCb(t)
  <2>1. PICK f \in Fibers :
           /\ f = cb_fiber[t] \/ ~Referenced(f)
           /\ m_state' = [m_state EXCEPT ![f] = "EXEC"]
           /\ m_cb' = [m_cb EXCEPT ![f] = ft[t].cb]
           /\ starts' = [starts EXCEPT ![ft[t].cb] = @ + 1]
           /\ cb_fiber' = [cb_fiber EXCEPT ![t] = f]
           /\ ft' = [ft EXCEPT ![t] = NoEntry]
           /\ pc' = [pc EXCEPT ![t] = "user"]
           /\ UNCHANGED <<m_fibers, finished>>
    BY <1>5, <1>c DEF DispatchCb, GoTo
  <2>2. pc[t] = "dispatch" /\ ft[t].fiber = Null /\ ft[t].cb \in Cbs
    BY <1>5 DEF DispatchCb, At, LocalOK, EntryOK
  <2> DEFINE c == ft[t].cb
  <2>3. HasFiber(t, f)'
    BY <2>1 DEF HasFiber, FiberPCs, Running
  <2>4. ~Placed(f)
    <3>1. \A i \in DOMAIN m_fibers : m_fibers[i].fiber # f
      BY <2>1 DEF FiberOwned, Referenced
    <3>2. ASSUME NEW u \in Threads PROVE ~HasFiber(u, f)
      <4>1. ft[u].fiber # f
        BY <2>1 DEF FiberOwned, Referenced
      <4>2. CASE u = t
        BY <2>2, <4>1, <4>2 DEF HasFiber, FiberPCs
      <4>3. CASE u # t
        BY <2>1, <4>1, <4>3 DEF HasFiber, Running, FiberOwned, Referenced
      <4> QED
        BY <4>2, <4>3
    <3> QED
      BY <3>1, <3>2 DEF Placed
  <2>5. ASSUME NEW g \in Fibers, Placed(g)
        PROVE  Placed(g)'
    <3>1. ~HasFiber(t, g)
      BY <2>2 DEF HasFiber, FiberPCs
    <3> QED
      BY <2>1, <2>5, <3>1, PlacedMove
  <2>6. \A d \in Cbs : d # c => starts'[d] = starts[d]
    BY <2>1
  <2>7. ASSUME NEW d \in Cbs, starts'[d] = 1, d \notin finished'
        PROVE  \E g \in Fibers : m_cb'[g] = d /\ Placed(g)'
    <3>1. CASE d = c
      <4>1. m_cb'[f] = d /\ Placed(f)'
        BY <2>1, <2>2, <2>3, <3>1 DEF Placed
      <4> QED
        BY <4>1
    <3>2. CASE d # c
      <4>1. PICK g \in Fibers : m_cb[g] = d /\ Placed(g)
        BY <2>1, <2>6, <2>7, <3>2 DEF NoneStranded
      <4>2. g # f /\ m_cb'[g] = d
        BY <2>1, <2>4, <4>1
      <4> QED
        BY <2>5, <4>1, <4>2
    <3> QED
      BY <3>1, <3>2
  <2>8. \A g \in Fibers : Dead(g)' => m_cb'[g] \in finished' \cup {Null}
    BY <2>1 DEF Dead, NoneStranded
  <2>9. Pins \subseteq {AnyThread} => \A i \in DOMAIN m_fibers' : m_fibers'[i].thread = AnyThread
    BY <2>1 DEF NoneStranded
  <2> QED
    BY <2>7, <2>8, <2>9 DEF NoneStranded
<1>6. CASE YieldToReady(t)
  <2>1. /\ pc[t] = "user" /\ pc' = [pc EXCEPT ![t] = "swapout"]
        /\ UNCHANGED <<m_fibers, ft, cb_fiber, m_cb, starts, finished>>
        /\ m_state' = [m_state EXCEPT ![Running(t)] = "READY"]
    BY <1>6 DEF YieldToReady, MaySuspend, InCallback, At, GoTo
  <2>2. \A f \in Fibers : HasFiber(t, f) => HasFiber(t, f)'
    BY <2>1 DEF HasFiber, FiberPCs, Running
  <2>3. \A f \in Fibers : Dead(f)' => Dead(f)
    BY <2>1 DEF Dead
  <2> QED
    BY <1>0, <2>1, <2>2, <2>3
<1>7. CASE MainFuncEnd(t)
  <2> DEFINE f == Running(t)
  <2>1. /\ pc[t] = "user" /\ pc' = [pc EXCEPT ![t] = "swapout"]
        /\ UNCHANGED <<m_fibers, ft, cb_fiber, starts>>
        /\ finished' = finished \cup ({m_cb[f]} \ {Null})
        /\ \E s \in {"TERM", "EXCEPT"} : m_state' = [m_state EXCEPT ![f] = s]
        /\ m_cb' = m_cb \/ m_cb' = [m_cb EXCEPT ![f] = Null]
    BY <1>7 DEF MainFuncEnd, At, GoTo
  <2>2. f \in Fibers
    BY <1>d, <2>1 DEF FiberPCs
  <2> HIDE DEF f
  <2>3. \A g \in Fibers : HasFiber(t, g) => HasFiber(t, g)'
    BY <2>1 DEF HasFiber, FiberPCs, Running
  <2>4. ASSUME NEW g \in Fibers, Placed(g)
        PROVE  Placed(g)'
    BY <2>1, <2>3, <2>4, PlacedMove
  <2>5. ASSUME NEW d \in Cbs, starts'[d] = 1, d \notin finished'
        PROVE  \E g \in Fibers : m_cb'[g] = d /\ Placed(g)'
    <3>1. PICK g \in Fibers : m_cb[g] = d /\ Placed(g)
      BY <2>1, <2>5 DEF NoneStranded
    <3>2. m_cb'[g] = d
      BY <2>1, <2>2, <2>5, <3>1
    <3> QED
      BY <2>4, <3>1, <3>2
  <2>6. \A g \in Fibers : Dead(g)' => m_cb'[g] \in finished' \cup {Null}
    BY <2>1, <2>2 DEF Dead, NoneStranded
  <2>7. Pins \subseteq {AnyThread} => \A i \in DOMAIN m_fibers' : m_fibers'[i].thread = AnyThread
    BY <2>1 DEF NoneStranded
  <2> QED
    BY <2>5, <2>6, <2>7 DEF NoneStranded
<1>8. ASSUME Arm(t) \/ YieldToHold(t) \/ SettleOther(t) \/ SetHold(t) PROVE FALSE
  BY <1>8 DEF Arm, YieldToHold, SettleOther, SetHold, StateOK, At
<1>9. CASE SwapOut(t) \/ Deactivate(t)
  <2>1. PICK label \in {"post", "settle"} : GoTo(t, label)
    BY <1>9 DEF SwapOut, Deactivate
  <2>2. /\ pc[t] \in {"swapout", "post"}
        /\ UNCHANGED <<m_fibers, ft, cb_fiber, m_state, m_cb, starts, finished>>
    BY <1>9 DEF SwapOut, Deactivate, At
  <2>3. \A f \in Fibers : (HasFiber(t, f) => HasFiber(t, f)') /\ (Dead(f)' => Dead(f))
    BY <2>1, <2>2 DEF HasFiber, FiberPCs, Running, GoTo, Dead
  <2>4. \A u \in Threads : u # t => pc'[u] = pc[u]
    BY <2>1 DEF GoTo
  <2> QED
    BY <1>0, <2>2, <2>3, <2>4
<1>10. CASE SettleReady(t)
  <2>1. /\ pc[t] = "settle"
        /\ ScheduleFiber(Running(t)) /\ Forget(t) /\ pc' = [pc EXCEPT ![t] = "scan"]
        /\ UNCHANGED <<m_state, m_cb, starts, finished>>
    BY <1>10 DEF SettleReady, At, GoTo
  <2>2. Running(t) \in Fibers
    BY <1>d, <2>1 DEF FiberPCs
  <2>3. PICK n \in Nat : /\ DOMAIN m_fibers = 1..n /\ DOMAIN m_fibers' = 1..(n + 1)
                         /\ \A i \in 1..n : m_fibers'[i] = m_fibers[i]
                         /\ m_fibers'[n + 1] = FiberEntry(Running(t))
    BY <2>1, <2>2, EntryTypes, QueueAppended DEF ScheduleFiber
  <2>4. FiberEntry(Running(t)).fiber = Running(t) /\ FiberEntry(Running(t)).thread = AnyThread
    BY <2>2, EntryTypes
  <2>5. ASSUME NEW f \in Fibers, Placed(f)
        PROVE  Placed(f)'
    <3>1. HasFiber(t, f) => m_fibers'[n + 1].fiber = f /\ n + 1 \in DOMAIN m_fibers'
      BY <2>1, <2>3, <2>4 DEF HasFiber
    <3>2. \A i \in DOMAIN m_fibers : m_fibers[i].fiber = f =>
             \E j \in DOMAIN m_fibers' : m_fibers'[j].fiber = f
      BY <2>3
    <3>3. \A u \in Threads : u # t => pc'[u] = pc[u] /\ ft'[u] = ft[u] /\ cb_fiber'[u] = cb_fiber[u]
      BY <2>1 DEF Forget
    <3> QED
      BY <2>5, <3>1, <3>2, <3>3, PlacedMove
  <2>6. Pins \subseteq {AnyThread} => \A i \in DOMAIN m_fibers' : m_fibers'[i].thread = AnyThread
    BY <2>3, <2>4 DEF NoneStranded
  <2>7. \A f \in Fibers : Dead(f)' => m_cb'[f] \in finished \cup {Null}
    BY <2>1 DEF NoneStranded, Dead
  <2> QED
    BY <2>1, <2>5, <2>6, <2>7, StrandedKept
<1>11. CASE SettleEnded(t)
  <2> DEFINE f == Running(t)
  <2>1. pc[t] = "settle" /\ f \in Fibers /\ Dead(f)
    BY <1>11, <1>d DEF SettleEnded, At, FiberPCs
  <2>2. m_cb[f] \in finished \cup {Null}
    BY <2>1 DEF NoneStranded
  <2>3. /\ pc' = [pc EXCEPT ![t] = "scan"]
        /\ UNCHANGED <<m_fibers, starts, finished>>
        /\ \A u \in Threads : u # t => ft'[u] = ft[u] /\ cb_fiber'[u] = cb_fiber[u]
        /\ \/ UNCHANGED <<m_cb, m_state>>
           \/ /\ m_cb' = [m_cb EXCEPT ![f] = Null]
              /\ m_state' = [m_state EXCEPT ![f] = "INIT"]
    BY <1>11, <1>c DEF SettleEnded, GoTo, Forget
  <2>4. \A g \in Fibers : HasFiber(t, g) => g = f
    BY <2>1 DEF HasFiber
  <2> HIDE DEF f
  <2>5. ASSUME NEW g \in Fibers, Placed(g)
        PROVE  Placed(g)' \/ m_cb[g] \in finished \cup {Null}
    BY <2>2, <2>3, <2>4, <2>5, PlacedMove
  <2>6. ASSUME NEW g \in Fibers
        PROVE  /\ m_cb'[g] = m_cb[g] \/ (g = f /\ m_cb'[g] = Null)
               /\ Dead(g)' => m_cb'[g] \in finished \cup {Null}
    <3>1. Dead(g) => m_cb[g] \in finished \cup {Null}
      BY DEF NoneStranded
    <3>2. CASE m_cb' = m_cb /\ m_state' = m_state
      BY <3>1, <3>2 DEF Dead
    <3>3. CASE /\ m_cb' = [m_cb EXCEPT ![f] = Null]
               /\ m_state' = [m_state EXCEPT ![f] = "INIT"]
      <4>1. g # f => m_cb'[g] = m_cb[g] /\ m_state'[g] = m_state[g]
        BY <3>3
      <4>2. m_cb'[f] = Null
        BY <2>1, <3>3
      <4>3. CASE g = f
        BY <4>2, <4>3
      <4>4. CASE g # f
        BY <3>1, <4>1, <4>4 DEF Dead
      <4> QED
        BY <4>3, <4>4
    <3> QED
      BY <2>3, <3>2, <3>3
  <2>7. Pins \subseteq {AnyThread} => \A i \in DOMAIN m_fibers' : m_fibers'[i].thread = AnyThread
    BY <2>3 DEF NoneStranded
  <2>8. \A g \in Fibers : m_cb'[g] = m_cb[g] \/ (m_cb[g] \in finished \cup {Null} /\ m_cb'[g] = Null)
    BY <2>2, <2>6
  <2>9. \A g \in Fibers : m_cb'[g] = m_cb[g] \/ (m_cb[g] \in finished /\ m_cb'[g] = Null)
    BY <2>8
  <2> QED
    BY <2>3, <2>5, <2>6, <2>7, <2>9, StrandedKept
<1>12. CASE IdleLook(t) \/ IdleCheck(t) \/ PollEnd(t) \/ IdleBack(t)
  <2>1. PICK label \in {"check", "poll", "idleback", "scan"} : GoTo(t, label)
    BY <1>12 DEF IdleLook, IdleCheck, PollEnd, IdleBack, LookAtPending, KeepIdle
  <2>2. /\ pc[t] \in {"idle", "check", "poll", "idleback"}
        /\ UNCHANGED <<m_fibers, ft, cb_fiber, m_state, m_cb, starts, finished>>
    BY <1>12 DEF IdleLook, IdleCheck, PollEnd, IdleBack, At
  <2>3. \A f \in Fibers : ~HasFiber(t, f) /\ (Dead(f)' => Dead(f))
    BY <2>2 DEF HasFiber, FiberPCs, Dead
  <2>4. \A u \in Threads : u # t => pc'[u] = pc[u]
    BY <2>1 DEF GoTo
  <2> QED
    BY <1>0, <2>2, <2>3, <2>4
<1> QED
  BY <1>1, <1>2, <1>3, <1>4, <1>5, <1>6, <1>7, <1>8, <1>9, <1>10, <1>11, <1>12 DEF RunStep

\* So does every other step.
LEMMA StrandedStep ==
  ASSUME ~Polls, DrainInv, [Next]_vars
  PROVE  NoneStranded'
<1>a. /\ TypeOK /\ NoneStranded /\ FiberStates /\ PhaseOK
      /\ Null \notin Cbs
  BY SchedulerAssumption DEF DrainInv, NoHoldInv, IndInv
<1> USE <1>a
<1>1. ASSUME NEW c \in Cbs, NEW thr \in Pins,
             MainSubmit(c, thr) \/ \E t \in Threads : UserSubmit(t, c, thr)
      PROVE  NoneStranded'
  <2>1. /\ m_fibers' = Append(m_fibers, CbEntry(c, thr))
        /\ UNCHANGED <<pc, ft, cb_fiber, m_state, m_cb, starts, finished>>
    BY <1>1 DEF MainSubmit, UserSubmit, ScheduleCb
  <2>2. CbEntry(c, thr) \in Entries /\ CbEntry(c, thr).thread = thr
    BY EntryTypes DEF CbEntry
  <2>3. PICK n \in Nat : /\ DOMAIN m_fibers = 1..n /\ DOMAIN m_fibers' = 1..(n + 1)
                         /\ \A i \in 1..n : m_fibers'[i] = m_fibers[i]
                         /\ m_fibers'[n + 1] = CbEntry(c, thr)
    BY <2>1, <2>2, QueueAppended
  <2>4. ASSUME NEW f \in Fibers, Placed(f)
        PROVE  Placed(f)'
    BY <2>1, <2>3, <2>4 DEF Placed, HasFiber, Running
  <2>5. Pins \subseteq {AnyThread} => \A i \in DOMAIN m_fibers' : m_fibers'[i].thread = AnyThread
    BY <2>2, <2>3 DEF NoneStranded
  <2>6. \A f \in Fibers : Dead(f)' => m_cb'[f] \in finished \cup {Null}
    BY <2>1 DEF NoneStranded, Dead
  <2> QED
    BY <2>1, <2>4, <2>5, <2>6, StrandedKept
<1>2. ASSUME UNCHANGED <<m_fibers, ft, cb_fiber, m_state, m_cb, starts, finished>>,
             \A t \in Threads : pc'[t] = pc[t] \/ (pc[t] = "off" /\ pc'[t] = "scan")
      PROVE  NoneStranded'
  <2>1. \A f \in Fibers : Placed(f) => Placed(f)'
    BY <1>2 DEF Placed, HasFiber, Running, FiberPCs
  <2>2. \A f \in Fibers : Dead(f)' => m_cb'[f] \in finished \cup {Null}
    BY <1>2 DEF NoneStranded, Dead
  <2>3. Pins \subseteq {AnyThread} => \A i \in DOMAIN m_fibers' : m_fibers'[i].thread = AnyThread
    BY <1>2 DEF NoneStranded
  <2> QED
    BY <1>2, <2>1, <2>2, <2>3, StrandedKept
<1>3. CASE Start
  BY <1>2, <1>3 DEF Start, PhaseOK, MainAt
<1>4. CASE StopStep
  <2>1. UNCHANGED <<m_fibers, ft, cb_fiber, m_state, m_cb, starts, finished>>
    BY <1>4 DEF StopStep, StopRequest, StopFlag, StopLook, StopCall,
       StopReturn, StopJoin, StopGoTo
  <2>2. \A t \in Threads : pc'[t] = pc[t] \/ (pc[t] = "off" /\ pc'[t] = "scan")
    BY <1>4 DEF StopStep, StopRequest, StopFlag, StopLook, StopCall,
       StopReturn, StopJoin, StopGoTo, GoTo, MainAt, PhaseOK, TypeOK
  <2> QED
    BY <1>2, <2>1, <2>2
<1>5. ASSUME NEW t \in Threads, NEW f \in Fibers
      PROVE  ~Wake(t, f)
  BY DEF FiberStates, Wake
<1>6. CASE UNCHANGED vars
  BY <1>2, <1>6 DEF vars
<1> QED
  BY NextCases, <1>1, <1>3, <1>4, <1>5, <1>6, StrandedRun DEF StopStep

\* The invariant with which such a scheduler strands no callback.
LEMMA DrainInvHolds == ASSUME ~Polls PROVE Spec => []DrainInv
<1>1. Init => DrainInv
  <2>1. Init => NoneStranded
    BY DEF Init, NoneStranded, Dead
  <2> QED
    BY <2>1, InitNoHold DEF DrainInv
<1>2. DrainInv /\ [Next]_vars => DrainInv'
  BY NextNoHold, StrandedStep DEF DrainInv
<1> QED
  BY <1>1, <1>2, PTL DEF Spec

\* When stop() returns, every callback that was submitted has ended.
LEMMA AllEnded ==
  ASSUME DrainInv, Pins \subseteq {AnyThread}, main = "stopped"
  PROVE  \A c \in Cbs : PoolState[c] \in {"new", "done"}
<1>1. /\ \A t \in Threads : ~Alive(t)
      /\ DOMAIN m_fibers = {}
  <2>1. \A t \in Threads : ~Alive(t)
    BY DEF DrainInv, PoolInv, StopQuiet
  <2> QED
    BY <2>1 DEF DrainInv, NoHoldInv, StopPhases, NoneStranded
<1>2. \A f \in Fibers : ~Placed(f)
  BY <1>1 DEF Placed, HasFiber, Alive, FiberPCs
<1>3. \A t \in Threads : ft[t].cb = Null
  BY <1>1 DEF Alive, DrainInv, NoHoldInv, IndInv, HandOK, LocalOK
<1> SUFFICES ASSUME NEW c \in Cbs
             PROVE  PoolState[c] \in {"new", "done"}
  OBVIOUS
<1>4. ~InQueue(c) /\ ~InHand(c)
  BY <1>1, <1>3, SchedulerAssumption DEF InQueue, InHand
<1>5. /\ starts[c] \in Nat /\ starts[c] <= 1
      /\ c \in submitted => starts[c] = 1
      /\ starts[c] = 1 => c \in finished
  BY <1>2, <1>4 DEF DrainInv, NoHoldInv, IndInv, TypeOK, CbOnce, CbPlaced, NoneStranded
<1>6. ~(starts[c] > 1)
  BY <1>5
<1>7. CASE c \in finished
  BY <1>6, <1>7 DEF PoolState
<1>8. CASE c \notin finished
  <2>1. starts[c] # 1 /\ c \notin submitted
    BY <1>5, <1>8
  <2> QED
    BY <1>6, <1>8, <2>1 DEF PoolState
<1> QED
  BY <1>7, <1>8

\* A scheduler that does not poll and pins no callback is the stronger pool:
\* stop() does not return while a callback is queued or has not ended.  (That
\* each one ends is liveness.)
THEOREM SchedulerDrainsPool ==
  ASSUME ~Polls, Pins \subseteq {AnyThread} PROVE Spec => DrainsPool
<1>1. Init => Pool!Init
  BY DEF Init, Pool!Init, PoolState
<1>2. ASSUME DrainInv, DrainInv', [Next]_vars
      PROVE  [Pool!Move \/ Pool!JoinAll]_(Pool!vars)
  <2>1. [Pool!Next]_(Pool!vars)
    BY <1>2, PoolStep DEF DrainInv
  <2>2. ASSUME Pool!Join PROVE Pool!JoinAll
    <3>1. main' = "stopped" /\ UNCHANGED PoolState
      BY <2>2 DEF Pool!Join
    <3>2. \A c \in Cbs : PoolState'[c] \in {"new", "done"}
      <4>1. (DrainInv /\ Pins \subseteq {AnyThread} /\ main = "stopped"
                => \A c \in Cbs : PoolState[c] \in {"new", "done"})'
        BY AllEnded, PTL
      <4> QED
        BY <1>2, <3>1, <4>1
    <3> QED
      BY <2>2, <3>1, <3>2 DEF Pool!JoinAll
  <2> QED
    BY <2>1, <2>2 DEF Pool!Next
<1> QED
  BY <1>1, <1>2, DrainInvHolds, PTL DEF Spec, DrainsPool, Pool!DrainSafety

----------------------------------------------------------------------------
(* A scheduler with one thread, polling or not.                            *)

OneThread == \A t, u \in Threads : t = u

\* What the thread has seen pending, before it ends or before stop() does not
\* call it, stays so.
LoneInv ==
    /\ main \in {"init", "running"} => ~m_autoStop
    /\ \A t \in Threads :
         /\ pc[t] = "check" => armed = {}
         /\ idleTerm[t] => /\ m_autoStop /\ armed = {} /\ m_fibers = <<>>
                           /\ pc[t] \in {"idleback", "scan", "done"}
         /\ pc[t] = "done" => idleTerm[t]
    /\ main = "quiet" => armed = {}
    /\ main = "stopped" \/ (UseCaller /\ main = "join") => armed = {} /\ m_fibers = <<>>

\* Every step keeps it.
LEMMA LoneStep ==
  ASSUME OneThread, PoolInv, LoneInv, [Next]_vars
  PROVE  LoneInv'
<1>a. /\ TypeOK /\ PhaseOK /\ StopQuiet
      /\ pc \in [Threads -> PCs] /\ idleTerm \in [Threads -> BOOLEAN]
  BY DEF PoolInv, IndInv, TypeOK
<1>b. UseCaller => Caller \in Threads
  BY DEF Threads
<1>c. \A t, u \in Threads : t = u
  BY DEF OneThread
<1>1. CASE \E c \in Cbs, thr \in Pins : MainSubmit(c, thr)
  BY <1>1, <1>a DEF MainSubmit, MainAt, ScheduleCb, LoneInv
<1>2. CASE Start
  BY <1>2, <1>a DEF Start, MainAt, PhaseOK, LoneInv
<1>3. CASE StopRequest \/ StopFlag
  BY <1>3, <1>a DEF StopRequest, StopFlag, MainAt, NothingToRun, LoneInv
<1>4. CASE StopLook \/ StopCall \/ StopReturn
  BY <1>4, <1>a, <1>b DEF StopLook, StopCall, StopReturn, StopGoTo, Stopping, GoTo, MainAt, PhaseOK, LoneInv
<1>5. CASE StopJoin
  <2>1. ~UseCaller => \E t \in Threads : idleTerm[t]
    BY <1>5, SchedulerAssumption DEF StopJoin, LoneInv, Threads
  <2> QED
    BY <1>5, <2>1 DEF StopJoin, MainAt, LoneInv
<1>6. ASSUME NEW t \in Threads, NEW c \in Cbs, NEW thr \in Pins, UserSubmit(t, c, thr)
      PROVE  LoneInv'
  <2>1. \A u \in Threads : u = t /\ pc[u] = "user" /\ ~idleTerm[u]
    BY <1>6, <1>c DEF UserSubmit, InCallback, At, LoneInv
  <2>2. main # "stopped" /\ ~(UseCaller /\ main = "join")
    BY <1>6, <1>a, <1>b, <2>1 DEF StopQuiet, Alive
  <2> QED
    BY <1>6, <2>1, <2>2 DEF UserSubmit, LoneInv
<1>7. ASSUME NEW t \in Threads, NEW f \in Fibers, Wake(t, f)
      PROVE  LoneInv'
  <2>1. \A u \in Threads : u = t /\ pc[u] \in {"poll", "user"} /\ ~idleTerm[u]
    BY <1>7, <1>c DEF Wake, InCallback, At, LoneInv
  <2>2. main # "stopped" /\ ~(UseCaller /\ main = "join")
    BY <1>a, <1>b, <2>1 DEF StopQuiet, Alive
  <2> QED
    BY <1>7, <2>1, <2>2 DEF Wake, LoneInv
<1>8. ASSUME NEW t \in Threads, RunStep(t)
      PROVE  LoneInv'
  <2>a. Alive(t) /\ UNCHANGED main
    BY <1>8, <1>a, RunStepMoves
  <2>b. main # "stopped" /\ ~(UseCaller /\ main = "join") /\ main # "init"
        /\ (main = "quiet" => pc[t] = "off")
    BY <1>a, <1>b, <1>c, <2>a DEF StopQuiet, PhaseOK, Alive
  <2>c. main # "quiet"
    BY <2>a, <2>b DEF Alive
  <2>d. \A u \in Threads : u = t
    BY <1>c
  <2> USE <1>8, <1>a, <2>a, <2>b, <2>c, <2>d DEF GoTo, At, LoneInv
  <2>1. CASE ScanTake(t)
    <3>1. m_fibers # <<>> /\ ~idleTerm[t]
      BY <2>1 DEF ScanTake
    <3> QED
      BY <2>1, <3>1 DEF ScanTake
  <2>2. CASE ScanNone(t) \/ DispatchDead(t)
    BY <2>2 DEF ScanNone, DispatchDead, IdleOrBreak
  <2>3. CASE DispatchFiber(t) \/ DispatchCb(t)
    BY <2>3 DEF DispatchFiber, DispatchCb, Abort
  <2>4. CASE YieldToReady(t) \/ Arm(t) \/ YieldToHold(t) \/ MainFuncEnd(t)
    BY <2>4 DEF YieldToReady, Arm, YieldToHold, MainFuncEnd, MaySuspend, InCallback, Abort
  <2>5. CASE SwapOut(t) \/ Deactivate(t)
    BY <2>5 DEF SwapOut, Deactivate
  <2>6. CASE SettleReady(t) \/ SettleEnded(t) \/ SettleOther(t) \/ SetHold(t)
    BY <2>6 DEF SettleReady, SettleEnded, SettleOther, SetHold, Abort
  <2>7. CASE IdleLook(t)
    BY <2>7 DEF IdleLook, LookAtPending, KeepIdle
  <2>8. CASE IdleCheck(t)
    BY <2>8 DEF IdleCheck, KeepIdle, Stopping
  <2>9. CASE PollEnd(t) \/ IdleBack(t)
    BY <2>9 DEF PollEnd, IdleBack
  <2> QED
    BY <2>1, <2>2, <2>3, <2>4, <2>5, <2>6, <2>7, <2>8, <2>9 DEF RunStep
<1>9. CASE UNCHANGED vars
  BY <1>9 DEF vars, LoneInv
<1> QED
  BY NextCases, <1>1, <1>2, <1>3, <1>4, <1>5, <1>6, <1>7, <1>8, <1>9

\* It holds of every scheduler with one thread.
LEMMA LoneInvHolds == ASSUME OneThread PROVE Spec => []LoneInv
<1>1. Init => LoneInv
  BY DEF Init, LoneInv
<1> QED
  BY <1>1, LoneStep, PoolInvHolds, PTL DEF Spec

\* StopsWhenNothingIsPending: stop() of a scheduler with one thread, an
\* IOManager too, does not return while a timer or an event has still to
\* resume a fiber (IOManager::stopping(), iomanager.cc).
THEOREM StopsWhenNothingIsPending ==
  ASSUME OneThread PROVE Spec => []StopLeavesNothingArmed
<1>1. LoneInv => StopLeavesNothingArmed
  BY DEF LoneInv, StopLeavesNothingArmed
<1> QED
  BY <1>1, LoneInvHolds, PTL

\* OneThreadDrains: nor while anything is queued.
THEOREM OneThreadDrains == ASSUME OneThread PROVE Spec => []StopDrains
<1>1. LoneInv => StopDrains
  BY DEF LoneInv, StopDrains
<1> QED
  BY <1>1, LoneInvHolds, PTL

\* Where the only thread is tells the states of the fibers it has; a fiber
\* that awaits its timer or event is on HOLD and nowhere else once the thread
\* has left it.
SoloOK(t) ==
    /\ pc[t] = "dispatch" /\ ft[t].fiber # Null =>
          m_state[ft[t].fiber] \in {"READY", "HOLD"} /\ ft[t].fiber \notin armed
    /\ pc[t] \in {"user", "armed"} => m_state[Running(t)] = "EXEC"
    /\ pc[t] \in {"swapout", "post", "settle"}
          => m_state[Running(t)] \in {"READY", "HOLD", "TERM", "EXCEPT"}
    /\ pc[t] = "hold" => m_state[Running(t)] = "HOLD"
    /\ pc[t] \notin FiberPCs \cup {"dispatch"} => ft[t].fiber = Null
    /\ /\ cb_fiber[t] # Null
       /\ ft[t].fiber # Null \/ pc[t] \notin FiberPCs
       => m_state[cb_fiber[t]] = "INIT"
    /\ \A f \in armed : m_state[f] = "HOLD" \/ (pc[t] = "armed" /\ f = Running(t))
SoloStates ==
    /\ \A i \in DOMAIN m_fibers :
          m_fibers[i].fiber # Null => /\ m_state[m_fibers[i].fiber] \in {"READY", "HOLD"}
                                      /\ m_fibers[i].fiber \notin armed
    /\ \A t \in Threads : SoloOK(t)
    /\ fault = "none"
SoloInv == IndInv /\ FiberOwned /\ SoloStates

\* What the thread does next tells what it has: from here on t is the only
\* thread.
LEMMA SoloMove ==
  ASSUME OneThread, NEW t \in Threads,
         \A i \in DOMAIN m_fibers' :
            m_fibers'[i].fiber # Null =>
               /\ m_state'[m_fibers'[i].fiber] \in {"READY", "HOLD"}
               /\ m_fibers'[i].fiber \notin armed',
         SoloOK(t)', fault' = "none"
  PROVE  SoloStates'
BY DEF OneThread, SoloStates

\* Every step of run() keeps SoloStates, and fails no assertion.
LEMMA SoloRun ==
  ASSUME OneThread, SoloInv, NEW t \in Threads, RunStep(t)
  PROVE  SoloStates'
<1>a. /\ IndInv /\ TypeOK /\ HandOK /\ FiberOwned /\ SoloStates
      /\ LocalOK(t) /\ SoloOK(t) /\ fault = "none"
      /\ NoEntry.fiber = Null /\ NoEntry.cb = Null /\ Null \notin Fibers
  BY EntryTypes, SchedulerAssumption DEF SoloInv, IndInv, HandOK, SoloStates
<1>b. /\ pc \in [Threads -> PCs] /\ ft \in [Threads -> Entries]
      /\ cb_fiber \in [Threads -> Fibers \cup {Null}] /\ armed \subseteq Fibers
      /\ m_state \in [Fibers -> States] /\ m_fibers \in Seq(Entries)
  BY <1>a DEF TypeOK
<1>c. \A f \in {ft[t].fiber, cb_fiber[t]} : f \in Fibers \cup {Null}
  BY <1>b, EntryTypes
<1>d. pc[t] \in FiberPCs => Running(t) \in Fibers /\ Running(t) \in {ft[t].fiber, cb_fiber[t]}
  BY <1>a, RunningType DEF Running
<1>e. \A i \in DOMAIN m_fibers :
         /\ m_fibers[i].fiber \in Fibers \cup {Null}
         /\ m_fibers[i].fiber # Null =>
               /\ m_state[m_fibers[i].fiber] \in {"READY", "HOLD"}
               /\ m_fibers[i].fiber \notin armed
               /\ m_fibers[i].fiber \notin {ft[t].fiber, cb_fiber[t]}
  BY <1>a, <1>b, EntryTypes DEF SoloStates, FiberOwned
<1> USE <1>a, <1>b
\* Steps that leave the queue alone, and change at most the fiber g that the
\* thread has, or gets.
<1>0. ASSUME UNCHANGED <<m_fibers, fault>>, SoloOK(t)', NEW g \in Fibers \cup {Null},
             g \in {Null, ft[t].fiber, cb_fiber[t]} \/ ~Referenced(g),
             \A f \in Fibers : f # g => m_state'[f] = m_state[f],
             armed' \subseteq armed \cup {g}
      PROVE  SoloStates'
  <2>1. \A i \in DOMAIN m_fibers : m_fibers[i].fiber # Null => m_fibers[i].fiber # g
    BY <1>0, <1>e DEF Referenced
  <2> QED
    BY <1>0, <1>e, <2>1, SoloMove
<1>1. CASE ScanTake(t)
  <2>1. PICK i \in DOMAIN m_fibers : /\ ft' = [ft EXCEPT ![t] = m_fibers[i]]
                                     /\ m_fibers' = RemoveAt(m_fibers, i)
    BY <1>1 DEF ScanTake, Erase
  <2>2. i \in 1..Len(m_fibers)
    OBVIOUS
  <2>3. \A j \in DOMAIN m_fibers' : \E p \in DOMAIN m_fibers : m_fibers'[j] = m_fibers[p]
    BY <2>1, <2>2, QueueErased
  <2>4. /\ pc[t] = "scan" /\ pc' = [pc EXCEPT ![t] = "dispatch"]
        /\ UNCHANGED <<cb_fiber, m_state, armed, fault>>
    BY <1>1 DEF ScanTake, GoTo, At
  <2>5. ft'[t].fiber # Null => m_state'[ft'[t].fiber] \in {"READY", "HOLD"} /\ ft'[t].fiber \notin armed'
    BY <1>e, <2>1, <2>4
  <2>6. SoloOK(t)'
    BY <2>4, <2>5 DEF SoloOK, FiberPCs
  <2> QED
    BY <1>e, <2>3, <2>4, <2>6, SoloMove
<1>2. CASE ScanNone(t)
  <2>1. /\ pc[t] = "scan"
        /\ pc' = [pc EXCEPT ![t] = "done"] \/ pc' = [pc EXCEPT ![t] = "idle"]
        /\ ft' = [ft EXCEPT ![t] = NoEntry]
        /\ UNCHANGED <<m_fibers, cb_fiber, m_state, armed, fault>>
    BY <1>2 DEF ScanNone, IdleOrBreak, GoTo, At
  <2>2. SoloOK(t)'
    BY <2>1 DEF SoloOK, FiberPCs
  <2> QED
    BY <1>0, <2>1, <2>2
<1>3. ASSUME DispatchDead(t) PROVE FALSE
  BY <1>3 DEF DispatchDead, Dead, SoloOK, At
<1>4. CASE DispatchFiber(t)
  <2> DEFINE f == ft[t].fiber
  <2>1. pc[t] = "dispatch" /\ f # Null /\ f \in Fibers /\ m_state[f] # "EXEC" /\ f \notin armed
    BY <1>4, <1>c DEF DispatchFiber, At, SoloOK
  <2>2. ~StackBusy(f)
    BY <2>1, StackFree
  <2>3. /\ m_state' = [m_state EXCEPT ![f] = "EXEC"]
        /\ pc' = [pc EXCEPT ![t] = "user"]
        /\ UNCHANGED <<m_fibers, ft, cb_fiber, armed, fault>>
    BY <1>4, <2>1, <2>2 DEF DispatchFiber, GoTo
  <2>4. cb_fiber[t] # f
    BY <2>1 DEF FiberOwned
  <2>5. SoloOK(t)'
    BY <2>1, <2>3, <2>4 DEF SoloOK, FiberPCs, Running
  <2> QED
    BY <1>0, <2>1, <2>3, <2>5
<1>5. CASE DispatchCb(t)
  <2>1. /\ pc[t] = "dispatch" /\ ft[t].fiber = Null
        /\ cb_fiber[t] # Null => /\ m_state[cb_fiber[t]] = "INIT" /\ ~StackBusy(cb_fiber[t])
                                 /\ cb_fiber[t] \notin armed
    BY <1>5, <1>c, StackFree DEF DispatchCb, At, SoloOK, FiberPCs
  <2>2. PICK f \in Fibers :
           /\ f = cb_fiber[t] \/ ~Referenced(f)
           /\ m_state' = [m_state EXCEPT ![f] = "EXEC"]
           /\ cb_fiber' = [cb_fiber EXCEPT ![t] = f]
           /\ ft' = [ft EXCEPT ![t] = NoEntry]
           /\ GoTo(t, "user")
           /\ UNCHANGED <<m_fibers, armed, fault>>
    BY <1>5, <2>1 DEF DispatchCb
  <2>3. f \notin armed
    BY <2>1, <2>2 DEF Referenced
  <2>4. SoloOK(t)'
    BY <2>1, <2>2, <2>3 DEF SoloOK, FiberPCs, Running, GoTo
  <2> QED
    BY <1>0, <2>2, <2>4
<1>6. CASE YieldToReady(t) \/ MainFuncEnd(t)
  <2>1. /\ pc[t] = "user" /\ pc' = [pc EXCEPT ![t] = "swapout"]
        /\ UNCHANGED <<m_fibers, ft, cb_fiber, armed, fault>>
        /\ \E s \in {"READY", "TERM", "EXCEPT"} :
              m_state' = [m_state EXCEPT ![Running(t)] = s]
    BY <1>6 DEF YieldToReady, MaySuspend, InCallback, MainFuncEnd, At, GoTo
  <2>2. Running(t) \in Fibers /\ Running(t) \in {ft[t].fiber, cb_fiber[t]}
    BY <1>d, <2>1 DEF FiberPCs
  <2>3. /\ ft[t].fiber # Null => Running(t) # cb_fiber[t]
        /\ Running(t) \notin armed
    BY <2>1, <2>2 DEF FiberOwned, Running, SoloOK
  <2>4. UNCHANGED Running(t)
    BY <2>1 DEF Running
  <2>5. SoloOK(t)'
    BY <2>1, <2>2, <2>3, <2>4 DEF SoloOK, FiberPCs
  <2>6. \A f \in Fibers : f # Running(t) => m_state'[f] = m_state[f]
    BY <2>1
  <2> QED
    BY <1>0, <2>1, <2>2, <2>5, <2>6
<1>7. CASE Arm(t)
  <2>1. pc[t] = "user" /\ m_state[Running(t)] = "EXEC"
    BY <1>7 DEF Arm, MaySuspend, InCallback, At, SoloOK
  <2>2. Running(t) \in Fibers /\ Running(t) \in {ft[t].fiber, cb_fiber[t]}
    BY <1>d, <2>1 DEF FiberPCs
  <2>3. /\ pc' = [pc EXCEPT ![t] = "armed"] /\ armed' = armed \cup {Running(t)}
        /\ UNCHANGED <<m_fibers, ft, cb_fiber, m_state, fault>>
    BY <1>7, <2>1 DEF Arm, GoTo
  <2>4. UNCHANGED Running(t)
    BY <2>3 DEF Running
  <2>5. SoloOK(t)'
    BY <2>1, <2>2, <2>3, <2>4 DEF SoloOK, FiberPCs
  <2> QED
    BY <1>0, <2>2, <2>3, <2>5
<1>8. CASE YieldToHold(t)
  <2>1. /\ pc[t] = "armed" /\ pc' = [pc EXCEPT ![t] = "swapout"]
        /\ m_state' = [m_state EXCEPT ![Running(t)] = "HOLD"]
        /\ UNCHANGED <<m_fibers, ft, cb_fiber, armed, fault>>
    BY <1>8 DEF YieldToHold, At, GoTo
  <2>2. Running(t) \in Fibers /\ Running(t) \in {ft[t].fiber, cb_fiber[t]}
    BY <1>d, <2>1 DEF FiberPCs
  <2>3. ft[t].fiber # Null => Running(t) # cb_fiber[t]
    BY <2>2 DEF FiberOwned, Running
  <2>4. UNCHANGED Running(t)
    BY <2>1 DEF Running
  <2>5. SoloOK(t)'
    BY <2>1, <2>2, <2>3, <2>4 DEF SoloOK, FiberPCs
  <2>6. \A f \in Fibers : f # Running(t) => m_state'[f] = m_state[f]
    BY <2>1
  <2> QED
    BY <1>0, <2>1, <2>2, <2>5, <2>6
<1>9. CASE SwapOut(t) \/ Deactivate(t) \/ SettleOther(t)
  <2>1. /\ pc[t] \in {"swapout", "post", "settle"}
        /\ UNCHANGED <<m_fibers, ft, cb_fiber, m_state, armed, fault>>
        /\ \/ pc' = [pc EXCEPT ![t] = "post"] \/ pc' = [pc EXCEPT ![t] = "settle"]
           \/ pc' = [pc EXCEPT ![t] = "hold"] /\ m_state[Running(t)] \notin {"READY", "TERM", "EXCEPT"}
    BY <1>9 DEF SwapOut, Deactivate, SettleOther, At, GoTo
  <2>2. UNCHANGED Running(t)
    BY <2>1 DEF Running
  <2>3. SoloOK(t)'
    BY <2>1, <2>2 DEF SoloOK, FiberPCs
  <2> QED
    BY <1>0, <2>1, <2>3
<1>10. CASE SettleReady(t)
  <2>1. /\ pc[t] = "settle" /\ m_state[Running(t)] = "READY"
        /\ ScheduleFiber(Running(t)) /\ Forget(t) /\ pc' = [pc EXCEPT ![t] = "scan"]
        /\ UNCHANGED <<m_state, armed, fault>>
    BY <1>10 DEF SettleReady, At, GoTo
  <2>2. Running(t) \in Fibers /\ Running(t) \notin armed
    BY <1>d, <2>1 DEF FiberPCs, SoloOK
  <2>3. PICK n \in Nat : /\ DOMAIN m_fibers = 1..n /\ DOMAIN m_fibers' = 1..(n + 1)
                         /\ \A i \in 1..n : m_fibers'[i] = m_fibers[i]
                         /\ m_fibers'[n + 1].fiber = Running(t)
    BY <2>1, <2>2, EntryTypes, QueueAppended DEF ScheduleFiber
  <2>4. ASSUME NEW i \in DOMAIN m_fibers', m_fibers'[i].fiber # Null
        PROVE  /\ m_state'[m_fibers'[i].fiber] \in {"READY", "HOLD"}
               /\ m_fibers'[i].fiber \notin armed'
    <3>1. CASE i \in 1..n
      BY <1>e, <2>1, <2>3, <2>4, <3>1
    <3>2. CASE i = n + 1
      BY <2>1, <2>2, <2>3, <3>2
    <3> QED
      BY <2>3, <3>1, <3>2
  <2>5. /\ ft'[t].fiber = Null
        /\ cb_fiber'[t] # Null => cb_fiber'[t] = cb_fiber[t] /\ ft[t].fiber # Null
    BY <2>1 DEF Forget
  <2>6. SoloOK(t)'
    BY <2>1, <2>5 DEF SoloOK, FiberPCs
  <2> QED
    BY <2>1, <2>4, <2>6, SoloMove
<1>11. CASE SettleEnded(t)
  <2>0. pc[t] = "settle" /\ Running(t) \in Fibers /\ Running(t) \notin armed
    BY <1>11, <1>d DEF SettleEnded, At, FiberPCs, Dead, SoloOK
  <2>1. CASE ft[t].fiber # Null
    <3>1. /\ pc' = [pc EXCEPT ![t] = "scan"] /\ ft' = [ft EXCEPT ![t] = NoEntry]
          /\ UNCHANGED <<m_fibers, cb_fiber, m_state, armed, fault>>
      BY <1>11, <2>1 DEF SettleEnded, GoTo, Forget
    <3>2. SoloOK(t)'
      BY <2>0, <2>1, <3>1 DEF SoloOK, FiberPCs
    <3> QED
      BY <1>0, <3>1, <3>2
  <2>2. CASE ft[t].fiber = Null
    <3>1. Running(t) = cb_fiber[t]
      BY <2>2 DEF Running
    <3>2. ~StackBusy(Running(t))
      BY <2>0, <3>1, StackFree
    <3>3. /\ pc' = [pc EXCEPT ![t] = "scan"]
          /\ m_state' = [m_state EXCEPT ![cb_fiber[t]] = "INIT"]
          /\ UNCHANGED <<m_fibers, ft, cb_fiber, armed, fault>>
      BY <1>11, <2>2, <3>1, <3>2 DEF SettleEnded, GoTo
    <3>4. SoloOK(t)'
      BY <2>0, <2>2, <3>1, <3>3 DEF SoloOK, FiberPCs
    <3> QED
      BY <1>0, <2>0, <3>1, <3>3, <3>4
  <2> QED
    BY <2>1, <2>2
<1>12. CASE SetHold(t)
  <2>1. /\ pc[t] = "hold" /\ m_state[Running(t)] = "HOLD" /\ pc' = [pc EXCEPT ![t] = "scan"]
        /\ m_state' = [m_state EXCEPT ![Running(t)] = "HOLD"] /\ Forget(t)
        /\ UNCHANGED <<m_fibers, armed, fault>>
    BY <1>12 DEF SetHold, At, GoTo, SoloOK
  <2>2. m_state' = m_state
    BY <2>1
  <2>3. /\ ft'[t].fiber = Null
        /\ cb_fiber'[t] # Null => cb_fiber'[t] = cb_fiber[t] /\ ft[t].fiber # Null
    BY <2>1 DEF Forget
  <2>4. SoloOK(t)'
    BY <2>1, <2>2, <2>3 DEF SoloOK, FiberPCs
  <2> QED
    BY <1>0, <2>1, <2>2, <2>4
<1>13. CASE IdleLook(t) \/ IdleCheck(t) \/ PollEnd(t) \/ IdleBack(t)
  <2>1. PICK label \in {"check", "poll", "idleback", "scan"} : GoTo(t, label)
    BY <1>13 DEF IdleLook, IdleCheck, PollEnd, IdleBack, LookAtPending, KeepIdle
  <2>2. /\ pc[t] \in {"idle", "check", "poll", "idleback"}
        /\ UNCHANGED <<m_fibers, ft, cb_fiber, m_state, armed, fault>>
    BY <1>13 DEF IdleLook, IdleCheck, PollEnd, IdleBack, At
  <2>3. SoloOK(t)'
    BY <2>1, <2>2 DEF SoloOK, FiberPCs, GoTo
  <2> QED
    BY <1>0, <2>2, <2>3
<1> QED
  BY <1>1, <1>2, <1>3, <1>4, <1>5, <1>6, <1>7, <1>8, <1>9, <1>10, <1>11, <1>12, <1>13 DEF RunStep

\* A fiber that is woken goes from its wait to the queue.
LEMMA SoloWake ==
  ASSUME OneThread, SoloInv, NEW t \in Threads, NEW f \in Fibers, Wake(t, f)
  PROVE  FiberOwned' /\ SoloStates'
<1>a. /\ IndInv /\ TypeOK /\ FiberOwned /\ SoloStates /\ SoloOK(t) /\ HandOK
      /\ Null \notin Fibers /\ \A u \in Threads : u = t
  BY SchedulerAssumption DEF SoloInv, IndInv, SoloStates, OneThread
<1>1. /\ pc[t] \in {"poll", "user"} /\ f \in armed /\ m_state[f] = "HOLD"
      /\ armed' = armed \ {f} /\ ScheduleFiber(f) /\ fault' = "none"
      /\ UNCHANGED <<pc, ft, cb_fiber, m_state>>
  BY <1>a DEF Wake, InCallback, At, SoloOK
<1>2. PICK n \in Nat : /\ DOMAIN m_fibers = 1..n /\ DOMAIN m_fibers' = 1..(n + 1)
                       /\ \A i \in 1..n : m_fibers'[i] = m_fibers[i]
                       /\ m_fibers'[n + 1].fiber = f
  BY <1>1, <1>a, EntryTypes, QueueAppended DEF ScheduleFiber
<1>3. \A i \in 1..n : m_fibers[i].fiber # f
  BY <1>1, <1>2, <1>a DEF SoloStates
<1>4. f \notin {ft[t].fiber, cb_fiber[t]}
  <2>1. CASE pc[t] = "poll"
    BY <1>a, <1>1, <2>1 DEF SoloOK, FiberPCs
  <2>2. CASE pc[t] = "user"
    BY <1>a, <1>1, <2>2 DEF SoloOK, FiberPCs, Running, HandOK, LocalOK
  <2> QED
    BY <1>1, <2>1, <2>2
<1>5. FiberOwned'
  <2>1. ASSUME NEW i \in DOMAIN m_fibers', NEW j \in DOMAIN m_fibers',
               m_fibers'[i].fiber = m_fibers'[j].fiber
        PROVE  i = j \/ m_fibers'[i].fiber = Null
    BY <1>a, <1>2, <1>3, <2>1 DEF FiberOwned
  <2>2. ASSUME NEW i \in DOMAIN m_fibers', NEW u \in Threads,
               m_fibers'[i].fiber \in {ft[u].fiber, cb_fiber[u]}
        PROVE  m_fibers'[i].fiber = Null
    <3>1. CASE i \in 1..n
      BY <1>a, <1>2, <2>2, <3>1 DEF FiberOwned
    <3>2. CASE i = n + 1
      BY <1>a, <1>2, <1>4, <2>2, <3>2
    <3> QED
      BY <1>2, <3>1, <3>2
  <2> QED
    BY <1>1, <1>a, <2>1, <2>2 DEF FiberOwned
<1>6. SoloOK(t)'
  BY <1>a, <1>1 DEF SoloOK, FiberPCs, Running
<1>7. ASSUME NEW i \in DOMAIN m_fibers', m_fibers'[i].fiber # Null
      PROVE  /\ m_state'[m_fibers'[i].fiber] \in {"READY", "HOLD"}
             /\ m_fibers'[i].fiber \notin armed'
  <2>1. CASE i \in 1..n
    BY <1>a, <1>1, <1>2, <1>7, <2>1 DEF SoloStates
  <2>2. CASE i = n + 1
    BY <1>1, <1>2, <2>2
  <2> QED
    BY <1>2, <2>1, <2>2
<1> QED
  BY <1>1, <1>5, <1>6, <1>7, SoloMove

\* A step that leaves the fibers and the queue alone, and at most starts the
\* thread, keeps the states.
LEMMA SoloKept ==
  ASSUME SoloStates,
         UNCHANGED <<m_fibers, ft, cb_fiber, m_state, armed, fault>>,
         \A t \in Threads : pc'[t] = pc[t] \/ (pc[t] = "off" /\ pc'[t] = "scan")
  PROVE  SoloStates'
<1>1. ASSUME NEW t \in Threads PROVE SoloOK(t)'
  BY <1>1 DEF SoloStates, SoloOK, FiberPCs, Running
<1> QED
  BY <1>1 DEF SoloStates

\* Every step keeps the fibers in their places and states.
LEMMA SoloStep ==
  ASSUME OneThread, SoloInv, [Next]_vars
  PROVE  SoloInv'
<1>a. /\ IndInv /\ TypeOK /\ PhaseOK /\ FiberOwned /\ SoloStates /\ pc \in [Threads -> PCs]
  BY DEF SoloInv, IndInv, TypeOK
<1>1. IndInv'
  BY <1>a, NextInd
<1>2. CASE \E t \in Threads, f \in Fibers : Wake(t, f)
  BY <1>1, <1>2, SoloWake DEF SoloInv
<1>3. CASE \A t \in Threads, f \in Fibers : ~Wake(t, f)
  <2>1. FiberOwned'
    BY <1>a, <1>3, OwnedStep
  <2>2. ASSUME NEW c \in Cbs, NEW thr \in Pins,
               MainSubmit(c, thr) \/ \E t \in Threads : UserSubmit(t, c, thr)
        PROVE  SoloStates'
    <3>1. /\ m_fibers' = Append(m_fibers, CbEntry(c, thr))
          /\ UNCHANGED <<pc, ft, cb_fiber, m_state, armed, fault>>
      BY <2>2 DEF MainSubmit, UserSubmit, ScheduleCb
    <3>2. CbEntry(c, thr) \in Entries /\ CbEntry(c, thr).fiber = Null
      BY EntryTypes
    <3>3. PICK n \in Nat : /\ DOMAIN m_fibers = 1..n /\ DOMAIN m_fibers' = 1..(n + 1)
                           /\ \A i \in 1..n : m_fibers'[i] = m_fibers[i]
                           /\ m_fibers'[n + 1].fiber = Null
      BY <1>a, <3>1, <3>2, QueueAppended
    <3>4. ASSUME NEW i \in DOMAIN m_fibers', m_fibers'[i].fiber # Null
          PROVE  /\ m_state'[m_fibers'[i].fiber] \in {"READY", "HOLD"}
                 /\ m_fibers'[i].fiber \notin armed'
      BY <1>a, <3>1, <3>3, <3>4 DEF SoloStates
    <3>5. ASSUME NEW t \in Threads PROVE SoloOK(t)'
      BY <1>a, <3>1, <3>5 DEF SoloStates, SoloOK, FiberPCs, Running
    <3> QED
      BY <1>a, <3>1, <3>4, <3>5 DEF SoloStates
  <2>3. ASSUME Start \/ StopStep PROVE SoloStates'
    <3>1. UNCHANGED <<m_fibers, ft, cb_fiber, m_state, armed, fault>>
      BY <2>3 DEF Start, StopStep, StopRequest, StopFlag, StopLook, StopCall,
         StopReturn, StopJoin, StopGoTo
    <3>2. \A t \in Threads : pc'[t] = pc[t] \/ (pc[t] = "off" /\ pc'[t] = "scan")
      BY <1>a, <2>3 DEF Start, StopStep, StopRequest, StopFlag, StopLook, StopCall,
         StopReturn, StopJoin, StopGoTo, GoTo, MainAt, PhaseOK
    <3> QED
      BY <1>a, <3>1, <3>2, SoloKept
  <2>4. ASSUME UNCHANGED vars PROVE SoloStates'
    BY <1>a, <2>4, SoloKept DEF vars
  <2>5. ASSUME \E t \in Threads : RunStep(t) PROVE SoloStates'
    BY <2>5, SoloRun
  <2>6. SoloStates'
    BY NextCases, <1>3, <2>2, <2>3, <2>4, <2>5 DEF StopStep
  <2> QED
    BY <1>1, <2>1, <2>6 DEF SoloInv
<1> QED
  BY <1>2, <1>3

\* The invariant of a scheduler with one thread.
LEMMA SoloHolds == ASSUME OneThread PROVE Spec => []SoloInv
<1>1. Init => SoloInv
  BY InitNoHold, EntryTypes DEF Init, SoloInv, NoHoldInv, SoloStates, SoloOK, FiberPCs
<1> QED
  BY <1>1, SoloStep, PTL DEF Spec

\* OneThreadNoFault: with one thread no assertion of fiber.cc or iomanager.cc
\* fails, and no stack is run on while it is in use, although fibers wait for
\* timers and events and are woken.
THEOREM OneThreadNoFault == ASSUME OneThread PROVE Spec => []NoFault
<1>1. SoloInv => NoFault
  BY DEF SoloInv, SoloStates, NoFault
<1> QED
  BY <1>1, SoloHolds, PTL
=============================================================================
