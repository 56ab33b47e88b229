----------------------------- MODULE Scheduler -----------------------------
(***************************************************************************)
(* The N:M fiber scheduler of src/awcotn/scheduler.{h,cc}, with the part   *)
(* of src/awcotn/fiber.cc that it drives.                                  *)
(*                                                                         *)
(* Every pool thread executes Scheduler::run(): take one entry of m_fibers *)
(* under m_mutex, swap its fiber in, and when the fiber comes back look at *)
(* the state it left and re-queue it, recycle it or put it on HOLD; with   *)
(* nothing to take, resume the idle fiber.  The main thread submits work,  *)
(* calls start() and stop().  Each step below is the code between two      *)
(* points at which another thread can see or change shared state.          *)
(*                                                                         *)
(* A failed AWCOTN_ASSERT aborts the process (the build is -O0 without     *)
(* NDEBUG), and running one stack on two threads is undefined: both stop   *)
(* the model in a state whose variable `fault' says what happened.         *)
(***************************************************************************)
EXTENDS Naturals, FiniteSets, SequencesExt

CONSTANTS Workers,      \* the threads start() creates (m_threadCount of them)
          Caller,       \* the thread that constructed the scheduler
          UseCaller,    \* the constructor's use_caller argument
          Fibers,       \* the fiber objects that can exist at once
          Cbs,          \* the callbacks that may be submitted, each once
          Null,         \* nullptr, an empty std::function
          AnyThread,    \* the thread argument -1
          Pins,         \* the thread arguments that schedule() is given
          Polls,        \* the scheduler is an IOManager: its idle() polls
          MaxSuspends   \* how often one callback may yield

Threads == Workers \cup (IF UseCaller THEN {Caller} ELSE {})

\* Distinct sets stand for distinct C++ types.
ASSUME SchedulerAssumption ==
    /\ IsFiniteSet(Workers)
    /\ UseCaller \in BOOLEAN
    /\ Caller \notin Workers
    /\ Threads # {}
    /\ Null \notin Fibers \cup Cbs
    /\ AnyThread \notin Threads
    /\ Pins \subseteq Threads \cup {AnyThread}
    /\ Polls \in BOOLEAN
    /\ MaxSuspends \in Nat

VARIABLES
    m_fibers,             \* the run queue
    m_activeThreadCount,
    m_idleThreadCount,
    m_stopping,
    m_autoStop,
    pc,                   \* where each pool thread is in run()
    ft,                   \* run()'s local FiberAndThread
    cb_fiber,             \* run()'s local fiber for plain callbacks
    idleTerm,             \* the thread's idle fiber has reached TERM
    m_state,              \* Fiber::m_state
    m_cb,                 \* Fiber::m_cb
    armed,                \* fibers a timer or an event will schedule once
    main,                 \* where the main thread is
    suspends,             \* how often each callback has yielded
    submitted,            \* callbacks given to schedule()      (history)
    starts,               \* how often each callback was entered (history)
    finished,             \* callbacks that returned or threw    (history)
    fault                 \* "none", or what aborted the process

queueVars == <<m_fibers, submitted>>
countVars == <<m_activeThreadCount, m_idleThreadCount>>
stopVars  == <<m_stopping, m_autoStop, main>>
localVars == <<ft, cb_fiber, idleTerm>>
fiberVars == <<m_state, m_cb, armed>>
cbVars    == <<suspends, starts, finished>>

vars == <<queueVars, countVars, stopVars, pc, localVars, fiberVars, cbVars,
          fault>>

States == {"INIT", "HOLD", "EXEC", "TERM", "READY", "EXCEPT"}

Entries == [fiber : Fibers \cup {Null}, cb : Cbs \cup {Null},
            thread : Threads \cup {AnyThread}]

NoEntry == [fiber |-> Null, cb |-> Null, thread |-> AnyThread]

PCs == {"off", "scan", "dispatch", "user", "armed", "swapout", "post",
        "settle", "hold", "idle", "check", "poll", "idleback", "done"}

MainPCs == {"init", "running", "autostop", "stopping", "quiet", "called",
            "join", "stopped"}

Faults == {"none", "swapIn", "reset", "exec", "stack"}

Init ==
    /\ m_fibers = <<>>
    /\ m_activeThreadCount = 0
    /\ m_idleThreadCount = 0
    /\ m_stopping = TRUE
    /\ m_autoStop = FALSE
    /\ pc = [t \in Threads |-> "off"]
    /\ ft = [t \in Threads |-> NoEntry]
    /\ cb_fiber = [t \in Threads |-> Null]
    /\ idleTerm = [t \in Threads |-> FALSE]
    /\ m_state = [f \in Fibers |-> "INIT"]
    /\ m_cb = [f \in Fibers |-> Null]
    /\ armed = {}
    /\ main = "init"
    /\ suspends = [c \in Cbs |-> 0]
    /\ submitted = {}
    /\ starts = [c \in Cbs |-> 0]
    /\ finished = {}
    /\ fault = "none"

----------------------------------------------------------------------------
(* Helpers.                                                                *)

\* Scheduler::stopping(), evaluated under m_mutex.  IOManager::stopping() is
\* armed = {} (no timer, m_pendingEventCount = 0) and then this, in two steps.
Stopping == m_autoStop /\ m_stopping /\ m_fibers = <<>> /\ m_activeThreadCount = 0

FiberEntry(f) == [fiber |-> f, cb |-> Null, thread |-> AnyThread]
CbEntry(c, thr) == [fiber |-> Null, cb |-> c, thread |-> thr]

\* schedule(fiber) and schedule(cb, thread): scheduleNoLock under the lock.
ScheduleFiber_Drops(f) == UNCHANGED m_fibers                    \* mutant
ScheduleFiber(f) == m_fibers' = Append(m_fibers, FiberEntry(f))
ScheduleCb(c, thr) ==
    /\ m_fibers' = Append(m_fibers, CbEntry(c, thr))
    /\ submitted' = submitted \cup {c}

\* The fiber whose swapIn() thread t is inside of, or has just returned from.
Running(t) == IF ft[t].fiber # Null THEN ft[t].fiber ELSE cb_fiber[t]

\* f's stack is in use by t: until swapcontext in swapOut() has saved it.
OnStack(t, f) == pc[t] \in {"user", "armed", "swapout"} /\ Running(t) = f

StackBusy(f) == \E t \in Threads : OnStack(t, f)

\* A pointer to f exists.  A suspended fiber also keeps itself alive, by the
\* shared_ptr on its own stack.
Referenced(f) ==
    \/ \E i \in DOMAIN m_fibers : m_fibers[i].fiber = f
    \/ \E t \in Threads : ft[t].fiber = f \/ cb_fiber[t] = f
    \/ f \in armed
    \/ m_state[f] \notin {"INIT", "TERM", "EXCEPT"}

\* What leaves the queue, and how the active threads are counted.
Erase_Nothing(i) == m_fibers                                    \* mutant
Erase(i) == RemoveAt(m_fibers, i)
CountUp_Missing == m_activeThreadCount                          \* mutant
CountUp == m_activeThreadCount + 1
CountDown_Missing == m_activeThreadCount                        \* mutant
CountDown == m_activeThreadCount - 1

\* The entries the scan of run() does not skip.
Takeable(t, e) ==
    /\ e.thread \in {AnyThread, t}
    /\ e.fiber # Null => m_state[e.fiber] # "EXEC"

Dead(f) == m_state[f] \in {"TERM", "EXCEPT"}

\* Control is here, and the process has not aborted.
At(t, label) == fault = "none" /\ pc[t] = label
MainAt(labels) == fault = "none" /\ main \in labels

GoTo(t, label) == pc' = [pc EXCEPT ![t] = label]

Abort(what) ==
    /\ fault' = what
    /\ UNCHANGED <<queueVars, countVars, stopVars, pc, localVars, fiberVars,
                   cbVars>>

----------------------------------------------------------------------------
(* The main thread.                                                        *)

\* The constructor's caller schedules work before it calls stop().
MainSubmit(c, thr) ==
    /\ MainAt({"init", "running"})
    /\ c \notin submitted
    /\ ScheduleCb(c, thr)
    /\ UNCHANGED <<countVars, stopVars, pc, localVars, fiberVars, cbVars,
                   fault>>

\* start() holds m_mutex while it creates the threads, so none of them gets
\* past the lock of its first scan before all exist.
Start ==
    /\ MainAt({"init"})
    /\ m_stopping
    /\ m_stopping' = FALSE
    /\ main' = "running"
    /\ pc' = [t \in Threads |-> IF t \in Workers THEN "scan" ELSE pc[t]]
    /\ UNCHANGED <<queueVars, countVars, m_autoStop, localVars, fiberVars,
                   cbVars, fault>>

StopRequest ==
    /\ MainAt({"running"})
    /\ m_autoStop' = TRUE
    /\ main' = "autostop"
    /\ UNCHANGED <<queueVars, countVars, m_stopping, pc, localVars, fiberVars,
                   cbVars, fault>>

\* Without workers stop() returns at once when there is nothing to run.
NothingToRun_Flags == m_autoStop                                \* mutant
NothingToRun == armed = {} /\ m_fibers = <<>> /\ m_activeThreadCount = 0

StopFlag ==
    /\ MainAt({"autostop"})
    /\ m_stopping' = TRUE
    /\ main' = IF UseCaller /\ Workers = {} /\ NothingToRun THEN "stopped"
                                                           ELSE "stopping"
    /\ UNCHANGED <<queueVars, countVars, m_autoStop, pc, localVars, fiberVars,
                   cbVars, fault>>

\* Join at once, or let the root fiber execute run() on the caller's thread.
StopGoTo(label) ==
    /\ main' = label
    /\ IF label = "called" THEN GoTo(Caller, "scan") ELSE UNCHANGED pc
    /\ UNCHANGED <<queueVars, countVars, m_stopping, m_autoStop, localVars,
                   fiberVars, cbVars, fault>>

\* The virtual stopping(): first the timers and the pending events ...
StopLook ==
    /\ MainAt({"stopping"})
    /\ StopGoTo(IF ~UseCaller THEN "join"
                ELSE IF armed = {} THEN "quiet" ELSE "called")

\* ... then the queue and the threads.
StopCall ==
    /\ MainAt({"quiet"})
    /\ StopGoTo(IF Stopping THEN "join" ELSE "called")

StopReturn ==
    /\ MainAt({"called"})
    /\ pc[Caller] = "done"
    /\ main' = "join"
    /\ UNCHANGED <<queueVars, countVars, m_stopping, m_autoStop, pc, localVars,
                   fiberVars, cbVars, fault>>

StopJoin ==
    /\ MainAt({"join"})
    /\ \A w \in Workers : pc[w] = "done"
    /\ main' = "stopped"
    /\ UNCHANGED <<queueVars, countVars, m_stopping, m_autoStop, pc, localVars,
                   fiberVars, cbVars, fault>>

----------------------------------------------------------------------------
(* run(): choosing what to do.                                             *)

\* The first entry that is not skipped leaves the queue, and this thread is
\* counted active, in one critical section.
ScanTake(t) ==
    /\ At(t, "scan")
    /\ \E i \in DOMAIN m_fibers :
          /\ Takeable(t, m_fibers[i])
          /\ \A j \in 1..(i - 1) : ~Takeable(t, m_fibers[j])
          /\ ft' = [ft EXCEPT ![t] = m_fibers[i]]
          /\ m_fibers' = Erase(i)
    /\ m_activeThreadCount' = CountUp
    /\ GoTo(t, "dispatch")
    /\ UNCHANGED <<submitted, m_idleThreadCount, stopVars, cb_fiber, idleTerm,
                   fiberVars, cbVars, fault>>

\* The last branch of the loop body: leave run() if the idle fiber is over,
\* else count this thread idle and resume its idle fiber.
IdleOrBreak(t) ==
    IF idleTerm[t]
    THEN GoTo(t, "done") /\ UNCHANGED m_idleThreadCount
    ELSE GoTo(t, "idle") /\ m_idleThreadCount' = m_idleThreadCount + 1

ScanNone(t) ==
    /\ At(t, "scan")
    /\ \A i \in DOMAIN m_fibers : ~Takeable(t, m_fibers[i])
    /\ IdleOrBreak(t)
    /\ ft' = [ft EXCEPT ![t] = NoEntry]
    /\ UNCHANGED <<queueVars, m_activeThreadCount, stopVars, cb_fiber,
                   idleTerm, fiberVars, cbVars, fault>>

\* A fiber that already ended falls through to the idle branch: the count
\* that ScanTake incremented stays incremented.
DispatchDead(t) ==
    /\ At(t, "dispatch")
    /\ ft[t].fiber # Null
    /\ Dead(ft[t].fiber)
    /\ IdleOrBreak(t)
    /\ UNCHANGED <<queueVars, m_activeThreadCount, stopVars, localVars,
                   fiberVars, cbVars, fault>>

\* Fiber::swapIn() of a queued fiber.
DispatchFiber(t) ==
    LET f == ft[t].fiber IN
    /\ At(t, "dispatch")
    /\ f # Null
    /\ ~Dead(f)
    /\ \/ /\ m_state[f] = "EXEC"
          /\ Abort("swapIn")
       \/ /\ m_state[f] # "EXEC"
          /\ StackBusy(f)
          /\ Abort("stack")
       \/ /\ m_state[f] # "EXEC"
          /\ ~StackBusy(f)
          /\ m_state' = [m_state EXCEPT ![f] = "EXEC"]
          /\ GoTo(t, "user")
          /\ UNCHANGED <<queueVars, countVars, stopVars, localVars, m_cb,
                         armed, cbVars, fault>>

\* Fiber::reset(cb), or a new fiber, and its swapIn().
DispatchCb(t) ==
    LET c == ft[t].cb IN
    /\ At(t, "dispatch")
    /\ ft[t].fiber = Null
    /\ \/ /\ cb_fiber[t] # Null
          /\ m_state[cb_fiber[t]] \notin {"TERM", "INIT", "EXCEPT"}
          /\ Abort("reset")
       \/ /\ cb_fiber[t] # Null
          /\ m_state[cb_fiber[t]] \in {"TERM", "INIT", "EXCEPT"}
          /\ StackBusy(cb_fiber[t])
          /\ Abort("stack")
       \/ \E f \in Fibers :
             /\ IF cb_fiber[t] # Null
                THEN f = cb_fiber[t] /\ m_state[f] \in {"TERM", "INIT", "EXCEPT"}
                ELSE ~Referenced(f)
             /\ ~StackBusy(f)
             /\ m_cb' = [m_cb EXCEPT ![f] = c]
             /\ m_state' = [m_state EXCEPT ![f] = "EXEC"]
             /\ cb_fiber' = [cb_fiber EXCEPT ![t] = f]
             /\ ft' = [ft EXCEPT ![t] = NoEntry]
             /\ starts' = [starts EXCEPT ![c] = @ + 1]
             /\ GoTo(t, "user")
             /\ UNCHANGED <<queueVars, countVars, stopVars, idleTerm, armed,
                            suspends, finished, fault>>

----------------------------------------------------------------------------
(* The callback on its fiber: Fiber::MainFunc and what user code calls.    *)

InCallback(t) == At(t, "user") /\ m_cb[Running(t)] # Null

\* schedule(cb, thread) from inside a callback.
UserSubmit(t, c, thr) ==
    /\ InCallback(t)
    /\ c \notin submitted
    /\ ScheduleCb(c, thr)
    /\ UNCHANGED <<countVars, stopVars, pc, localVars, fiberVars, cbVars,
                   fault>>

MaySuspend(t) == InCallback(t) /\ suspends[m_cb[Running(t)]] < MaxSuspends

Suspended(t) == suspends' = [suspends EXCEPT ![m_cb[Running(t)]] = @ + 1]

\* Fiber::YieldToReady(), up to the switch.
YieldToReady(t) ==
    /\ MaySuspend(t)
    /\ Suspended(t)
    /\ m_state' = [m_state EXCEPT ![Running(t)] = "READY"]
    /\ GoTo(t, "swapout")
    /\ UNCHANGED <<queueVars, countVars, stopVars, localVars, m_cb, armed,
                   starts, finished, fault>>

\* addEvent() or addTimer() with the current fiber, on the way to a
\* YieldToHold(); addEvent asserts that the running fiber's state is EXEC.
Arm(t) ==
    /\ Polls
    /\ MaySuspend(t)
    /\ IF m_state[Running(t)] = "EXEC"
       THEN /\ Suspended(t)
            /\ armed' = armed \cup {Running(t)}
            /\ GoTo(t, "armed")
            /\ UNCHANGED <<queueVars, countVars, stopVars, localVars, m_state,
                           m_cb, starts, finished, fault>>
       ELSE Abort("exec")

\* Fiber::YieldToHold(), up to the switch: the state is HOLD while the
\* context is not saved yet.
YieldToHold(t) ==
    /\ At(t, "armed")
    /\ m_state' = [m_state EXCEPT ![Running(t)] = "HOLD"]
    /\ GoTo(t, "swapout")
    /\ UNCHANGED <<queueVars, countVars, stopVars, localVars, m_cb, armed,
                   cbVars, fault>>

\* A thread that polls (its idle fiber) or a callback that cancels a wait
\* fires the timer or event: schedule(fiber).
Wake(t, f) ==
    /\ At(t, "poll") \/ InCallback(t)
    /\ f \in armed
    /\ armed' = armed \ {f}
    /\ ScheduleFiber(f)
    /\ UNCHANGED <<submitted, countVars, stopVars, pc, localVars, m_state,
                   m_cb, cbVars, fault>>

\* The callback returns, or throws; an empty m_cb throws bad_function_call.
MainFuncEnd(t) ==
    LET f == Running(t) IN
    /\ At(t, "user")
    /\ \/ /\ m_cb[f] # Null
          /\ m_cb' = [m_cb EXCEPT ![f] = Null]
          /\ m_state' = [m_state EXCEPT ![f] = "TERM"]
       \/ /\ m_state' = [m_state EXCEPT ![f] = "EXCEPT"]
          /\ UNCHANGED m_cb
    /\ finished' = finished \cup ({m_cb[f]} \ {Null})
    /\ GoTo(t, "swapout")
    /\ UNCHANGED <<queueVars, countVars, stopVars, localVars, armed, suspends,
                   starts, fault>>

\* swapcontext in swapOut() has saved the fiber and resumed run().
SwapOut(t) ==
    /\ At(t, "swapout")
    /\ GoTo(t, "post")
    /\ UNCHANGED <<queueVars, countVars, stopVars, localVars, fiberVars,
                   cbVars, fault>>

----------------------------------------------------------------------------
(* run(): after swapIn() has returned.                                     *)

\* --m_activeThreadCount, before the fiber is looked at.
Deactivate(t) ==
    /\ At(t, "post")
    /\ m_activeThreadCount' = CountDown
    /\ GoTo(t, "settle")
    /\ UNCHANGED <<queueVars, m_idleThreadCount, stopVars, localVars,
                   fiberVars, cbVars, fault>>

\* Forget the fiber: ft.reset(), or cb_fiber.reset() in the other branch.
Forget_KeepsCbFiber(t) ==                                       \* mutant
    ft' = [ft EXCEPT ![t] = NoEntry] /\ UNCHANGED cb_fiber
Forget(t) ==
    IF ft[t].fiber # Null
    THEN ft' = [ft EXCEPT ![t] = NoEntry] /\ UNCHANGED cb_fiber
    ELSE cb_fiber' = [cb_fiber EXCEPT ![t] = Null] /\ UNCHANGED ft

\* READY: schedule() again, for any thread.
SettleReady(t) ==
    /\ At(t, "settle")
    /\ m_state[Running(t)] = "READY"
    /\ ScheduleFiber(Running(t))
    /\ Forget(t)
    /\ GoTo(t, "scan")
    /\ UNCHANGED <<submitted, countVars, stopVars, idleTerm, fiberVars, cbVars,
                   fault>>

\* TERM or EXCEPT: a queued fiber is dropped, the callback fiber is kept for
\* reuse with reset(nullptr).
SettleEnded(t) ==
    LET f == Running(t) IN
    /\ At(t, "settle")
    /\ Dead(f)
    /\ \/ /\ ft[t].fiber # Null
          /\ Forget(t)
          /\ GoTo(t, "scan")
          /\ UNCHANGED <<queueVars, countVars, stopVars, idleTerm, fiberVars,
                         cbVars, fault>>
       \/ /\ ft[t].fiber = Null
          /\ ~StackBusy(f)
          /\ m_state' = [m_state EXCEPT ![f] = "INIT"]
          /\ m_cb' = [m_cb EXCEPT ![f] = Null]
          /\ GoTo(t, "scan")
          /\ UNCHANGED <<queueVars, countVars, stopVars, localVars, armed,
                         cbVars, fault>>
       \/ /\ ft[t].fiber = Null
          /\ StackBusy(f)
          /\ Abort("stack")

\* Any other state: it will be overwritten with HOLD, in a step of its own.
SettleOther(t) ==
    /\ At(t, "settle")
    /\ m_state[Running(t)] \notin {"READY", "TERM", "EXCEPT"}
    /\ GoTo(t, "hold")
    /\ UNCHANGED <<queueVars, countVars, stopVars, localVars, fiberVars,
                   cbVars, fault>>

SetHold(t) ==
    /\ At(t, "hold")
    /\ m_state' = [m_state EXCEPT ![Running(t)] = "HOLD"]
    /\ Forget(t)
    /\ GoTo(t, "scan")
    /\ UNCHANGED <<queueVars, countVars, stopVars, idleTerm, m_cb, armed,
                   cbVars, fault>>

----------------------------------------------------------------------------
(* idle() on the thread's idle fiber: one turn of its loop.               *)

\* Not stopping: poll if the scheduler does, and yield to run().
KeepIdle == IF Polls THEN "poll" ELSE "idleback"

\* The virtual stopping(): first the timers and the pending events ...
LookAtPending_Base == "check"                                   \* mutant
LookAtPending == IF armed = {} THEN "check" ELSE KeepIdle

IdleLook(t) ==
    /\ At(t, "idle")
    /\ GoTo(t, LookAtPending)
    /\ UNCHANGED <<queueVars, countVars, stopVars, localVars, fiberVars,
                   cbVars, fault>>

\* ... then the queue and the threads; the idle fiber ends when stopping().
IdleCheck(t) ==
    /\ At(t, "check")
    /\ idleTerm' = [idleTerm EXCEPT ![t] = Stopping]
    /\ GoTo(t, IF Stopping THEN "idleback" ELSE KeepIdle)
    /\ UNCHANGED <<queueVars, countVars, stopVars, ft, cb_fiber, fiberVars,
                   cbVars, fault>>

\* epoll_wait and listExpiredCb have been served, by Wake steps.
PollEnd(t) ==
    /\ At(t, "poll")
    /\ GoTo(t, "idleback")
    /\ UNCHANGED <<queueVars, countVars, stopVars, localVars, fiberVars,
                   cbVars, fault>>

IdleBack(t) ==
    /\ At(t, "idleback")
    /\ m_idleThreadCount' = m_idleThreadCount - 1
    /\ GoTo(t, "scan")
    /\ UNCHANGED <<queueVars, m_activeThreadCount, stopVars, localVars,
                   fiberVars, cbVars, fault>>

----------------------------------------------------------------------------
(* The specification.                                                      *)

RunStep(t) ==
    \/ ScanTake(t) \/ ScanNone(t)
    \/ DispatchDead(t) \/ DispatchFiber(t) \/ DispatchCb(t)
    \/ YieldToReady(t) \/ Arm(t) \/ YieldToHold(t) \/ MainFuncEnd(t)
    \/ SwapOut(t) \/ Deactivate(t)
    \/ SettleReady(t) \/ SettleEnded(t) \/ SettleOther(t) \/ SetHold(t)
    \/ IdleLook(t) \/ IdleCheck(t) \/ PollEnd(t) \/ IdleBack(t)

StopStep == \/ StopRequest \/ StopFlag \/ StopLook \/ StopCall \/ StopReturn
            \/ StopJoin

\* The process has aborted, or stop() has returned.
Halted == (fault # "none" \/ main = "stopped") /\ UNCHANGED vars

Next ==
    \/ \E c \in Cbs, thr \in Pins : MainSubmit(c, thr)
    \/ Start
    \/ StopStep
    \/ \E t \in Threads : RunStep(t)
    \/ \E t \in Threads, c \in Cbs, thr \in Pins : UserSubmit(t, c, thr)
    \/ \E t \in Threads, f \in Fibers : Wake(t, f)
    \/ Halted

Spec == Init /\ [][Next]_vars

(* Fairness.  The kernel runs every thread, and a callback ends after at   *)
(* most MaxSuspends yields, so a thread that can take a step takes one;    *)
(* whoever calls start() eventually calls stop(); and a wait that is armed *)
(* is eventually served by some thread that keeps polling.                 *)
Fairness ==
    /\ \A t \in Threads : WF_vars(RunStep(t))
    /\ WF_vars(Start \/ StopStep)
    /\ \A f \in Fibers : SF_vars(\E t \in Threads : Wake(t, f))

FairSpec == Spec /\ Fairness

----------------------------------------------------------------------------
(* Properties.                                                             *)

\* Every variable has its type; in particular neither counter is ever
\* decremented below zero, which for the size_t of the code would wrap.
TypeOK ==
    /\ m_fibers \in Seq(Entries)
    /\ m_activeThreadCount \in Nat
    /\ m_idleThreadCount \in Nat
    /\ m_stopping \in BOOLEAN
    /\ m_autoStop \in BOOLEAN
    /\ pc \in [Threads -> PCs]
    /\ ft \in [Threads -> Entries]
    /\ cb_fiber \in [Threads -> Fibers \cup {Null}]
    /\ idleTerm \in [Threads -> BOOLEAN]
    /\ m_state \in [Fibers -> States]
    /\ m_cb \in [Fibers -> Cbs \cup {Null}]
    /\ armed \subseteq Fibers
    /\ main \in MainPCs
    /\ suspends \in [Cbs -> Nat]
    /\ submitted \subseteq Cbs
    /\ starts \in [Cbs -> Nat]
    /\ finished \subseteq Cbs
    /\ fault \in Faults

BusyPCs == {"dispatch", "user", "armed", "swapout", "post"}
Busy == {t \in Threads : pc[t] \in BusyPCs}

IdlePCs == {"idle", "check", "poll", "idleback"}
Idle == {t \in Threads : pc[t] \in IdlePCs}

\* Whenever stopping() could answer true, no thread holds an entry it took
\* from the queue or is inside a fiber: m_activeThreadCount is never less
\* than the number of such threads, although run() increments it in one
\* place and decrements it in two.  m_idleThreadCount, which decides in
\* IOManager::tickle() whether anybody is woken, is exact.
CountersCover ==
    /\ m_activeThreadCount >= Cardinality(Busy)
    /\ m_idleThreadCount = Cardinality(Idle)

InQueue(c) == \E i \in DOMAIN m_fibers : m_fibers[i].cb = c
InHand(c) == \E t \in Threads : ft[t].cb = c

CbPlaced(c) ==
    /\ starts[c] <= 1
    /\ c \in submitted <=> InQueue(c) \/ InHand(c) \/ starts[c] = 1
    /\ InQueue(c) => ~InHand(c) /\ starts[c] = 0
    /\ InHand(c) => starts[c] = 0

QueueDistinct ==
    \A i, j \in DOMAIN m_fibers :
       m_fibers[i].cb = m_fibers[j].cb => i = j \/ m_fibers[i].cb = Null

HandDistinct ==
    \A t, u \in Threads : ft[t].cb = ft[u].cb => t = u \/ ft[t].cb = Null

\* No submitted callback is lost and none is entered twice: it is in one
\* queue entry, or in the hands of one thread, or has been entered once.
CbOnce == (\A c \in Cbs : CbPlaced(c)) /\ QueueDistinct /\ HandDistinct

\* stop() does not return while an entry that any thread may take is still
\* queued, although a worker can see stopping() hold and leave run() while
\* another is about to re-queue a READY fiber.  (Only without polling: see
\* DispatchDead, which leaves run() without a scan.)
StopDrains ==
    main = "stopped" =>
        \A i \in DOMAIN m_fibers : m_fibers[i].thread # AnyThread

\* No assertion of fiber.cc or iomanager.cc fails, and no two threads ever
\* run on one fiber's stack.
NoFault == fault = "none"

\* stop() returns, once called.
StopTerminates == main = "autostop" ~> main = "stopped"

\* The scheduler implements the pool of module TaskPool: seen from outside,
\* every callback goes from new over queued and running to done, one step at
\* a time, and nothing moves once stop() has returned ...
PoolState ==
    [c \in Cbs |-> IF starts[c] > 1 THEN "entered twice"
                   ELSE IF c \in finished THEN "done"
                   ELSE IF starts[c] = 1 THEN "running"
                   ELSE IF c \in submitted THEN "queued" ELSE "new"]
Pool == INSTANCE TaskPool WITH state <- PoolState, joined <- (main = "stopped")
ImplementsPool == Pool!Spec

\* ... and without polling every submitted callback ends, before stop() does.
ImplementsDrainingPool == Pool!DrainSpec

\* The safety of it: stop() does not return before every submitted callback
\* has ended.
DrainsPool == Pool!DrainSafety

\* stop() does not return while a timer or an event still has to resume a
\* fiber: IOManager::stopping() is to hold only when nothing is pending.
StopLeavesNothingArmed == main = "stopped" => armed = {}

\* A fiber that registers itself with addEvent() is in state EXEC, as the
\* assertion at the end of addEvent() demands.
AddEventAssertHolds == fault # "exec"

----------------------------------------------------------------------------
(* Inductive invariants, proved in SchedulerProofs.                        *)

EntryOK(e) == \/ e.fiber \in Fibers /\ e.cb = Null
              \/ e.fiber = Null /\ e.cb \in Cbs

FiberPCs == {"user", "armed", "swapout", "post", "settle", "hold"}

\* An entry is a fiber or a callback; a thread that is past its dispatch has
\* given the callback away and has a fiber.
QueueOK == \A i \in DOMAIN m_fibers : EntryOK(m_fibers[i])
LocalOK(t) ==
    /\ IF pc[t] = "dispatch" THEN EntryOK(ft[t]) ELSE ft[t].cb = Null
    /\ pc[t] \in FiberPCs => Running(t) # Null
HandOK == QueueOK /\ \A t \in Threads : LocalOK(t)

\* No thread is in run() before start(), the caller's not before stop().
PhaseOK ==
    /\ main = "init" => \A t \in Threads : pc[t] = "off"
    /\ main \in {"quiet", "called"} => UseCaller
    /\ UseCaller /\ main \in {"running", "autostop", "stopping", "quiet"}
          => pc[Caller] = "off"

\* For every scheduler: counters, and where each callback is.
IndInv == TypeOK /\ CountersCover /\ HandOK /\ PhaseOK /\ CbOnce

\* A thread that is in run().
Alive(t) == pc[t] \notin {"off", "done"}

\* Without polling, or with one thread, one place refers to each fiber.
FiberOwned ==
    /\ \A i, j \in DOMAIN m_fibers :
          m_fibers[i].fiber = m_fibers[j].fiber
             => i = j \/ m_fibers[i].fiber = Null
    /\ \A i \in DOMAIN m_fibers, t \in Threads :
          m_fibers[i].fiber \in {ft[t].fiber, cb_fiber[t]}
             => m_fibers[i].fiber = Null
    /\ \A t, u \in Threads :
          /\ ft[t].fiber = ft[u].fiber => t = u \/ ft[t].fiber = Null
          /\ cb_fiber[t] = cb_fiber[u] => t = u \/ cb_fiber[t] = Null
          /\ ft[t].fiber = cb_fiber[u] => ft[t].fiber = Null

\* And that place tells the fiber's state.
StateOK(t) ==
    /\ pc[t] \notin {"armed", "hold"}
    /\ pc[t] = "dispatch" /\ ft[t].fiber # Null => m_state[ft[t].fiber] = "READY"
    /\ pc[t] = "user" => m_state[Running(t)] = "EXEC"
    /\ pc[t] \in {"swapout", "post", "settle"}
          => m_state[Running(t)] \in {"READY", "TERM", "EXCEPT"}
    /\ pc[t] \notin FiberPCs \cup {"dispatch"} => ft[t].fiber = Null
    /\ /\ cb_fiber[t] # Null
       /\ ft[t].fiber # Null \/ pc[t] \notin FiberPCs
       => m_state[cb_fiber[t]] = "INIT"
QueuedReady ==
    \A i \in DOMAIN m_fibers :
       m_fibers[i].fiber # Null => m_state[m_fibers[i].fiber] = "READY"
FiberStates ==
    /\ QueuedReady
    /\ \A t \in Threads : StateOK(t)
    /\ armed = {}
    /\ fault = "none"

\* The phases of start() and stop(), and who will still scan the queue.
StopPhases ==
    /\ main \in {"init", "running"} => ~m_autoStop
    /\ ~m_autoStop => \A t \in Threads : ~idleTerm[t] /\ pc[t] # "done"
    /\ main = "init" \/ \A w \in Workers : pc[w] # "off"
    /\ (\E i \in DOMAIN m_fibers : m_fibers[i].thread = AnyThread)
          => \/ \E t \in Threads : Alive(t)
             \/ main = "init"
             \/ Workers = {} /\ main \in {"running", "autostop", "stopping",
                                         "quiet"}

NoHoldInv == IndInv /\ FiberOwned /\ FiberStates /\ StopPhases
=============================================================================
