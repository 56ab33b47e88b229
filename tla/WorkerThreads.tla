--------------------------- MODULE WorkerThreads ---------------------------
(***************************************************************************)
(* The threads under an IOManager and the pipe that tickles them:          *)
(* src/awcotn/thread.cc with the Semaphore of mutex.cc, start(), stop()    *)
(* and schedule() of the scheduler as far as they use threads, tickle()    *)
(* and the pipe's part of idle() in iomanager.cc.                          *)
(*                                                                         *)
(* start() keeps m_mutex while each Thread() waits for its thread to have  *)
(* taken its data over; the new threads want m_mutex next.  tickle() looks *)
(* at the idle count and then writes to a pipe that epoll watches          *)
(* edge-triggered; only idle threads read it.  What a worker does with     *)
(* fibers is in module Scheduler; here a task is a callback that may       *)
(* schedule others and returns.                                            *)
(***************************************************************************)
EXTENDS Integers, Sequences

CONSTANTS N,          \* m_threadCount
          MaxTasks,   \* bound: calls of schedule()
          Cap,        \* the bytes the pipe holds: 65536
          MayFail     \* may pthread_create() fail?

ASSUME WorkerThreadsAssumption ==
    N \in Nat \ {0} /\ MaxTasks \in Nat /\ Cap \in Nat \ {0} /\ MayFail \in BOOLEAN

Ids == 1..N          \* m_threads, and the kernel's ids of the threads

VARIABLES
    main,         \* where the main thread is, with the index of its loop
    th,           \* where each worker is, and what follows its tickle()
    m_id,         \* Thread::m_id
    m_thread,     \* Thread::m_thread is not 0
    m_semaphore,
    m_threadIds,
    m_fibers,     \* how many tasks are queued
    scheduled,    \* how many there were
    m_stopping,   \* and m_autoStop: set by stop()
    bytes, edge   \* the pipe, and whether epoll has news of it

threadVars == <<m_id, m_thread, m_semaphore, m_threadIds>>
queueVars == <<m_fibers, scheduled, m_stopping>>
pipeVars == <<bytes, edge>>
vars == <<main, th, threadVars, queueVars, pipeVars>>

Init ==
    /\ main = [at |-> "create", k |-> 1]
    /\ th = [k \in Ids |-> [at |-> "none", then |-> "loop"]]
    /\ m_id = [k \in Ids |-> -1]
    /\ m_thread = [k \in Ids |-> FALSE]
    /\ m_semaphore = [k \in Ids |-> 0]
    /\ m_threadIds = <<>>
    /\ m_fibers = 0 /\ scheduled = 0 /\ m_stopping = FALSE
    /\ bytes = 0 /\ edge = FALSE

At(k, label) == th[k].at = label
Go(k, label) == th' = [th EXCEPT ![k] = [@ EXCEPT !.at = label]]
MainGo(label, k) == main' = [at |-> label, k |-> k]

----------------------------------------------------------------------------
(* Thread().                                                               *)

\* m_mutex is with start() until it has made all threads, or throws.
StartHolds == main.at \in {"create", "wait"}

Create ==
    /\ main.at = "create" /\ main.k <= N
    /\ m_thread' = [m_thread EXCEPT ![main.k] = TRUE]
    /\ Go(main.k, "new")
    /\ MainGo("wait", main.k)
    /\ UNCHANGED <<m_id, m_semaphore, m_threadIds, queueVars, pipeVars>>

\* The constructor throws, so does start(), and so does that of IOManager:
\* ~Scheduler() asserts m_stopping, which start() has set to false.
CreateFails ==
    /\ MayFail /\ main.at = "create" /\ main.k <= N
    /\ MainGo("aborted", main.k)
    /\ UNCHANGED <<th, threadVars, queueVars, pipeVars>>

\* m_semaphore.wait(), the end of the constructor, and getId().
Wait_Interrupted ==                                             \* mutant
    /\ main.at = "wait"
    /\ m_threadIds' = Append(m_threadIds, m_id[main.k])
    /\ MainGo("create", main.k + 1)
    /\ UNCHANGED <<th, m_id, m_thread, m_semaphore, queueVars, pipeVars>>
Wait ==
    /\ main.at = "wait" /\ m_semaphore[main.k] > 0
    /\ m_semaphore' = [m_semaphore EXCEPT ![main.k] = @ - 1]
    /\ m_threadIds' = Append(m_threadIds, m_id[main.k])
    /\ MainGo("create", main.k + 1)
    /\ UNCHANGED <<th, m_id, m_thread, queueVars, pipeVars>>

Started ==
    /\ main.at = "create" /\ main.k > N
    /\ MainGo("running", 1)
    /\ UNCHANGED <<th, threadVars, queueVars, pipeVars>>

\* Thread::run(): its id and name, then the callback, then notify().
RunNamed(k) ==
    /\ At(k, "new")
    /\ m_id' = [m_id EXCEPT ![k] = k]
    /\ Go(k, "named")
    /\ UNCHANGED <<main, m_thread, m_semaphore, m_threadIds, queueVars, pipeVars>>

RunNotify_AfterCb(k) ==                                         \* mutant
    /\ At(k, "named")
    /\ Go(k, "loop")
    /\ UNCHANGED <<main, threadVars, queueVars, pipeVars>>
RunNotify(k) ==
    /\ At(k, "named")
    /\ m_semaphore' = [m_semaphore EXCEPT ![k] = @ + 1]
    /\ Go(k, "loop")
    /\ UNCHANGED <<main, m_id, m_thread, m_threadIds, queueVars, pipeVars>>

----------------------------------------------------------------------------
(* tickle(), for a worker and for the main thread.                         *)

IdleThreads == {k \in Ids : th[k].at \in {"idle", "drain"}}
WritePipe == bytes < Cap /\ bytes' = bytes + 1 /\ edge' = TRUE

TickleTest(k) ==
    /\ At(k, "tickle")
    /\ Go(k, IF IdleThreads # {} THEN th[k].then ELSE "write")
    /\ UNCHANGED <<main, threadVars, queueVars, pipeVars>>
TickleWrite(k) ==
    /\ At(k, "write") /\ WritePipe
    /\ Go(k, th[k].then)
    /\ UNCHANGED <<main, threadVars, queueVars>>

\* stop() tickles once for each thread; schedule() once.
Tickled(m) == CASE m.at \in {"tickle", "write"} -> [at |-> "running", k |-> 1]
                [] m.at \in {"stop", "stopwrite"} -> [at |-> "stop", k |-> m.k + 1]
MainTickleTest ==
    /\ main.at = "tickle" \/ (main.at = "stop" /\ main.k <= N)
    /\ main' = IF IdleThreads # {} THEN Tickled(main)
               ELSE [at |-> IF main.at = "stop" THEN "stopwrite" ELSE "write", k |-> main.k]
    /\ UNCHANGED <<th, threadVars, queueVars, pipeVars>>
MainTickleWrite ==
    /\ main.at \in {"write", "stopwrite"} /\ WritePipe
    /\ main' = Tickled(main)
    /\ UNCHANGED <<th, threadVars, queueVars>>

----------------------------------------------------------------------------
(* run(): take a task, tickle when more are left, and run it.              *)

Push == /\ scheduled < MaxTasks
        /\ m_fibers' = m_fibers + 1 /\ scheduled' = scheduled + 1
        /\ UNCHANGED m_stopping

Take(k) ==
    /\ At(k, "loop") /\ ~StartHolds
    /\ m_fibers > 0
    /\ m_fibers' = m_fibers - 1
    /\ th' = [th EXCEPT ![k] = [at |-> IF m_fibers > 1 THEN "tickle" ELSE "task",
                                then |-> "task"]]
    /\ UNCHANGED <<main, threadVars, scheduled, m_stopping, pipeVars>>

\* The task calls schedule(), which tickles when the queue was empty.
TaskSchedule(k) ==
    /\ At(k, "task") /\ Push
    /\ Go(k, IF m_fibers = 0 THEN "tickle" ELSE "task")
    /\ UNCHANGED <<main, threadVars, pipeVars>>

TaskEnd(k) ==
    /\ At(k, "task")
    /\ Go(k, "loop")
    /\ UNCHANGED <<main, threadVars, queueVars, pipeVars>>

GoIdle(k) ==
    /\ At(k, "loop") /\ ~StartHolds
    /\ m_fibers = 0
    /\ Go(k, "idle")
    /\ UNCHANGED <<main, threadVars, queueVars, pipeVars>>

----------------------------------------------------------------------------
(* idle(): ends when stopping, else polls; the pipe is read until empty.   *)

Active == {k \in Ids : th[k].at \in {"tickle", "write", "task"}}
Stopping_CountsIdle ==                                          \* mutant
    m_stopping /\ m_fibers = 0 /\ Active \cup IdleThreads = {}
Stopping == m_stopping /\ m_fibers = 0 /\ Active = {}

IdleExit(k) ==
    /\ At(k, "idle") /\ Stopping
    /\ Go(k, "gone")
    /\ UNCHANGED <<main, threadVars, queueVars, pipeVars>>

\* epoll_wait() with the event of the pipe, which it reports once, or with
\* none of it.
EpollWait(k) ==
    /\ At(k, "idle") /\ ~Stopping
    /\ Go(k, IF edge THEN "drain" ELSE "loop")
    /\ edge' = FALSE
    /\ UNCHANGED <<main, threadVars, queueVars, bytes>>

Drain_Once(k) ==                                                \* mutant
    /\ At(k, "drain")
    /\ bytes' = IF bytes > 0 THEN bytes - 1 ELSE 0
    /\ Go(k, "loop")
    /\ UNCHANGED <<main, threadVars, queueVars, edge>>
Drain(k) ==
    /\ At(k, "drain")
    /\ \/ bytes > 0 /\ bytes' = bytes - 1 /\ UNCHANGED th
       \/ bytes = 0 /\ Go(k, "loop") /\ UNCHANGED bytes
    /\ UNCHANGED <<main, threadVars, queueVars, edge>>

----------------------------------------------------------------------------
(* The main thread after start().                                          *)

Schedule ==
    /\ main.at = "running" /\ Push
    /\ MainGo(IF m_fibers = 0 THEN "tickle" ELSE "running", 1)
    /\ UNCHANGED <<th, threadVars, pipeVars>>

Stop ==
    /\ main.at = "running"
    /\ m_stopping' = TRUE
    /\ MainGo("stop", 1)
    /\ UNCHANGED <<th, threadVars, m_fibers, scheduled, pipeVars>>

StopJoin ==
    /\ main.at = "stop" /\ main.k > N
    /\ MainGo("join", 1)
    /\ UNCHANGED <<th, threadVars, queueVars, pipeVars>>

Join ==
    /\ main.at = "join" /\ main.k <= N
    /\ At(main.k, "gone")
    /\ m_thread' = [m_thread EXCEPT ![main.k] = FALSE]
    /\ MainGo("join", main.k + 1)
    /\ UNCHANGED <<th, m_id, m_semaphore, m_threadIds, queueVars, pipeVars>>

Joined ==
    /\ main.at = "join" /\ main.k > N
    /\ MainGo("stopped", 1)
    /\ UNCHANGED <<th, threadVars, queueVars, pipeVars>>

----------------------------------------------------------------------------
MainStep == Create \/ Wait \/ Started \/ MainTickleTest \/ MainTickleWrite
            \/ StopJoin \/ Join \/ Joined
WorkerStep(k) ==
    \/ RunNamed(k) \/ RunNotify(k) \/ TickleTest(k) \/ TickleWrite(k)
    \/ Take(k) \/ TaskEnd(k) \/ GoIdle(k) \/ IdleExit(k) \/ EpollWait(k) \/ Drain(k)

Aborted == main.at = "aborted"

Next ==
    /\ ~Aborted
    /\ \/ MainStep \/ CreateFails \/ Schedule \/ Stop
       \/ \E k \in Ids : WorkerStep(k) \/ TaskSchedule(k)

Spec == Init /\ [][Next]_vars

\* Threads that can go on do: the kernel schedules them all.  Nothing is
\* assumed of the calls of schedule() and stop().
FairSpec == /\ Spec /\ WF_vars(~Aborted /\ MainStep)
            /\ \A k \in Ids : WF_vars(~Aborted /\ WorkerStep(k))

----------------------------------------------------------------------------
(* Properties.                                                             *)

MainLabels == {"create", "wait", "running", "tickle", "write", "stop", "stopwrite",
               "join", "stopped", "aborted"}
Labels == {"none", "new", "named", "loop", "tickle", "write", "task", "idle", "drain", "gone"}

\* The variables have their types.
TypeOK ==
    /\ main \in [at: MainLabels, k: 1..(N + 1)]
    /\ th \in [Ids -> [at: Labels, then: {"loop", "task"}]]
    /\ m_id \in [Ids -> Ids \cup {-1}]
    /\ m_thread \in [Ids -> BOOLEAN]
    /\ m_semaphore \in [Ids -> Nat]
    /\ m_threadIds \in Seq(Ids \cup {-1})
    /\ m_fibers \in Nat /\ scheduled \in 0..MaxTasks /\ m_stopping \in BOOLEAN
    /\ bytes \in 0..Cap /\ edge \in BOOLEAN

\* start() records the id of each thread it made, never the -1 that a thread
\* has before it runs: tasks pinned to an id of m_threadIds can be taken.
IdsRecorded == \A k \in DOMAIN m_threadIds : m_threadIds[k] = k

\* No byte lies in the pipe unnoticed: epoll has yet to report it, or a
\* thread that got the report is still reading.
PipeNoticed == bytes > 0 => edge \/ \E k \in Ids : At(k, "drain")

\* start() returns or throws, although it waits under m_mutex for threads
\* that want m_mutex.
StartReturns == StartHolds ~> ~StartHolds

\* stop() comes back from its tickles and has joined every thread.
StopReturns ==
    m_stopping ~> main.at = "stopped" /\ \A k \in Ids : ~m_thread[k] /\ At(k, "gone")
=============================================================================
