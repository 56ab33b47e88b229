------------------------ MODULE WorkerThreadsProofs ------------------------
(***************************************************************************)
(* Proofs about WorkerThreads, for any number of threads and tasks and a   *)
(* pipe of any size.                                                       *)
(***************************************************************************)
EXTENDS WorkerThreads, TLAPS

USE WorkerThreadsAssumption DEF Ids

ThTypes == [at: Labels, then: {"loop", "task"}]

\* While start() runs, the ids recorded are those of the threads before the one
\* being made, and the threads after it do not exist.
StartInTurn ==
    StartHolds =>
       /\ Len(m_threadIds) = main.k - 1
       /\ main.at = "wait" => main.k \in Ids
       /\ \A k \in Ids : k > main.k \/ (k = main.k /\ main.at = "create") => At(k, "none")

\* stop() tickles once per thread, so it writes for a thread there is.
StopInTurn == main.at = "stopwrite" => main.k \in Ids

\* Thread::run() writes its id before it posts the semaphore.
PostedWithId == \A k \in Ids : At(k, "named") \/ m_semaphore[k] > 0 => m_id[k] = k

\* Inductive; IdsRecorded and PipeNoticed rest on the other parts.
IndInv == TypeOK /\ IdsRecorded /\ StartInTurn /\ StopInTurn /\ PostedWithId /\ PipeNoticed

\* The invariant holds before start().
LEMMA InitInd == Init => IndInv
<1> SUFFICES ASSUME Init PROVE IndInv
  OBVIOUS
<1>1. TypeOK
  <2>1. main \in [at: MainLabels, k: 1..(N + 1)]
    BY DEF Init, MainLabels
  <2>2. th \in [Ids -> ThTypes]
    BY DEF Init, ThTypes, Labels
  <2>3. m_id \in [Ids -> Ids \cup {-1}] /\ m_thread \in [Ids -> BOOLEAN] /\ m_semaphore \in [Ids -> Nat]
    BY DEF Init
  <2>4. m_threadIds \in Seq(Ids \cup {-1})
    BY DEF Init
  <2>5. m_fibers \in Nat /\ scheduled \in 0..MaxTasks /\ bytes \in 0..Cap
    BY DEF Init
  <2>6. m_stopping \in BOOLEAN /\ edge \in BOOLEAN
    BY DEF Init
  <2> QED
    BY <2>1, <2>2, <2>3, <2>4, <2>5, <2>6 DEF TypeOK, ThTypes
<1>2. IdsRecorded /\ PipeNoticed
  BY DEF Init, IdsRecorded, PipeNoticed
<1>3. StartInTurn /\ StopInTurn /\ PostedWithId
  BY DEF Init, StartInTurn, StopInTurn, StartHolds, PostedWithId, At
<1> QED
  BY <1>1, <1>2, <1>3 DEF IndInv

\* A thread goes to another label.
LEMMA Goes ==
  ASSUME th \in [Ids -> ThTypes], NEW k \in Ids, NEW label \in Labels, Go(k, label)
  PROVE  /\ th' \in [Ids -> ThTypes]
         /\ \A j \in Ids : th'[j].at = IF j = k THEN label ELSE th[j].at
BY DEF Go, ThTypes

\* What keeps the ids: the semaphores and ids as they are, and no new thread
\* between writing its id and posting.
LEMMA IdsKept ==
  ASSUME PostedWithId, UNCHANGED <<m_id, m_semaphore>>,
         \A k \in Ids : At(k, "named")' => At(k, "named")
  PROVE  PostedWithId'
BY DEF PostedWithId, At

\* After start() nothing is recorded any more.
LEMMA StartOver ==
  ASSUME ~StartHolds', IdsRecorded, UNCHANGED m_threadIds
  PROVE  StartInTurn' /\ IdsRecorded'
BY DEF StartInTurn, IdsRecorded

\* The first half of Thread().
LEMMA CreateStep ==
  ASSUME IndInv, Create
  PROVE  IndInv'
<1>1. main.k \in Ids /\ At(main.k, "none") /\ Len(m_threadIds) = main.k - 1
  BY DEF Create, IndInv, TypeOK, StartInTurn, StartHolds
<1>2. /\ main' = [at |-> "wait", k |-> main.k]
      /\ th' \in [Ids -> ThTypes]
      /\ \A k \in Ids : th'[k].at = IF k = main.k THEN "new" ELSE th[k].at
  BY <1>1, Goes DEF Create, MainGo, IndInv, TypeOK, ThTypes, Labels
<1>3. TypeOK'
  <2>1. main' \in [at: MainLabels, k: 1..(N + 1)] /\ m_thread' \in [Ids -> BOOLEAN]
    BY <1>1, <1>2 DEF Create, IndInv, TypeOK, MainLabels
  <2> QED
    BY <1>2, <2>1 DEF Create, IndInv, TypeOK, ThTypes, queueVars, pipeVars
<1>4. IdsRecorded' /\ PostedWithId'
  BY <1>1, <1>2 DEF Create, IndInv, TypeOK, IdsRecorded, PostedWithId, At
<1>5. StartInTurn'
  <2>1. main'.at = "wait" /\ main'.k = main.k /\ m_threadIds' = m_threadIds
    BY <1>2 DEF Create
  <2>2. ASSUME NEW k \in Ids, k > main.k PROVE th'[k].at = "none"
    BY <1>1, <1>2, <2>2 DEF Create, IndInv, StartInTurn, StartHolds, At
  <2> QED
    BY <1>1, <2>1, <2>2 DEF StartInTurn, At
<1>6. PipeNoticed'
  BY <1>1, <1>2 DEF Create, IndInv, TypeOK, PipeNoticed, At, pipeVars
<1>7. StopInTurn'
  BY <1>2 DEF StopInTurn
<1> QED
  BY <1>3, <1>4, <1>5, <1>6, <1>7 DEF IndInv

\* The second half: the thread has posted, so its id is there to be read.
LEMMA WaitStep ==
  ASSUME IndInv, Wait
  PROVE  IndInv'
<1>1. main.k \in Ids /\ Len(m_threadIds) = main.k - 1 /\ m_id[main.k] = main.k
  BY DEF Wait, IndInv, TypeOK, StartInTurn, StartHolds, PostedWithId
<1>2. /\ main' = [at |-> "create", k |-> main.k + 1]
      /\ m_threadIds' = Append(m_threadIds, main.k)
  BY <1>1 DEF Wait, MainGo
<1>3. TypeOK'
  <2>1. m_threadIds' \in Seq(Ids \cup {-1})
    BY <1>1, <1>2 DEF IndInv, TypeOK
  <2>2. m_semaphore' \in [Ids -> Nat]
    BY <1>1 DEF Wait, IndInv, TypeOK
  <2> QED
    BY <1>1, <1>2, <2>1, <2>2 DEF Wait, IndInv, TypeOK, Labels, MainLabels, queueVars, pipeVars
<1>4. IdsRecorded'
  BY <1>1, <1>2 DEF IndInv, TypeOK, IdsRecorded
<1>5. PostedWithId'
  BY <1>1 DEF Wait, IndInv, TypeOK, PostedWithId, At
<1>6. StartInTurn'
  BY <1>1, <1>2 DEF Wait, IndInv, TypeOK, StartInTurn, StartHolds, At
<1>7. PipeNoticed'
  BY DEF Wait, IndInv, PipeNoticed, At, pipeVars
<1>8. StopInTurn'
  BY <1>2 DEF StopInTurn
<1> QED
  BY <1>3, <1>4, <1>5, <1>6, <1>7, <1>8 DEF IndInv

\* start() ends, by a throw or with every thread made, and stop() begins.
LEMMA MainGoes ==
  ASSUME IndInv, CreateFails \/ Started \/ Stop \/ StopJoin \/ Joined
  PROVE  IndInv'
<1>1. ~StartHolds' /\ UNCHANGED <<th, threadVars, pipeVars>>
  BY DEF CreateFails, Started, Stop, StopJoin, Joined, MainGo, StartHolds
<1>2. main' \in [at: MainLabels, k: 1..(N + 1)]
  <2>1. main.k \in 1..(N + 1) /\ 1 \in 1..(N + 1)
    BY DEF IndInv, TypeOK
  <2> QED
    BY <2>1 DEF CreateFails, Started, Stop, StopJoin, Joined, MainGo, MainLabels
<1>4. TypeOK'
  BY <1>1, <1>2 DEF CreateFails, Started, Stop, StopJoin, Joined, IndInv, TypeOK,
              threadVars, queueVars, pipeVars
<1>3. PostedWithId' /\ PipeNoticed'
  BY <1>1 DEF IndInv, PostedWithId, PipeNoticed, At, threadVars, pipeVars
<1>5. StopInTurn'
  BY DEF CreateFails, Started, Stop, StopJoin, Joined, MainGo, StopInTurn
<1> QED
  BY <1>1, <1>3, <1>4, <1>5, StartOver DEF IndInv, threadVars

\* pthread_join().
LEMMA JoinStep ==
  ASSUME IndInv, Join
  PROVE  IndInv'
<1>1. ~StartHolds' /\ UNCHANGED <<th, pipeVars, m_id, m_semaphore, m_threadIds>>
  BY DEF Join, MainGo, StartHolds
<1>2. TypeOK'
  BY <1>1 DEF Join, MainGo, IndInv, TypeOK, MainLabels, Labels, queueVars, pipeVars
<1>4. StopInTurn'
  BY DEF Join, MainGo, StopInTurn
<1>3. PostedWithId' /\ PipeNoticed'
  BY <1>1 DEF IndInv, PostedWithId, PipeNoticed, At, pipeVars
<1> QED
  BY <1>1, <1>2, <1>3, <1>4, StartOver DEF IndInv

\* The main thread schedules and tickles.
LEMMA MainTickles ==
  ASSUME IndInv, Schedule \/ MainTickleTest \/ MainTickleWrite
  PROVE  IndInv'
<1>1. ~StartHolds' /\ UNCHANGED <<th, threadVars>>
  BY DEF Schedule, MainTickleTest, MainTickleWrite, Tickled, MainGo, StartHolds
<1>2. TypeOK'
  <2>1. main' \in [at: MainLabels, k: 1..(N + 1)]
    <3>1. main \in [at: MainLabels, k: 1..(N + 1)] /\ 1 \in 1..(N + 1)
      BY DEF IndInv, TypeOK
    <3>2. CASE Schedule
      BY <3>1, <3>2 DEF Schedule, MainGo, MainLabels
    <3>3. CASE MainTickleTest
      BY <3>1, <3>3 DEF MainTickleTest, Tickled, MainLabels
    <3>4. CASE MainTickleWrite
      <4>1. main.at = "stopwrite" => main.k <= N
        BY <3>4 DEF IndInv, StopInTurn
      <4> QED
        BY <3>1, <3>4, <4>1 DEF MainTickleWrite, Tickled, MainLabels
    <3> QED
      BY <3>2, <3>3, <3>4
  <2>2. m_fibers' \in Nat /\ scheduled' \in 0..MaxTasks /\ m_stopping' \in BOOLEAN
    BY DEF Schedule, Push, MainTickleTest, MainTickleWrite, IndInv, TypeOK, queueVars
  <2>3. bytes' \in 0..Cap /\ edge' \in BOOLEAN
    <3>1. bytes \in 0..Cap /\ edge \in BOOLEAN
      BY DEF IndInv, TypeOK
    <3>2. CASE MainTickleWrite
      BY <3>1, <3>2 DEF MainTickleWrite, WritePipe
    <3>3. CASE Schedule \/ MainTickleTest
      BY <3>1, <3>3 DEF Schedule, MainTickleTest, pipeVars
    <3> QED
      BY <3>2, <3>3
  <2> QED
    BY <1>1, <2>1, <2>2, <2>3 DEF IndInv, TypeOK, threadVars
<1>3. PostedWithId'
  BY <1>1 DEF IndInv, PostedWithId, At, threadVars
<1>4. PipeNoticed'
  BY <1>1 DEF Schedule, MainTickleTest, MainTickleWrite, WritePipe, IndInv, PipeNoticed, At, pipeVars
<1>5. StopInTurn'
  BY DEF Schedule, MainTickleTest, MainTickleWrite, Tickled, MainGo, StopInTurn, IndInv, TypeOK
<1> QED
  BY <1>1, <1>2, <1>3, <1>4, <1>5, StartOver DEF IndInv, threadVars

\* What a step of a worker leaves alone, and where it goes.
LEMMA WorkerGoes ==
  ASSUME IndInv, NEW k \in Ids, At(k, "none") => FALSE, UNCHANGED <<main, m_threadIds>>,
         th' \in [Ids -> ThTypes], \A j \in Ids \ {k} : th'[j].at = th[j].at
  PROVE  IdsRecorded' /\ StartInTurn' /\ StopInTurn'
BY DEF IndInv, IdsRecorded, StartInTurn, StopInTurn, StartHolds, At

\* Thread::run(): the id is written, then the semaphore is posted.
LEMMA RunSteps ==
  ASSUME IndInv, NEW k \in Ids, RunNamed(k) \/ RunNotify(k)
  PROVE  IndInv'
<1>1. th \in [Ids -> ThTypes]
  BY DEF IndInv, TypeOK, ThTypes
<1>2. CASE RunNamed(k)
  <2>1. /\ th' \in [Ids -> ThTypes]
        /\ \A j \in Ids : th'[j].at = IF j = k THEN "named" ELSE th[j].at
    BY <1>1, <1>2, Goes DEF RunNamed, Labels
  <2>2. TypeOK'
    BY <1>2, <2>1 DEF RunNamed, IndInv, TypeOK, ThTypes, queueVars, pipeVars
  <2>3. PostedWithId'
    BY <1>2, <2>1 DEF RunNamed, IndInv, TypeOK, PostedWithId, At
  <2>4. PipeNoticed'
    BY <1>2, <2>1 DEF RunNamed, IndInv, PipeNoticed, At, pipeVars
  <2>5. IdsRecorded' /\ StartInTurn' /\ StopInTurn'
    BY <1>2, <2>1, WorkerGoes DEF RunNamed, At
  <2> QED
    BY <2>2, <2>3, <2>4, <2>5 DEF IndInv
<1>3. CASE RunNotify(k)
  <2>1. /\ th' \in [Ids -> ThTypes]
        /\ \A j \in Ids : th'[j].at = IF j = k THEN "loop" ELSE th[j].at
    BY <1>1, <1>3, Goes DEF RunNotify, Labels
  <2>2. TypeOK'
    BY <1>3, <2>1 DEF RunNotify, IndInv, TypeOK, ThTypes, queueVars, pipeVars
  <2>3. PostedWithId'
    BY <1>3, <2>1 DEF RunNotify, IndInv, TypeOK, PostedWithId, At
  <2>4. PipeNoticed'
    BY <1>3, <2>1 DEF RunNotify, IndInv, PipeNoticed, At, pipeVars
  <2>5. IdsRecorded' /\ StartInTurn' /\ StopInTurn'
    BY <1>3, <2>1, WorkerGoes DEF RunNotify, At
  <2> QED
    BY <2>2, <2>3, <2>4, <2>5 DEF IndInv
<1> QED
  BY <1>2, <1>3

\* A step of run(), tickle() or idle(): ids and semaphores stay, and what is
\* left to show is the types and the pipe.
LEMMA LoopStep ==
  ASSUME IndInv, NEW k \in Ids, th[k].at \notin {"none", "new", "named"}, NEW label \in Labels,
         label # "named", UNCHANGED <<main, threadVars>>,
         th' \in [Ids -> ThTypes],
         \A j \in Ids : th'[j].at = IF j = k THEN label ELSE th[j].at,
         m_fibers' \in Nat, scheduled' \in 0..MaxTasks, m_stopping' \in BOOLEAN,
         bytes' \in 0..Cap, edge' \in BOOLEAN, PipeNoticed'
  PROVE  IndInv'
<1>1. TypeOK'
  BY DEF IndInv, TypeOK, ThTypes, threadVars
<1>2. PostedWithId'
  BY DEF IndInv, PostedWithId, At, threadVars
<1>3. IdsRecorded' /\ StartInTurn' /\ StopInTurn'
  BY WorkerGoes DEF At, threadVars
<1> QED
  BY <1>1, <1>2, <1>3 DEF IndInv

\* run(): a task is taken, schedules others, and ends.
LEMMA TaskSteps ==
  ASSUME IndInv, NEW k \in Ids, Take(k) \/ TaskSchedule(k) \/ TaskEnd(k) \/ GoIdle(k)
  PROVE  IndInv'
<1>1. th \in [Ids -> ThTypes] /\ m_fibers \in Nat /\ scheduled \in 0..MaxTasks
  BY DEF IndInv, TypeOK, ThTypes
<1>2. m_stopping \in BOOLEAN /\ bytes \in 0..Cap /\ edge \in BOOLEAN
  BY DEF IndInv, TypeOK
<1>3. ASSUME UNCHANGED pipeVars, \A j \in Ids : th[j].at = "drain" => th'[j].at = "drain"
      PROVE  PipeNoticed'
  BY <1>3 DEF IndInv, PipeNoticed, At, pipeVars
<1>4. CASE Take(k)
  <2>1. PICK label \in {"tickle", "task"} :
          th' = [th EXCEPT ![k] = [at |-> label, then |-> "task"]]
    BY <1>4 DEF Take
  <2>2. /\ th' \in [Ids -> ThTypes]
        /\ \A j \in Ids : th'[j].at = IF j = k THEN label ELSE th[j].at
    BY <1>1, <2>1 DEF ThTypes, Labels
  <2>3. PipeNoticed'
    BY <1>3, <1>4, <2>2 DEF Take, At
  <2>4. m_fibers' \in Nat
    BY <1>1, <1>4 DEF Take
  <2> QED
    BY <1>1, <1>2, <1>4, <2>2, <2>3, <2>4, LoopStep DEF Take, At, pipeVars, Labels
<1>5. CASE TaskSchedule(k)
  <2>1. PICK label \in {"tickle", "task"} : Go(k, label)
    BY <1>5 DEF TaskSchedule
  <2>2. /\ th' \in [Ids -> ThTypes]
        /\ \A j \in Ids : th'[j].at = IF j = k THEN label ELSE th[j].at
    BY <1>1, <2>1, Goes DEF Labels
  <2>3. PipeNoticed'
    BY <1>3, <1>5, <2>2 DEF TaskSchedule, At
  <2>4. m_fibers' \in Nat /\ scheduled' \in 0..MaxTasks /\ m_stopping' = m_stopping
    BY <1>1, <1>5 DEF TaskSchedule, Push
  <2> QED
    BY <1>2, <1>5, <2>2, <2>3, <2>4, LoopStep DEF TaskSchedule, At, pipeVars, Labels
<1>6. CASE TaskEnd(k)
  <2>1. /\ th' \in [Ids -> ThTypes]
        /\ \A j \in Ids : th'[j].at = IF j = k THEN "loop" ELSE th[j].at
    BY <1>1, <1>6, Goes DEF TaskEnd, Labels
  <2>2. PipeNoticed'
    BY <1>3, <1>6, <2>1 DEF TaskEnd, At
  <2> QED
    BY <1>1, <1>2, <1>6, <2>1, <2>2, LoopStep DEF TaskEnd, At, queueVars, pipeVars, Labels
<1>7. CASE GoIdle(k)
  <2>1. /\ th' \in [Ids -> ThTypes]
        /\ \A j \in Ids : th'[j].at = IF j = k THEN "idle" ELSE th[j].at
    BY <1>1, <1>7, Goes DEF GoIdle, Labels
  <2>2. PipeNoticed'
    BY <1>3, <1>7, <2>1 DEF GoIdle, At
  <2> QED
    BY <1>1, <1>2, <1>7, <2>1, <2>2, LoopStep DEF GoIdle, At, queueVars, pipeVars, Labels
<1> QED
  BY <1>4, <1>5, <1>6, <1>7

\* tickle(): a look at the idle count, and a byte that epoll has news of.
LEMMA TickleSteps ==
  ASSUME IndInv, NEW k \in Ids, TickleTest(k) \/ TickleWrite(k)
  PROVE  IndInv'
<1>1. th \in [Ids -> ThTypes] /\ m_fibers \in Nat /\ scheduled \in 0..MaxTasks
  BY DEF IndInv, TypeOK, ThTypes
<1>2. m_stopping \in BOOLEAN /\ bytes \in 0..Cap /\ edge \in BOOLEAN
  BY DEF IndInv, TypeOK
<1>3. th[k].then \in {"loop", "task"}
  BY <1>1 DEF ThTypes
<1>4. CASE TickleTest(k)
  <2>1. PICK label \in {"loop", "task", "write"} : Go(k, label)
    BY <1>3, <1>4 DEF TickleTest
  <2>2. /\ th' \in [Ids -> ThTypes]
        /\ \A j \in Ids : th'[j].at = IF j = k THEN label ELSE th[j].at
    BY <1>1, <2>1, Goes DEF Labels
  <2>3. PipeNoticed'
    BY <1>4, <2>2 DEF IndInv, TickleTest, At, PipeNoticed, pipeVars
  <2> QED
    BY <1>1, <1>2, <1>4, <2>2, <2>3, LoopStep DEF TickleTest, At, queueVars, pipeVars, Labels
<1>5. CASE TickleWrite(k)
  <2>1. /\ th' \in [Ids -> ThTypes]
        /\ \A j \in Ids : th'[j].at = IF j = k THEN th[k].then ELSE th[j].at
    BY <1>1, <1>3, <1>5, Goes DEF TickleWrite, Labels
  <2>2. edge' = TRUE
    BY <1>5 DEF TickleWrite, WritePipe
  <2>3. bytes' \in 0..Cap
    BY <1>2, <1>5 DEF TickleWrite, WritePipe
  <2>4. PipeNoticed'
    BY <2>2 DEF PipeNoticed
  <2> QED
    BY <1>1, <1>2, <1>3, <1>5, <2>1, <2>2, <2>3, <2>4, LoopStep DEF TickleWrite, At, queueVars, Labels
<1> QED
  BY <1>4, <1>5

\* idle(): the report of the pipe is handed to the thread that drains it, and
\* that thread leaves an empty pipe.
LEMMA IdleSteps ==
  ASSUME IndInv, NEW k \in Ids, IdleExit(k) \/ EpollWait(k) \/ Drain(k)
  PROVE  IndInv'
<1>1. th \in [Ids -> ThTypes] /\ m_fibers \in Nat /\ scheduled \in 0..MaxTasks
  BY DEF IndInv, TypeOK, ThTypes
<1>2. m_stopping \in BOOLEAN /\ bytes \in 0..Cap /\ edge \in BOOLEAN
  BY DEF IndInv, TypeOK
<1>3. CASE IdleExit(k)
  <2>1. /\ th' \in [Ids -> ThTypes]
        /\ \A j \in Ids : th'[j].at = IF j = k THEN "gone" ELSE th[j].at
    BY <1>1, <1>3, Goes DEF IdleExit, Labels
  <2>2. PipeNoticed'
    BY <1>3, <2>1 DEF IndInv, IdleExit, At, PipeNoticed, pipeVars
  <2> QED
    BY <1>1, <1>2, <1>3, <2>1, <2>2, LoopStep DEF IdleExit, At, queueVars, pipeVars, Labels
<1>4. CASE EpollWait(k)
  <2>1. PICK label \in {"drain", "loop"} : Go(k, label) /\ (edge => label = "drain")
    BY <1>2, <1>4 DEF EpollWait
  <2>2. /\ th' \in [Ids -> ThTypes]
        /\ \A j \in Ids : th'[j].at = IF j = k THEN label ELSE th[j].at
    BY <1>1, <2>1, Goes DEF Labels
  <2>3. PipeNoticed'
    BY <1>4, <2>1, <2>2 DEF IndInv, EpollWait, At, PipeNoticed
  <2>4. /\ th[k].at = "idle" /\ edge' = FALSE /\ bytes' = bytes
        /\ UNCHANGED <<main, threadVars, queueVars>>
    BY <1>4 DEF EpollWait, At
  <2>5. edge' \in BOOLEAN /\ bytes' \in 0..Cap
    BY <1>2, <2>4
  <2> QED
    BY <1>1, <1>2, <2>1, <2>2, <2>3, <2>4, <2>5, LoopStep DEF queueVars, Labels
<1>5. CASE Drain(k) /\ bytes > 0
  <2>1. /\ bytes' = bytes - 1 /\ th' = th /\ th[k].at = "drain"
        /\ UNCHANGED <<main, threadVars, queueVars, edge>>
    BY <1>5 DEF Drain, At
  <2>2. bytes' \in 0..Cap
    BY <1>2, <1>5, <2>1
  <2>3. PipeNoticed'
    BY <2>1 DEF PipeNoticed, At
  <2> QED
    BY <1>1, <1>2, <2>1, <2>2, <2>3, LoopStep DEF queueVars, Labels
<1>6. CASE Drain(k) /\ ~(bytes > 0)
  <2>1. Go(k, "loop") /\ bytes' = 0 /\ th[k].at = "drain"
    BY <1>6 DEF Drain, At
  <2>2. /\ th' \in [Ids -> ThTypes]
        /\ \A j \in Ids : th'[j].at = IF j = k THEN "loop" ELSE th[j].at
    BY <1>1, <2>1, Goes DEF Labels
  <2>3. PipeNoticed' /\ bytes' \in 0..Cap
    BY <2>1 DEF PipeNoticed
  <2> QED
    BY <1>1, <1>2, <1>6, <2>1, <2>2, <2>3, LoopStep DEF Drain, queueVars, Labels
<1> QED
  BY <1>3, <1>4, <1>5, <1>6

\* Every step keeps the invariant.
LEMMA NextInd == IndInv /\ [Next]_vars => IndInv'
<1> SUFFICES ASSUME IndInv, [Next]_vars PROVE IndInv'
  OBVIOUS
<1>1. CASE UNCHANGED vars
  BY <1>1 DEF IndInv, TypeOK, IdsRecorded, StartInTurn, StartHolds, StopInTurn, PostedWithId,
              PipeNoticed, At, vars, threadVars, queueVars, pipeVars
<1>2. CASE MainStep \/ CreateFails \/ Schedule \/ Stop
  BY <1>2, CreateStep, WaitStep, MainGoes, JoinStep, MainTickles DEF MainStep
<1>3. ASSUME NEW k \in Ids, WorkerStep(k) \/ TaskSchedule(k)
      PROVE  IndInv'
  BY <1>3, RunSteps, TaskSteps, TickleSteps, IdleSteps DEF WorkerStep
<1> QED
  BY <1>1, <1>2, <1>3 DEF Next

\* It holds in every state that is reached.
LEMMA IndInvHolds == Spec => []IndInv
BY InitInd, NextInd, PTL DEF Spec

\* The main thread, the workers, their semaphores and the pipe have their
\* types; the pipe never holds more than it can.
THEOREM WorkerTypes == Spec => []TypeOK
<1>1. IndInv => TypeOK
  BY DEF IndInv
<1> QED
  BY <1>1, IndInvHolds, PTL

\* start() records the id of each thread it made: the constructor of Thread
\* returns only when the thread has written it.
THEOREM StartRecordsIds == Spec => []IdsRecorded
<1>1. IndInv => IdsRecorded
  BY DEF IndInv
<1> QED
  BY <1>1, IndInvHolds, PTL

\* A byte that tickle() wrote is reported by epoll or being read, for any
\* number of writers and readers of the pipe.
THEOREM NoByteUnnoticed == Spec => []PipeNoticed
<1>1. IndInv => PipeNoticed
  BY DEF IndInv
<1> QED
  BY <1>1, IndInvHolds, PTL
=============================================================================
