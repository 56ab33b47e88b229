# Verification of the awcotn server framework

TLA+ modules, TLC configurations and TLAPS proofs for the fiber framework in
`src/awcotn/`: an N:M fiber scheduler, an epoll event loop on top of it, timers,
hooks that turn blocking system calls into waits of a fiber, a configuration
registry with change listeners, and the logging system that is configured by it.

Every definition is a translation of the code; `PROJECT.json` gives, for each
one, the file and the lines. Where a comment and the code disagree, the module
follows the code.

## 1. Inventory

| Part | Sources | State | Operations |
|---|---|---|---|
| Scheduler | `scheduler.{h,cc}` | run queue `m_fibers`, `m_activeThreadCount`, `m_idleThreadCount`, `m_stopping`, `m_autoStop`; locals of `run()` | `schedule`, `start`, `stop`, `run`, `stopping`, `idle`, `tickle` |
| Fiber | `fiber.{h,cc}` | `m_state`, `m_cb`, saved context | `swapIn`, `swapOut`, `reset`, `YieldToReady`, `YieldToHold`, `MainFunc` |
| IOManager events | `iomanager.{h,cc}` | `m_fdContexts` (events and waiters per descriptor), `m_pendingEventCount`, the epoll set | `addEvent`, `delEvent`, `cancelEvent`, `cancelAll`, `contextResize`, the loop of `idle` |
| IOManager stopping, tickle | `iomanager.cc` | tickle pipe | `stopping`, `tickle`, `idle` |
| Timer | `timer.{h,cc}` | `m_timers` ordered by deadline, `m_tickled`, `m_previouseTime` | `addTimer`, `cancel`, `refresh`, `reset`, `getNextTimer`, `listExpiredCb` |
| Hook | `hook.{h,cc}` | the `timer_info` of a wait | `do_io`, `connect_with_timeout`, the sleeps, `socket`, `accept`, `close`, `fcntl`, `ioctl`, `setsockopt` |
| FdManager | `fd_manager.{h,cc}` | `m_datas`; each `FdCtx`'s flags and timeouts | `get`, `del` |
| Config | `config.{h,cc}` | registry `GetDatas()`, each variable's value and listeners, the counter `s_fun_id` | `Lookup`, `Visit`, `LoadFromYaml`, `setValue`, `fromString`, `addListener`, `delListerer`, `clearListener` |
| Log | `log.{h,cc}` | the registry `m_loggers`; level, formatter and appenders of each logger; the items of a `LogFormatter` | `log`, `getLogger`, `setLevel`, `setFormatter`, `addAppender`, `delAppender`, `clearAppenders`, the listener of `logs`, `LogFormatter::init` and `format`, `toYamlString` |
| Conversions | `config.h`, `log.cc` | none | `LexicalCast` of every container and of `LogDefine`, both ways |
| Thread, mutexes | `thread.{h,cc}`, `mutex.{h,cc}` | `m_id`, `m_thread`, `m_semaphore` | `Thread()`, `run`, `join`, `Semaphore::wait`, `notify`; the mutexes themselves are the atomicity that the modules assume |
| Util, macros, singleton | `util.{h,cc}`, `macro.h`, ... | none | not modelled, except `GetCurrentMS()` as the clock |
| nio | `nio.cc` | | not modelled: an older `iomanager.cc` that `CMakeLists.txt` does not build |

**How the parts interact.** Pool threads execute `Scheduler::run()`. A fiber
that calls a hooked `read()` on a socket that is not ready arms a condition
timer (TimerManager), registers itself with `IOManager::addEvent()` and yields.
An idle thread resumes its idle fiber, which polls epoll, collects expired
timers and schedules what became ready: the fiber goes back to the run queue.
`close()` cancels all events of a descriptor, which schedules the waiters too.
Timeouts come from configuration variables through listeners, and so do the
loggers: a new value of `logs` rebuilds those that differ. `start()` makes the
threads and waits for each; `stop()` makes them leave once nothing is queued,
running or pending, and joins them. `schedule()` and `stop()` write to a pipe
that idle threads empty.

**What is hard.** A fiber publishes itself (in epoll, in a timer) before its
context is saved and before its thread has recorded that it is on HOLD. The
two counters and the queue that decide when to stop are read separately.
`listExpiredCb()` tests under one lock and acts under another. Notices of
`epoll_wait` are handled after the registrations may have changed. Three things
race to end one wait: event, timeout, `close()`; and descriptor numbers are
reused. `setValue()` tells listeners under a read lock and assigns under a
later write lock. Levels of loggers are read without a lock, and while the
listener works through a new value, events meet loggers that are half rebuilt.
`start()` waits, holding a mutex, for threads that want that mutex. `PROJECT.json`, `hazards`, lists these at their lines.

**What makes each part correct.**

- Scheduler: nothing submitted is lost or entered twice; no fiber is on two
  stacks; the counters never make `stopping()` answer too early; `stop()`
  returns and everything has run by then.
- Timers: a one-shot timer fires once or was cancelled, never both; whoever
  sleeps on a deadline is notified of an earlier one; all that expired is
  collected.
- Events: the counter is the number of registrations; a waiter is held by one
  context; epoll watches exactly what is registered, across table growth,
  close and reuse.
- Hook: a wait ends once and leaves nothing behind; who is parked can be woken;
  a wait with a timeout has one coming; managed sockets stay non-blocking.
- Config: one variable per name for ever; listeners are told each change once
  and agree with the value; an id returned by `addListener()` names one's own
  listener; a file is applied past the nodes that do not convert; a value is what
  its text is read back as.
- Log: after a load every logger is as defined, whatever it was before; loggers
  that a load keeps never lose an event to the root's appenders; those it removes
  fall silent; appenders without a pattern have their logger's; a pattern writes what
  it says.
- Threads: `start()` returns with the id of every thread recorded; no byte lies in
  the pipe unnoticed; `stop()` returns with every thread joined.

## 2. Modules

| Module | Of | Contents |
|---|---|---|
| `Scheduler` | scheduler, fiber, `IOManager::stopping` | one action per step of `run()`, `start()`, `stop()`, of a callback, of the idle fiber |
| `TimerManager` | timers | one action per operation, three for `listExpiredCb()`, and the clock |
| `IOManager` | event registrations | lookup, growth and critical section of each operation; `epoll_wait` and the handling of each notice |
| `Hook` | hook, FdManager | every hooked call as a sequence of steps, timer callbacks, `FdManager::get/del` |
| `Config` | configuration | lookups, iteration, assignment, the accesses of the shared counter |
| `TaskPool` | what a scheduler promises | submitted, entered once, ended; implemented by `Scheduler` |
| `WorkerThreads` | threads, semaphore, pipe | `start()`, `Thread::run()`, `tickle()` and the pipe's part of `idle()`, `stop()` and `join()` |
| `Log` | loggers | `log()` step by step, the calls that change a logger, the listener of `logs` call by call |
| `LogDefine` | log configuration | levels, `LogDefine` from and to YAML, `toYamlString()` (used by `Log` and `LexicalCast`) |
| `LogFormatter` | patterns | the loop of `init()`, one iteration a step, and what the items write |
| `LexicalCast` | conversions | one operator per specialisation, and `fromString()`, `toString()` |
| `MC...` | | constants and symmetry for TLC |
| `...Proofs` | | theorems, inductive invariants and proofs, one module for each component |
| `TextProofs` | | those of `LogFormatter` and `LexicalCast` |

Conventions: a label of a program counter (`pc`, `call[f].at`, `op[f].at`,
`th[t].at`) stands for a point between two steps at which another thread can
see or change shared state. A failed `AWCOTN_ASSERT` aborts (the build has no
`NDEBUG`) and undefined behaviour leaves the model: both set `fault`, after
which only `Halted` is enabled. Variables marked *history* are not in the code;
they remember what the properties speak of and no guard reads them. A
definition with `\* mutant` is a plausible mistake in the definition below it; it
shows that a property notices. Updates of one component use a single
`EXCEPT` path with a nested record update, the form every tool reads alike.

### Scheduler

`pc[t]` follows `run()`: `scan` (the loop under `m_mutex`: `ScanTake`,
`ScanNone`), `dispatch` (`DispatchFiber`, `DispatchCb`, `DispatchDead` for an
entry whose fiber is TERM or EXCEPT, which falls through to the idle branch with
`m_activeThreadCount` still raised), `user` (inside a fiber: `UserSubmit`,
`YieldToReady`, `Arm` and then `YieldToHold`, `MainFuncEnd`), `swapout` (the
state is set and the context is not saved yet), `post` (`Deactivate` lowers
the count), `settle`, `hold` (`SetHold`, scheduler.cc:195), and `idle`, `check`,
`poll`, `idleback` for the idle fiber. `Wake` is an idle thread that takes a
fiber out of a timer or an event and schedules it; `armed` is the set of such
fibers. `main` follows the thread that calls `start()` and `stop()`. With
`Polls = FALSE` it is a plain Scheduler: nobody waits for events; with `TRUE` it
is an IOManager, whose `stopping()` looks at timers and pending events first.

Not a step here: `tickle()`. The base class only logs. In IOManager,
`idle()` calls `stopping(next_timeout)`, which takes its argument by value
(iomanager.cc:391), so `next_timeout` stays 0 and `epoll_wait` returns at
once: no thread sleeps and no wake-up can be missed. What can go wrong is the
writer: `WorkerThreads` has the pipe.

`TaskPool` is the abstract specification. The refinement maps the state of a callback
(`PoolState`: new, queued, running, done, from `submitted`, `starts` and
`finished`) and `joined` to "`stop()` has returned". `ImplementsPool` is the
safety part, for any scheduler; `ImplementsDrainingPool` adds that joining waits
for all and that everything queued is entered and ends (weak fairness of the pool's
`Enter` and `End`), for one that does not poll.

### WorkerThreads

`main` is the thread that constructs the IOManager, schedules and stops;
`th[k]` a worker. `Create` and `Wait` are the two halves of `Thread()`; `StartHolds` is
`m_mutex` in the hands of `start()`. `TickleTest` reads the idle count and
`TickleWrite` writes, later. The kernel's part is `bytes` in the pipe and
`edge`, whether epoll still has to report it; `Drain` reads one byte. Tasks only
schedule other tasks: what `run()` does with fibers is `Scheduler`.

### TimerManager

`m_timers` is a set; `Before` is the comparator (deadline, then address), and
`IsBegin` its first element. `addTimer()` is `NewTimer` (the constructor reads
the clock outside the lock) and `AddTimer`. `listExpiredCb()` is `ListNow`,
`ListEmpty` or the step to the write lock, `ListCollect`, or
`ListBeginOfEmpty` when the set was emptied between the locks: `*begin()` of an
empty set is undefined and stops the model. The clock may be set back; an
"hour" is `RollMs`.

### IOManager

A `FdContext` is a slot of the table and the number of its allocation there: a
resize that shrinks drops contexts that somebody may still point to.
`Lookup`, `Grow` and the operation itself are separate steps; a critical section
under the mutex of the context is one step. `interest` is the kernel's epoll set,
`open` the open descriptors; both are external, modelled by what the code relies
on: `EPOLL_CTL_ADD/MOD/DEL` fail on a closed descriptor or a wrong one, closing
drops the interest, and `EpollWait` reports any part of the interest plus ERR/HUP.
`wstate` says where a waiter is. `addEvent()` is called from fibers of the
scheduler (it asserts a current fiber when it gets no callback).

### Hook

`op[f]` is the call a fiber is in. A waiting call goes `try` (the original
function), `arm` (`addConditionTimer`), `add` (`addEvent`), `yield`, `parked`,
`woken` (cancel the timer), `check` (ETIMEDOUT or retry). `socket()` and
`accept()` go through the three steps of `FdManager::get`; `close()` through
`cancelAll`, `del`, `close_f`. A timer's callback is collected by `TimerFires` and
runs as a task: `CallbackCheck` locks the weak pointer and sets `cancelled`,
`CallbackCancel` cancels the event. IOManager and TimerManager appear here by what
the other modules show of them: a registration holds its fiber until event,
`cancelEvent` or `cancelAll` schedules it, a timer is collected at most once and
not after `cancel()`.
`Parallel = FALSE` is one scheduler thread: what has begun goes on until it
yields.

### Config

`th[t]` is the operation of a thread. `setValue()` is `SetSame` or `SetBegin`,
one `Notify` per listener under the read lock, `NotifyEnd`, `Assign`.
`addListener()` is four steps, since `s_fun_id` is shared by all variables of a
type and protected by the lock of one. `LoadFromYaml()` is `Load` (the list of
nodes), one `LoadNext` per node with the whole `setValue()` under it, `LoadEnd`.
Conversions are a constant: by type and text, a value or "throws". A listener is
like those in `hook.cc` and `log.cc`: it takes over the new value and calls
nothing back.

### Log

`th[t]` follows an event: `event` (past the level test of the macro), `lock` (past
that of `log()`), `root` and `rootlock` (inside `m_root->log()`, with the own mutex
held: `Locked`). `listener` follows the loop of the listener, one step for each
call it makes on a logger; `ConfigVar::setValue()` is `SetValue`, which calls it
with the old value, and `Assign`. `UserCall` is the program changing a logger.
A formatter is its pattern, an appender a record with its pattern and whether it
is its own. `touched` and `removed` are history.

### LogFormatter, LexicalCast

Both are functions of an input; a behaviour computes one of them, step by step.
A pattern is a sequence of characters and every name of the code (`nstr`, `vec`,
`m_error`) is a variable; `NameEnd` and `FmtEnd` are where the inner loop leaves off. A
YAML text is the tree it stands for; `Load` and `Emit` are yaml-cpp on a single node,
with its two surprises: an empty text is null, and a scalar that looks like something else
is written in quotes. `IsValue` and `IsDocument` say what a variable of a type can hold and
what a file can hold for it; `Kept` names what a file loses: an empty string in a container,
the level of an appender, the file of a console appender.

## 3. Runs

| Run | Question | Instance |
|---|---|---|
| `sched_pool` | does a plain scheduler with yields, throws and nested submissions keep every fiber on one stack, and does `stop()` return with everything run? | 2 workers, 3 fibers, 2 callbacks, 1 yield each |
| `sched_caller` | does an IOManager on the caller's thread alone drain queue, timers and events before `stop()` returns? | caller, 3 fibers, 2 callbacks, 2 suspensions, pinned tasks |
| `sched_race` | do counters and placement survive wake-ups that overtake the switch-out, and is the scheduler a task pool through all of it? | 2 workers, 3 fibers, 2 callbacks, pins |
| `timer_pair` | order, notification, cancel against collection, with the clock set back | 2 timers, 1 poller, clock 1..3 |
| `io_events` | do counter, contexts, waiters, table and epoll set agree when two callers and two event loops meet on a descriptor that is closed and reopened? | 1 descriptor beyond the table of 2 slots, 2 fibers, 1 callback, 2 event loops |
| `hook_single` | on one thread, can whoever is parked be woken, with its timeout? | 2 descriptors, 2 fibers, each number opened twice |
| `hook_parallel` | do event, timeout and close on several threads end a wait once? do managed sockets stay non-blocking? | 1 descriptor opened twice, 2 fibers, `fcntl` and `ioctl` |
| `config_vars` | do listeners, ids, values and a loaded file agree? | 2 threads, one of which sets; 2 valid names and an invalid one, 2 types, 2 listeners, a file with a node that fails |
| `log_conf` | are the loggers as defined after each load, undisturbed and silent where they should be during it, and does the load end? | 3 loggers, 2 logging threads, 3 configurations loaded in any order for ever, 1 call of the program |
| `log_text` | does the parser lose nothing, and is every value what its text is read back as? | all patterns up to 5 of 6 characters and up to 3 of 8 pieces; containers of up to 3 elements, 7 texts, files of up to 2 loggers |
| `workers` | do `start()` and `stop()` return, with ids recorded and the pipe empty or noticed? | 3 threads, 3 tasks, a pipe of 8 bytes, creation may fail |
| `sched_addevent_assert` | see section 5 | 2 workers, 3 fibers, 2 callbacks |

**Bounds, and why they are enough.** Races of the code are between two parties
at one object; the instances have two of everything that can race and one more
fiber than threads, so that a callback fiber can be suspended, re-queued, and
met by a second worker while a fresh one is in use. `MaxSuspends` bounds the
yields of a callback, so that each ends: two are enough for a fiber to be
woken, resumed and suspended again while its former thread is still between
`swapIn()` and `SetHold`. Two timers suffice for order and front; the clock
needs a before, an at and an after. In `io_events` descriptor 2 is just beyond the
table, so both callers come to grow it. The configurations of `log_conf` add, keep,
change and remove a logger, with a pattern in error, appenders to be skipped, and a
root logger without appenders; they are loaded without bound. In `workers` each of
3 threads can be idle, writing and busy while another drains; 8 bytes are more
than the tickles of 3 tasks, 3 threads and their re-scans (65536 in a pipe of the
kernel). `MaxInc = 2` lets a number be reused once under
a waiter. Callbacks, fibers and descriptors are interchangeable in the
runs that use symmetry; runs with liveness properties use none.

**Deadlock** is checked in every run but `log_text` and `workers`, where a computation
ends or `stop()` returns for good; `StopReturns` excludes any other end of `workers`
after `stop()`. Elsewhere the only states without a step are those
that `Halted` describes (aborted, `stop()` returned, every fiber of `Hook` at
the end of its bound).

**Fairness.** `Scheduler`: weak fairness of
each thread's `RunStep` - the kernel runs every thread, no lock is held across
steps, a callback ends; weak fairness of `Start \/ StopStep` - the main thread
goes on to call `stop()`; strong fairness of each fiber's `Wake` - an armed timer
or event happens eventually and some thread keeps polling, though it is not
polling at every instant. Nothing is assumed of who submits. `WorkerThreads`: weak
fairness of the main thread's and of each worker's own steps; nothing of `Schedule`,
`Stop` or a task that schedules more. A thread that waits for `m_mutex` or a semaphore
is not enabled, so weak fairness does not help it. `Log`: weak fairness of a thread inside
`log()` and of the listener; nobody need log, call or load. Strong fairness of the mutexes is not
needed, since a thread logs finitely often in the instance.

## 4. Proofs

For every value of the constants that satisfies the named `ASSUME`s
(`SchedulerAssumption`, `TimerAssumption`, `IOManagerAssumption`, `HookAssumption`,
`ConfigAssumption`, `WorkerThreadsAssumption`, `LogAssumption`, `FormatAssumption`,
`LexicalCastAssumption`), which say that sets of
different things are apart, that pools are finite, that functions given as constants have
their types, and that bounds are naturals.
`TimerAssumption` also says that the clock is past its first hour, and
`IOManagerAssumption` that the table starts with two slots (it has 32).
`FormatAssumption` says what a piece of a pattern is and what it stands for (`IsText`,
`IsItem`), and that `%` and `{` are no letters. `LexicalCastAssumption` holds what is believed of
yaml-cpp: that it reads back the node it wrote (`Load[Emit[n]] = n`), that an empty text is
null and null is written `~`, and that `boost::lexical_cast` of an int is read back from the
text of it; nothing is said of how a text looks. TLC evaluates each of them on a run.

| Theorems | Inductive invariant | Why it is needed |
|---|---|---|
| `SchedulerTypes`, `SchedulerCounters` (CountersCover), `SchedulerCbOnce` (CbOnce) | `IndInv` = TypeOK, CountersCover, HandOK, PhaseOK, CbOnce | HandOK says what a thread holds at each label, so that taking and giving away are seen to match; PhaseOK that nobody is in `run()` before `start()`, nor the caller's thread before `stop()`, which those two set |
| `SchedulerIsPool` (ImplementsPool) | `PoolInv` = IndInv, StartedOK, StopQuiet | a callback is entered only from the queue and ends only where it was entered (StartedOK), and nobody moves once `stop()` has returned (StopQuiet); each step is then one of the pool's or a stutter |
| without polling: `FibersAccountedFor` (NoHoldInv), `NothingFaults` (NoFault), `StopDrainsQueue` (StopDrains) | `NoHoldInv` = IndInv, FiberOwned, FiberStates, StopPhases | a fiber is in the queue or in the hands of one thread, and where tells its state; an entry any thread may take has a thread that has not left its scan, from the last `schedule()` to the join |
| without polling and pins: `SchedulerDrainsPool` (the safety of the draining pool) | `DrainInv` = NoHoldInv, PoolInv, NoneStranded | a callback that was entered and has not ended is on a fiber that is queued or on a thread |
| one thread, polling or not: `StopsWhenNothingIsPending` (StopLeavesNothingArmed), `OneThreadDrains` (StopDrains) | `LoneInv`, with PoolInv | what the thread saw pending or queued before it decided to leave stays so, for nobody else moves |
| one thread, polling or not: `OneThreadNoFault` (NoFault) | `SoloInv` = IndInv, FiberOwned, SoloStates | a fiber that waits is on HOLD and nowhere else as soon as the thread has left it, so that only fibers at rest are woken |
| `TimerTypes`, `HandlesQueued` (CbIffQueued), `OneShotFiresOnce` (OneShotOnce), `EarlierDeadlineNotified` (FrontNotified), `CancelIsFinal` (CancelledStaysOut) | `TimerInv` = TypeOK, Stages (CbIffQueued, OneShotOnce, Lifecycle), FrontNotified | Lifecycle: a timer is untouched before its insertion, and a cancelled one has no callback left with which to be queued |
| `IOManagerTypes`, `PendingCounted` (CountMatches), `ContextAssertion` (CtxAssertHolds), `WaitersHeldOnce` (WaiterHeldOnce) | `IndInv` = TypeOK, CountMatches, CtxAssertHolds, WaiterHeldOnce | each step does nothing to the registrations, registers one event, releases events of one context, or resumes a waiter: one lemma per kind; that the counter stays natural needs that it is a cardinality |
| `EpollWatchesRegistered` (InterestExact) | InterestExact, with IndInv | inductive as it is: a step that changes what is registered in a context writes the same set to epoll, or aborts (`Follows`, one lemma for each kind of step) |
| at most one fiber or descriptor makes the table grow (`OneGrows`): `RegisteredFindable` (RegisteredInTable) | `TableInv`, with IndInv | a call that has looked its context up has the one that is in the table; who is about to grow the table does not shrink it, so that no context is dropped |
| `HookTypes`, `WaitsSettle` (WaitSettled) | `IndInv` = TypeOK, WaitSettled, OpShape, SleepOnce | a sleep and an I/O wait share timers and callbacks: OpShape and SleepOnce keep them apart |
| `ManagedDescriptors` (ManagedNonblock) | `OwnInv`, with IndInv | between the original `socket()` or `close()` and the registry, one call has the number to itself, so that the flag and the context change in the order of that call |
| one scheduler thread: `ParkedStayReachable` (ParkedReachable) | `SingleInv` = OwnInv, OneActs, RegLive, WaitersReached | registrations are of open descriptors with a context, except inside the `close()` that removes them; only one fiber is between two waits |
| one scheduler thread: `TimeoutsStand` (TimeoutPending) | `TimedInv`, with SingleInv | callbacks of earlier waits of a fiber are told apart from those of the wait it is in, and its timer is armed until collected |
| `ConfigTypes`, `PointersStay` (HeldIsRegistered), `IterationsStable` (IterationStable) | `IndInv` of `ConfigProofs` = TypeOK, OnRegistered, HeldIsRegistered, Counters, Exclusive, OncePlaced, IterationStable | OncePlaced: an iteration counts listeners, so one may not be in the map twice; Exclusive: the write lock |
| `HandlesWork` (HandleWorks) | `HandleInv`, with IndInv | the counter of a variable alone of its type moves under that variable's lock and is not below any id given out |
| one setting thread (`OneSetter`): `ListenersKnow` (ListenersAgree) | `AgreeInv`, with IndInv | what listeners above and below the one being told know, while the value is still the old one |
| one setting thread: `LoadsApplied` (LoadApplied) | `LoadInv`, with IndInv | the nodes before the one a load is at have been applied, up to the assignment under way |
| `WorkerTypes`, `StartRecordsIds` (IdsRecorded), `NoByteUnnoticed` (PipeNoticed) | `IndInv` of `WorkerThreads` = TypeOK, IdsRecorded, StartInTurn, StopInTurn, PostedWithId, PipeNoticed | PostedWithId: the semaphore is posted after the id is written, so the constructor that waits for it reads the id; StartInTurn: the ids recorded are those of the threads before the one being made |
| `FormattersFollow` (FormatterFollows) | `TypeInv` = TypeOK, LoggersOK, LoadShape | the appenders a load adds are made with the formatter of the definition, also before that of the logger is set |
| `DefinitionsApplied` (ConfApplied) | `ConfInv`, with TypeInv | during a load, loggers yet to be visited are as the old value defines them, those visited as the new one does, and the one being visited has come as far as its step |
| `RemovedStaySilent` (RemovedSilent) | `SilentInv`, with ConfInv | the loop that removes runs in each visit: how far it is tells who is silent already |
| `KeptUndisturbed` (Undisturbed) | `LockInv`, with ConfInv | while appenders are missing, the event that went to the root logger holds the logger's mutex, so that the load cannot pass it |

| `LoggersReload` (DumpReloads) | TypeInv | the `k`-th appender that is written is the `k`-th that is read (`NthNumber`, `Rebuilt`), since none is skipped; an appender of the console has no file (`Proper`) |
| `PatternKept` (NothingDropped) | `SpellInv` = ParserTypes, ReadSoFar | until an error the parts found and the pending text spell what was read, also where an iteration skips over a name and its format |
| `PiecesRendered` (RendersAsWritten) | `RenderInv`, with SpellInv | for every way to cut the pattern into pieces, the parser stands between two pieces or inside the first that is left, what it found writes what those before stand for, and an unknown part was found just when one of them is unknown |
| `ValuesReadBack` (RoundTrip) | `CastInv` | a variable holds a value of its type, and a text is the file to read or one of those the value may be written as; one lemma for each container in each direction |

The theorems hold of runs up to an abort: `fault` stops the models, and that an
abort does not happen is `NoFault` for the scheduler, `CtxAssertHolds` for the
contexts of IOManager; section 5 has those that do happen.

Where a theorem has a hypothesis besides the assumptions (`~Polls`, `OneThread`,
`OneGrows`, `~Parallel`, `OneSetter`), the property is false without it: sections 5
and 6 say what goes wrong. The invariants were checked on the runs of their component before they were proved, `RenderInv` for
sequences of up to two pieces.

**Only model-checked.** Liveness (`StopTerminates`, `StartReturns`, `StopReturns`,
`LoadReturns` and the fairness of `ImplementsDrainingPool`): fairness and ENABLED are out
of the prover's reach. Every invariant that a run checks is stated by a theorem.
`Lifecycle` is proved as a part of `TimerInv`.

**Induction over data.** `RendersAsWritten` speaks of pieces put together by `FlattenSeq`, a fold.
`TextProofs` takes no induction theorem with an operator for a parameter: `LeastNumber` says that
a set of numbers has a least one (the library's well-founded order on `Nat`), and so
`EveryNumber` what holds of 0 and of each successor holds of all. From that follow the laws of
`FlattenSeq` (`FlattenAppend`, `MappedFirst`) and everything about a first position that has a
property: the end of a name or of a format, the first of two equal keys.
Sets and maps are written in any order of `SetToSeqs`: that one meets each element once is
`Enumerates`.

## 5. Where the code and its comments disagree

`sched_addevent_assert` is a run that TLC refutes; `PROJECT.json` quotes the comment.
The others are shown the same way by putting the property named into the cfg named.

1. `sched_addevent_assert` - `run()` sets a fiber to HOLD after `swapIn()` has
   returned (scheduler.cc:195). If another thread has resumed the fiber
   meanwhile, it runs in state HOLD, and its next `addEvent()` fails the assertion
   on EXEC (iomanager.cc:215).
2. `AllExpiredCollected` (a PROPERTY, `TimerPair.cfg`) - the test at timer.cc:149 is
   inverted: when the first timer is overdue, `listExpiredCb()` collects nothing
   (iomanager.cc:448 says it gets all expired). It collects only timers due in the very
   millisecond of the call, or after a rollover.
3. `TriggerAssertHolds` (an INVARIANT, `IOEvents.cfg`) - after EPOLLERR or EPOLLHUP
   both events count as having happened (iomanager.cc:473), and WRITE is triggered
   without a test that it was registered (iomanager.cc:515; the comment above it names that
   test): the assertion of `triggerEvent()` fails.
4. `StopReturns` with `Cap = 1` (`Workers.cfg`) - `tickle()` writes when no thread is
   idle (iomanager.cc:369), while its comment says that it wakes idle threads; once
   the pipe is full, all threads block in `write()` and none is left to read.

## 6. Limits of the claims

- `StopDrains` is claimed, and proved, of a scheduler with one thread and of one that does
  not poll. With polling workers a dead fiber
  taken from the queue makes a thread leave without another scan.
  `StopLeavesNothingArmed` is not true of two polling workers, since `stopping()`
  reads timers, events and queue one after the other.
- A task pinned to a worker that has left is never taken; no property excludes it.
- `ListBeginOfEmpty` is reached in `timer_pair`: the last timer cancelled between
  the two locks of `listExpiredCb()`.
- `RegisteredInTable` needs one growing caller at a time: with two, the second
  resize to another size may shrink the table. `InterestExact` speaks of what epoll
  watches; events registered between `cancelAll()` and `close_f()` of a `close()` are
  not watched at all.
- The assertion of `triggerEvent()` can also fail by a notice that is stale.
- `TimeoutPending` is claimed of one scheduler thread. `do_io()` arms the timeout
  before it registers the event (hook.cc:139). With `Parallel = TRUE` in
  `HookSingle.cfg` TLC shows the callback running in between on another thread: it
  cancels nothing, and the fiber then waits for the event alone. `ParkedReachable` is
  of one scheduler thread too: with `Parallel = TRUE` TLC shows a fiber that registers
  between `cancelAll()` and `close_f()` of another thread's `close()`, and is held for an
  event that epoll no longer watches.
- `ListenersAgree` and `LoadApplied` need one setting thread: two may tell
  their listeners in one order and assign in the other. `HandleWorks` needs a
  variable that is the only one of its type.
- Hook: callers have the hook enabled; each opening is closed once; a timeout is
  present or not, its length is not modelled; `fcntl()` and `ioctl()` are one step;
  results of the original calls are not kept. After a wake-up `do_io()` retries on
  the number, which may be another socket by then: the model does so too and no
  property claims otherwise.
- `RemovedSilent` is claimed of loads that define or change some logger: the loop that
  removes is inside the loop over the new ones (log.cc:823), so a load that only
  removes leaves everything as it is. `ConfApplied` and `RemovedSilent` leave out
  loggers that the program changed since; a load does not repair what it thinks is
  unchanged.
- `Undisturbed` is of loggers that keep their definition. One that changes has no
  appenders for a moment, and its events go to the root logger.
- `DumpReloads` leaves out appender levels, which no file can set (log.cc:757),
  removed loggers, whose level 100 is written `UNKNOW`, and empty patterns: one that
  `setFormatter()` is given stands for nothing when it is read. An empty string in a
  container comes back as `~`.
- `RoundTrip` is of elements that are ints or strings, and of appenders of one of the two types.
- After `%%` the parser looks at the second `%` again, so `%%m` is a percent sign
  and the message. `NothingDropped` leaves out `{}`, an empty format, which is no part of
  `vec`.
- Log: an appender belongs to one logger; programs call `setFormatter()` with a
  pattern or with a formatter that is in order; files and bytes are not modelled (a
  changed logger's file is truncated, log.cc:443).
- Workers: no signal interrupts `sem_wait()` (mutex.cc:18); with one, `start()` records an
  id of -1, as the mutant of `IdsRecorded` shows.

**Not modelled.** `nio.cc` (not built), stateless helpers, stack allocation of fibers,
results of system calls, the contents of log files. `CMakeFiles` holds compiler probes.

## 7. Plan

Done: Scheduler with Fiber and its refinement of TaskPool, TimerManager, IOManager,
WorkerThreads with the pipe, Hook with FdManager, Config with the conversions, Log with
its patterns; theorems of all of them: every safety invariant that a run checks is proved.

Next, in this order:

1. Proofs: `SchedulerDrainsPool` for one thread that polls (NoneStranded with fibers that
   wait counted as placed).
2. Abstract specifications: an event source (register, fire once, cancel) implemented by
   IOManager and assumed by Hook; a timer service implemented by TimerManager.
3. Model: the connection state behind `connect_with_timeout()`; a caller without the
   hook; two descriptors whose tables grow in turn.
