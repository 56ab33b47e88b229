-------------------------------- MODULE Hook --------------------------------
(***************************************************************************)
(* The blocking calls that src/awcotn/hook.cc turns into waits of a fiber: *)
(* do_io (read, write, accept and their kin), connect_with_timeout, the    *)
(* sleeps, socket, close, fcntl, ioctl and setsockopt, with the descriptor *)
(* contexts of src/awcotn/fd_manager.{h,cc} that they share.               *)
(*                                                                         *)
(* IOManager and TimerManager appear by what they promise: addEvent()      *)
(* holds the fiber until the event, cancelEvent() or cancelAll() schedules *)
(* it; a timer's callback is collected at some time after it was armed,    *)
(* then runs as a task of its own.  Callers are fibers of threads that     *)
(* have the hook enabled.                                                  *)
(***************************************************************************)
EXTENDS Naturals, FiniteSets

CONSTANTS Fds,        \* descriptor numbers
          Fibers,
          Flags,      \* are fcntl() and ioctl() used?
          Parallel,   \* more than one scheduler thread?
          MaxWaits,     \* bound: how many waiting calls one fiber makes
          MaxInc,     \* bound: how often one number is opened
          Null        \* no fiber in an event context, no descriptor

Events == {"READ", "WRITE"}
Waits == {"io", "accept", "connect"}
Kinds == Waits \cup {"sleep", "socket", "close"}

VARIABLES
    open, inc,       \* the kernel: open numbers, and which opening it is
    nonblock,        \* the kernel: O_NONBLOCK
    m_datas,         \* FdManager: the numbers that have an FdCtx
    m_userNonblock,  \* of the FdCtx
    timeout,         \* of the FdCtx: the directions with a timeout
    cleared,         \* ioctl(FIONBIO, 0) was the last word   (history)
    reg,             \* event contexts: the fiber held, for which opening
    runq,            \* fibers that were scheduled
    timer,           \* fibers whose timer is armed
    cbs,             \* timer callbacks that were collected
    op, opn,         \* each fiber: its operation, and how many waits
    cancelled,       \* fibers whose timer_info says ETIMEDOUT
    fault

kernelVars == <<open, inc, nonblock>>
ctxVars == <<m_datas, m_userNonblock, timeout, cleared>>
waitVars == <<reg, runq, timer, cbs, cancelled>>
vars == <<kernelVars, ctxVars, waitVars, op, opn, fault>>

NoOp == [at |-> "out"]
Labels == {"try", "arm", "add", "yield", "parked", "woken", "check",
           "get", "create", "insert", "cancelAll", "del", "close_f"}
Ops == [kind: Kinds, at: Labels, fd: Fds \cup {Null}, ev: Events, to: BOOLEAN]
Regs == [f: Fibers, inc: 0..MaxInc]
Callbacks == [f: Fibers, n: 0..MaxWaits, kind: Kinds, fd: Fds \cup {Null}, ev: Events,
              at: {"queued", "cancel"}]

ASSUME HookAssumption ==
    /\ Null \notin Fds \cup Regs
    /\ Parallel \in BOOLEAN /\ Flags \in BOOLEAN
    /\ MaxWaits \in Nat /\ MaxInc \in Nat

Init ==
    /\ open = {} /\ inc = [d \in Fds |-> 0] /\ nonblock = {}
    /\ m_datas = {} /\ m_userNonblock = {} /\ cleared = {}
    /\ timeout = [d \in Fds |-> {}]
    /\ reg = [d \in Fds |-> [e \in Events |-> Null]]
    /\ runq = {} /\ timer = {} /\ cbs = {} /\ cancelled = {}
    /\ op = [f \in Fibers |-> NoOp]
    /\ opn = [f \in Fibers |-> 0]
    /\ fault = "none"

----------------------------------------------------------------------------
(* Who runs.  With one scheduler thread a fiber or a callback that has     *)
(* begun goes on until it yields, and the event loop runs when none does.  *)

Quiet(f) == op[f].at \in {"out", "parked"}
Turn(S) == /\ fault = "none"
           /\ Parallel \/ \A f \in Fibers \ S : Quiet(f)
Acting == \E c \in cbs : c.at = "cancel"
FiberTurn(f) == Turn({f}) /\ (Parallel \/ ~Acting)
OthersTurn == Turn({}) /\ (Parallel \/ ~Acting)

At(f, label) == FiberTurn(f) /\ op[f].at = label
GoTo(f, label) == op' = [op EXCEPT ![f].at = label]
Finish(f) == op' = [op EXCEPT ![f] = NoOp]

Begin(f, kind, d, e, to, label) ==
    /\ At(f, "out")
    /\ op' = [op EXCEPT ![f] = [kind |-> kind, at |-> label, fd |-> d,
                                ev |-> e, to |-> to]]

\* A call that may wait makes a timer_info of its own.
BeginWait(f, kind, d, e, to, label) ==
    /\ Begin(f, kind, d, e, to, label)
    /\ opn[f] < MaxWaits
    /\ opn' = [opn EXCEPT ![f] = @ + 1]
    /\ cancelled' = cancelled \ {f}

----------------------------------------------------------------------------
(* What IOManager promises.                                                *)

Live(d, e) == reg[d][e] # Null /\ d \in open /\ reg[d][e].inc = inc[d]
Watched(d) == \E e \in Events : Live(d, e)

\* The events es of d leave their contexts and their fibers are scheduled.
Trigger(d, es) ==
    /\ runq' = runq \cup {reg[d][e].f : e \in {x \in es : reg[d][x] # Null}}
    /\ reg' = [reg EXCEPT ![d] = [e \in Events |-> IF e \in es THEN Null ELSE @[e]]]

\* cancelEvent(), which fails where epoll does not watch the descriptor.
CancelEvent(d, e) ==
    IF reg[d][e] # Null /\ Watched(d) THEN Trigger(d, {e})
    ELSE UNCHANGED <<reg, runq>>

CancelAll_Nothing(d) == UNCHANGED <<reg, runq>>                 \* mutant
CancelAll(d) ==
    IF Watched(d) THEN Trigger(d, Events) ELSE UNCHANGED <<reg, runq>>

----------------------------------------------------------------------------
(* Waiting calls.  Without a context the original function is called; that *)
(* concerns nothing modelled here.                                         *)

DoIo(f, kind, d, e) ==
    /\ d \in m_datas
    /\ kind = "io" \/ (kind = "accept" /\ e = "READ")
    /\ BeginWait(f, kind, d, e, e \in timeout[d], "try")
    /\ UNCHANGED <<kernelVars, ctxVars, reg, runq, timer, cbs, fault>>

Wait(f) == GoTo(f, IF op[f].to THEN "arm" ELSE "add")

\* The kernel gives a number that is not in use.
OpenFd(d) ==
    /\ d \notin open
    /\ inc[d] < MaxInc
    /\ open' = open \cup {d}
    /\ inc' = [inc EXCEPT ![d] = @ + 1]

\* fun(fd, ...): it succeeds or fails, or would block.
TryDone(f) ==
    /\ At(f, "try")
    /\ Finish(f)
    /\ UNCHANGED <<kernelVars, ctxVars, waitVars, opn, fault>>

TryAccepted(f, d) ==
    /\ At(f, "try")
    /\ op[f].kind = "accept" /\ op[f].fd \in open
    /\ OpenFd(d)
    /\ op' = [op EXCEPT ![f] = [@ EXCEPT !.at = "get", !.fd = d]]
    /\ UNCHANGED <<nonblock, ctxVars, waitVars, opn, fault>>

TryAgain(f) ==
    /\ At(f, "try")
    /\ op[f].fd \in open \cap nonblock
    /\ Wait(f)
    /\ UNCHANGED <<kernelVars, ctxVars, waitVars, opn, fault>>

\* connect_with_timeout() after EINPROGRESS; to: a connect timeout is set.
Connect(f, d, to) ==
    /\ d \in m_datas /\ d \notin m_userNonblock
    /\ BeginWait(f, "connect", d, "WRITE", to, IF to THEN "arm" ELSE "add")
    /\ UNCHANGED <<kernelVars, ctxVars, reg, runq, timer, cbs, fault>>

\* sleep(), usleep(), nanosleep(): a timer and no event.
Sleep(f) ==
    /\ BeginWait(f, "sleep", Null, "READ", TRUE, "arm")
    /\ UNCHANGED <<kernelVars, ctxVars, reg, runq, timer, cbs, fault>>

\* addConditionTimer() with a timer_info, or addTimer() of a sleep.
Arm(f) ==
    /\ At(f, "arm")
    /\ timer' = timer \cup {f}
    /\ GoTo(f, IF op[f].kind = "sleep" THEN "yield" ELSE "add")
    /\ UNCHANGED <<kernelVars, ctxVars, reg, runq, cbs, cancelled, opn, fault>>

\* addEvent() asserts that the event is not registered yet; it fails when
\* epoll_ctl does, and then the timer is cancelled.
Fresh(d) == \A e \in Events : reg[d][e] = Null

AddDuplicate(f) ==
    /\ reg[op[f].fd][op[f].ev] # Null
    /\ fault' = "duplicate"
    /\ UNCHANGED <<waitVars, op>>

AddRefused(f) ==
    /\ reg[op[f].fd][op[f].ev] = Null
    /\ Fresh(op[f].fd) \/ ~Watched(op[f].fd)
    /\ timer' = timer \ {f}
    /\ Finish(f)
    /\ UNCHANGED <<reg, runq, cbs, cancelled, fault>>

AddHeld(f) ==
    LET d == op[f].fd
        e == op[f].ev
    IN
    /\ reg[d][e] = Null
    /\ IF Fresh(d) THEN d \in open ELSE Watched(d)
    /\ reg' = [reg EXCEPT ![d][e] = [f |-> f, inc |-> inc[d]]]
    /\ GoTo(f, "yield")
    /\ UNCHANGED <<runq, timer, cbs, cancelled, fault>>

AddEvent(f) ==
    /\ At(f, "add")
    /\ AddDuplicate(f) \/ AddRefused(f) \/ AddHeld(f)
    /\ UNCHANGED <<kernelVars, ctxVars, opn>>

\* YieldToHold() ...
Yield(f) ==
    /\ At(f, "yield")
    /\ GoTo(f, "parked")
    /\ UNCHANGED <<kernelVars, ctxVars, waitVars, opn, fault>>

\* ... and back, when the scheduler takes the fiber.
Resume(f) ==
    /\ At(f, "parked")
    /\ f \in runq
    /\ runq' = runq \ {f}
    /\ IF op[f].kind = "sleep" THEN Finish(f) ELSE GoTo(f, "woken")
    /\ UNCHANGED <<kernelVars, ctxVars, reg, timer, cbs, cancelled, opn, fault>>

\* timer->cancel(): it comes too late for a callback already collected.
Woken_KeepsTimer(f) == UNCHANGED timer                          \* mutant
Disarm(f) == timer' = timer \ {f}
Woken(f) ==
    /\ At(f, "woken")
    /\ Disarm(f)
    /\ GoTo(f, "check")
    /\ UNCHANGED <<kernelVars, ctxVars, reg, runq, cbs, cancelled, opn, fault>>

\* tinfo->cancelled: return ETIMEDOUT; else do_io retries and connect asks
\* for SO_ERROR.
Check(f) ==
    /\ At(f, "check")
    /\ IF f \in cancelled \/ op[f].kind = "connect" THEN Finish(f)
                                                   ELSE GoTo(f, "try")
    /\ UNCHANGED <<kernelVars, ctxVars, waitVars, opn, fault>>

----------------------------------------------------------------------------
(* The event loop and the timer callbacks.                                 *)

EventFires(d, e) ==
    /\ OthersTurn
    /\ Live(d, e)
    /\ Trigger(d, {e})
    /\ UNCHANGED <<kernelVars, ctxVars, timer, cbs, cancelled, op, opn, fault>>

\* listExpiredCb() collects the callback, and it is scheduled.
TimerFires(f) ==
    /\ OthersTurn
    /\ f \in timer
    /\ timer' = timer \ {f}
    /\ cbs' = cbs \cup {[f |-> f, n |-> opn[f], kind |-> op[f].kind,
                         fd |-> op[f].fd, ev |-> op[f].ev, at |-> "queued"]}
    /\ UNCHANGED <<kernelVars, ctxVars, reg, runq, cancelled, op, opn, fault>>

\* The callback of a sleep: schedule(fiber).
CallbackSleep(c) ==
    /\ OthersTurn
    /\ c \in cbs /\ c.kind = "sleep"
    /\ cbs' = cbs \ {c}
    /\ runq' = runq \cup {c.f}
    /\ UNCHANGED <<kernelVars, ctxVars, reg, timer, cancelled, op, opn, fault>>

\* The timer_info lives as long as the call that made it.
Alive(c) == c.n = opn[c.f] /\ op[c.f].at # "out"

\* The callback of a wait: the timer_info is looked at and set ...
CallbackCheck(c) ==
    /\ OthersTurn
    /\ c \in cbs /\ c.kind # "sleep" /\ c.at = "queued"
    /\ \/ /\ Alive(c) /\ c.f \notin cancelled
          /\ cancelled' = cancelled \cup {c.f}
          /\ cbs' = (cbs \ {c}) \cup {[c EXCEPT !.at = "cancel"]}
       \/ /\ ~Alive(c) \/ c.f \in cancelled
          /\ cbs' = cbs \ {c}
          /\ UNCHANGED cancelled
    /\ UNCHANGED <<kernelVars, ctxVars, reg, runq, timer, op, opn, fault>>

\* ... and then the event is cancelled, whoever waits for it by now.
TimedOut_Nothing(c) == UNCHANGED <<reg, runq>>                  \* mutant
TimedOut(c) == CancelEvent(c.fd, c.ev)
CallbackCancel(c) ==
    /\ Turn({})
    /\ c \in cbs /\ c.at = "cancel"
    /\ TimedOut(c)
    /\ cbs' = cbs \ {c}
    /\ UNCHANGED <<kernelVars, ctxVars, timer, cancelled, op, opn, fault>>

----------------------------------------------------------------------------
(* Descriptors and their contexts.                                         *)

\* socket(), then as after accept() FdManager::get(fd, true): a look under
\* the read lock, the constructor, and the insert under the write lock.
Socket(f, d) ==
    /\ Begin(f, "socket", d, "READ", FALSE, "get")
    /\ OpenFd(d)
    /\ UNCHANGED <<nonblock, ctxVars, waitVars, opn, fault>>

Get(f) ==
    /\ At(f, "get")
    /\ IF op[f].fd \in m_datas THEN Finish(f) ELSE GoTo(f, "create")
    /\ UNCHANGED <<kernelVars, ctxVars, waitVars, opn, fault>>

\* FdCtx::init(): its fcntl() finds no context and reaches the kernel.
Create(f) ==
    /\ At(f, "create")
    /\ nonblock' = nonblock \cup {op[f].fd}
    /\ GoTo(f, "insert")
    /\ UNCHANGED <<open, inc, ctxVars, waitVars, opn, fault>>

Insert(f) ==
    LET d == op[f].fd IN
    /\ At(f, "insert")
    /\ m_datas' = m_datas \cup {d}
    /\ Finish(f)
    /\ UNCHANGED <<kernelVars, m_userNonblock, timeout, cleared, waitVars, opn, fault>>

\* close(), by a caller who may: once for one opening, and not before the
\* number was returned to anybody.
Close(f, d) ==
    /\ d \in open
    /\ \A g \in Fibers : op[g].at \in {"get", "create", "insert", "cancelAll",
                                      "del", "close_f"} => op[g].fd # d
    /\ Begin(f, "close", d, "READ", FALSE, IF d \in m_datas THEN "cancelAll" ELSE "close_f")
    /\ UNCHANGED <<kernelVars, ctxVars, waitVars, opn, fault>>

CloseCancelAll(f) ==
    /\ At(f, "cancelAll")
    /\ CancelAll(op[f].fd)
    /\ GoTo(f, "del")
    /\ UNCHANGED <<kernelVars, ctxVars, timer, cbs, cancelled, opn, fault>>

\* FdManager::del(): the context and what it says are gone.
CloseDel(f) ==
    LET d == op[f].fd IN
    /\ At(f, "del")
    /\ m_datas' = m_datas \ {d}
    /\ m_userNonblock' = m_userNonblock \ {d}
    /\ timeout' = [timeout EXCEPT ![d] = {}]
    /\ GoTo(f, "close_f")
    /\ UNCHANGED <<kernelVars, cleared, waitVars, opn, fault>>

CloseF(f) ==
    /\ At(f, "close_f")
    /\ open' = open \ {op[f].fd}
    /\ nonblock' = nonblock \ {op[f].fd}
    /\ cleared' = cleared \ {op[f].fd}
    /\ Finish(f)
    /\ UNCHANGED <<inc, m_datas, m_userNonblock, timeout, waitVars, opn, fault>>

\* fcntl(F_SETFL): the user's wish is noted, the kernel's flag stays on.
SetUser(d, b) == m_userNonblock' = IF b THEN m_userNonblock \cup {d}
                                        ELSE m_userNonblock \ {d}
SetFlag_User(d, b) == nonblock' = IF b THEN nonblock \cup {d} ELSE nonblock \ {d}  \* mutant
SetFlag(d, b) == nonblock' = nonblock \cup {d}
Fcntl(f, d, b) ==
    /\ At(f, "out") /\ Flags
    /\ d \in m_datas \cap open
    /\ SetUser(d, b)
    /\ SetFlag(d, b)
    /\ cleared' = cleared \ {d}
    /\ UNCHANGED <<open, inc, m_datas, timeout, waitVars, op, opn, fault>>

\* ioctl(FIONBIO): the same note, but the kernel gets what the user gave.
Ioctl(f, d, b) ==
    /\ At(f, "out") /\ Flags
    /\ d \in m_datas \cap open
    /\ SetUser(d, b)
    /\ nonblock' = IF b THEN nonblock \cup {d} ELSE nonblock \ {d}
    /\ cleared' = IF b THEN cleared \ {d} ELSE cleared \cup {d}
    /\ UNCHANGED <<open, inc, m_datas, timeout, waitVars, op, opn, fault>>

\* setsockopt(SO_RCVTIMEO), setsockopt(SO_SNDTIMEO).
SetSockOpt(f, d, e) ==
    /\ At(f, "out")
    /\ d \in m_datas
    /\ timeout' = [timeout EXCEPT ![d] = @ \cup {e}]
    /\ UNCHANGED <<kernelVars, m_datas, m_userNonblock, cleared, waitVars, op, opn, fault>>

----------------------------------------------------------------------------
\* The process has aborted, or each fiber has had its operations or waits.
Halted == /\ \/ fault # "none"
             \/ \A f \in Fibers : 
                  op[f].at = "parked" \/ (op[f].at = "out" /\ opn[f] = MaxWaits)
          /\ UNCHANGED vars

Next ==
    \/ \E f \in Fibers, d \in Fds :
          \/ \E e \in Events : DoIo(f, "io", d, e) \/ DoIo(f, "accept", d, e)
          \/ \E e \in Events : SetSockOpt(f, d, e)
          \/ \E b \in BOOLEAN : Connect(f, d, b) \/ Fcntl(f, d, b) \/ Ioctl(f, d, b)
          \/ Socket(f, d) \/ Close(f, d) \/ TryAccepted(f, d)
    \/ \E f \in Fibers :
          \/ Sleep(f) \/ TryDone(f) \/ TryAgain(f) \/ Arm(f) \/ AddEvent(f) \/ Yield(f)
          \/ Resume(f) \/ Woken(f) \/ Check(f) \/ Get(f) \/ Create(f)
          \/ Insert(f) \/ CloseCancelAll(f) \/ CloseDel(f) \/ CloseF(f)
          \/ TimerFires(f)
    \/ \E d \in Fds, e \in Events : EventFires(d, e)
    \/ \E c \in cbs : CallbackSleep(c) \/ CallbackCheck(c) \/ CallbackCancel(c)
    \/ Halted

Spec == Init /\ [][Next]_vars

----------------------------------------------------------------------------
(* Properties.                                                             *)

\* The variables have their types.
TypeOK ==
    /\ open \subseteq Fds /\ inc \in [Fds -> 0..MaxInc] /\ nonblock \subseteq Fds
    /\ m_datas \subseteq Fds /\ m_userNonblock \subseteq Fds /\ cleared \subseteq Fds
    /\ timeout \in [Fds -> SUBSET Events]
    /\ reg \in [Fds -> [Events -> Regs \cup {Null}]]
    /\ runq \subseteq Fibers /\ timer \subseteq Fibers /\ cancelled \subseteq Fibers
    /\ cbs \subseteq Callbacks
    /\ op \in [Fibers -> Ops \cup {NoOp}]
    /\ opn \in [Fibers -> 0..MaxWaits]
    /\ fault \in {"none", "duplicate"}

HeldAt(f, d, e) == reg[d][e] # Null /\ reg[d][e].f = f
Held(f) == \E d \in Fds, e \in Events : HeldAt(f, d, e)
Waiting(f) == op[f].at \in {"yield", "parked"}

\* A fiber is held by an event context, at most by one, only from addEvent()
\* until it is scheduled, and it is scheduled only while it waits: do_io
\* resumes once for each wait although the event, the timeout callback and
\* close() all may end it, and no timer outlives the wait it belongs to.
WaitSettled ==
    \A f \in Fibers :
       /\ f \in runq => Waiting(f) /\ ~Held(f)
       /\ Held(f) => Waiting(f)
       /\ \A d, b \in Fds, e, a \in Events :
             HeldAt(f, d, e) /\ HeldAt(f, b, a) => d = b /\ e = a
       /\ f \in timer => op[f].at \in {"add", "yield", "parked", "woken"}

\* A parked fiber can still be reached: it is scheduled, or held for an
\* event that epoll watches, or its sleep's timer or callback is to come.
ParkedReachable ==
    \A f \in Fibers : op[f].at = "parked" =>
       \/ f \in runq
       \/ op[f].kind = "sleep" /\ (f \in timer \/ \E c \in cbs : c.f = f /\ c.kind = "sleep")
       \/ \E d \in Fds, e \in Events : HeldAt(f, d, e) /\ Live(d, e)

\* A fiber parked with a timeout is scheduled, or its timer is armed, or the
\* callback that will cancel its event has not finished: it "waits for the
\* I/O event or the timeout".  Claimed of one scheduler thread: on another the
\* callback may run between the arming and addEvent(), and cancel nothing.
TimeoutPending ==
    \A f \in Fibers : op[f].at = "parked" /\ op[f].to =>
       \/ f \in runq \/ f \in timer
       \/ \E c \in cbs : c.f = f /\ c.n = opn[f]

\* A socket with a context is non-blocking in the kernel, so that no hooked
\* call stops a scheduler thread, whatever the user sets with fcntl(), and
\* across reuse of its number; ioctl(FIONBIO) alone can undo it.
ManagedNonblock == m_datas \subseteq nonblock \cup cleared
=============================================================================
