----------------------------- MODULE IOManager -----------------------------
(***************************************************************************)
(* The event registrations of src/awcotn/iomanager.{h,cc}: addEvent,       *)
(* delEvent, cancelEvent, cancelAll, the event loop of idle(), and close() *)
(* of src/awcotn/hook.cc, which ends every registration of a descriptor.   *)
(*                                                                         *)
(* Each operation looks its FdContext up under the table lock, releases    *)
(* that lock and then works under the mutex of the context, so an          *)
(* operation is two steps here (three when the table grows, and close()    *)
(* adds the system call).  The event loop takes its events from epoll_wait *)
(* and handles them one by one, each under the mutex of its context.       *)
(*                                                                         *)
(* Contexts are never freed before the destructor: a context that a resize *)
(* dropped from the table lives on where a pointer to it was kept.         *)
(***************************************************************************)
EXTENDS Integers, FiniteSets

CONSTANTS Fds,        \* descriptors
          InitSize,   \* 32, the size the constructor gives the table
          MaxGen,     \* bound: how often a table slot gets a new context
          Fibers,     \* callers; addEvent() without a callback parks one
          Cbs,        \* callbacks passed to addEvent()
          Pollers,    \* threads in idle()
          MaxEvents,  \* 64, the length of the epoll_wait array
          Calls,      \* which operations are used
          Hups,       \* may a descriptor report EPOLLERR or EPOLLHUP?
          Null

Operations == {"addEvent", "delEvent", "cancelEvent", "cancelAll", "close"}

\* resize(fd * 1.5) makes room for fd only from fd = 2 on.
ASSUME IOManagerAssumption ==
    /\ Fds \subseteq Nat /\ IsFiniteSet(Fds)
    /\ InitSize \in Nat /\ InitSize >= 2
    /\ MaxGen \in Nat /\ MaxEvents \in Nat
    /\ Null \notin Fibers \cup Cbs
    /\ Calls \subseteq Operations
    /\ Hups \in BOOLEAN

Events == {"READ", "WRITE"}
ERR == "ERR"                       \* EPOLLERR | EPOLLHUP
Waiters == Fibers \cup Cbs
Gens == 0..MaxGen
Contexts == Fds \X Gens            \* FdContext objects: slot and allocation

VARIABLES
    size, cur,             \* m_fdContexts: its size, and each slot's context
    events,                \* FdContext::events
    ctx,                   \* FdContext::read, write: who is to be scheduled
    m_pendingEventCount,
    open,                  \* the kernel: open descriptors ...
    interest,              \* ... and what m_epfd watches, with data.ptr
    call,                  \* each fiber: the operation it is inside
    batch,                 \* each poller: events not handled yet
    wstate,                \* "free", "armed", "queued" (in m_fibers) or
                           \* "dropped": a fiber nobody holds any more
    fault                  \* "none", or the assertion that aborted

tableVars == <<size, cur>>
regVars == <<events, ctx, m_pendingEventCount, wstate>>
kernelVars == <<open, interest>>
vars == <<tableVars, regVars, kernelVars, call, batch, fault>>

NoCall == [op |-> "none", at |-> "out"]
NoInterest == [gen |-> -1, ev |-> {}]

CallRecords ==
    {NoCall} \cup [op: Operations, at: {"have", "grow", "closing"},
                   fd: Fds, ev: Events, gen: Gens]
Interests == {NoInterest} \cup [gen: Gens, ev: (SUBSET Events) \ {{}}]
Notices == [of: Contexts, rev: SUBSET (Events \cup {ERR})]

Init ==
    /\ size = InitSize
    /\ cur = [fd \in Fds |-> 0]
    /\ events = [o \in Contexts |-> {}]
    /\ ctx = [o \in Contexts |-> [e \in Events |-> Null]]
    /\ m_pendingEventCount = 0
    /\ open = {}
    /\ interest = [fd \in Fds |-> NoInterest]
    /\ call = [f \in Fibers |-> NoCall]
    /\ batch = [p \in Pollers |-> {}]
    /\ wstate = [w \in Waiters |-> "free"]
    /\ fault = "none"

----------------------------------------------------------------------------
(* epoll_ctl, from how iomanager.cc uses it: ADD of a watched descriptor   *)
(* and MOD or DEL of an unwatched one fail, and so does any of them on a   *)
(* closed one.  op is MOD or DEL when the context has events and ADD when  *)
(* it has none.                                                            *)

CanAdd(o) == o[1] \in open /\ interest[o[1]] = NoInterest
CanMod(o) == o[1] \in open /\ interest[o[1]] # NoInterest

Watch(o, ev) ==
    interest' = [interest EXCEPT ![o[1]] = IF ev = {} THEN NoInterest
                                           ELSE [gen |-> o[2], ev |-> ev]]

----------------------------------------------------------------------------
(* The context table.                                                      *)

Slot(fd) == <<fd, cur[fd]>>

Enter(f, op, fd, ev, at) ==
    call' = [call EXCEPT ![f] = [op |-> op, at |-> at, fd |-> fd, ev |-> ev,
                                 gen |-> cur'[fd]]]
Leave(f) == call' = [call EXCEPT ![f] = NoCall]

\* The lookup under the read lock.  Out of range, addEvent() goes on to
\* grow the table and the others return false.
Lookup(f, op, fd, ev) ==
    /\ fault = "none"
    /\ op \in Calls
    /\ wstate[f] = "free" /\ call[f] = NoCall
    /\ UNCHANGED tableVars
    /\ \/ fd < size /\ Enter(f, op, fd, ev, "have")
       \/ fd >= size /\ op = "addEvent" /\ Enter(f, op, fd, ev, "grow")
       \/ fd >= size /\ op = "close" /\ Enter(f, op, fd, ev, "closing")
    /\ UNCHANGED <<regVars, kernelVars, batch, fault>>

\* contextResize(fd * 1.5): slots beyond the new size are dropped, and new
\* slots get new contexts.
Resize(n) ==
    /\ size' = n
    /\ cur' = [fd \in Fds |-> IF size <= fd /\ fd < n THEN cur[fd] + 1 ELSE cur[fd]]
    /\ \A fd \in Fds : cur'[fd] <= MaxGen

NewSize_Exact(fd) == fd                                         \* mutant
NewSize(fd) == (fd * 3) \div 2

\* Under the write lock, and without a second look at the size.
Grow(f) ==
    LET c == call[f] IN
    /\ fault = "none"
    /\ c.at = "grow"
    /\ Resize(NewSize(c.fd))
    /\ Enter(f, c.op, c.fd, c.ev, "have")
    /\ UNCHANGED <<regVars, kernelVars, batch, fault>>

----------------------------------------------------------------------------
(* The operations, under the mutex of the context.                         *)

Has(f, op) == fault = "none" /\ call[f].op = op /\ call[f].at = "have"
Ctx(f) == <<call[f].fd, call[f].gen>>

Fail(kind) == /\ fault' = kind
              /\ UNCHANGED <<tableVars, regVars, kernelVars, call, batch>>

\* An early return, or one after epoll_ctl failed.
Return(f) == /\ Leave(f)
             /\ UNCHANGED <<tableVars, regVars, kernelVars, batch, fault>>

\* The assignments of addEvent() after epoll_ctl.
CountUp_Missing == UNCHANGED m_pendingEventCount                \* mutant
CountUp == m_pendingEventCount' = m_pendingEventCount + 1

\* epevent.events of addEvent(): the events there are, and the new one.
EpEvents_New(o, e) == {e}                                       \* mutant
EpEvents(o, e) == events[o] \cup {e}

Register(o, e, w) ==
    /\ events' = [events EXCEPT ![o] = @ \cup {e}]
    /\ ctx' = [ctx EXCEPT ![o][e] = w]
    /\ wstate' = [wstate EXCEPT ![w] = "armed"]

\* addEvent(): the waiter is a callback, or the calling fiber itself, which
\* then parks.  epoll_ctl may also refuse an ADD for reasons of its own.
AddEvent(f) ==
    LET o == Ctx(f)
        e == call[f].ev
        ok == IF events[o] = {} THEN CanAdd(o) ELSE CanMod(o)
    IN
    /\ Has(f, "addEvent")
    /\ \/ e \in events[o] /\ Fail("duplicate")
       \/ e \notin events[o] /\ (~ok \/ events[o] = {}) /\ Return(f)
       \/ e \notin events[o] /\ ok /\ ctx[o][e] # Null /\ Fail("context")
       \/ /\ e \notin events[o] /\ ok /\ ctx[o][e] = Null
          /\ \E w \in {f} \cup Cbs : wstate[w] = "free" /\ Register(o, e, w)
          /\ CountUp
          /\ Watch(o, EpEvents(o, e))
          /\ Leave(f)
          /\ UNCHANGED <<tableVars, open, batch, fault>>

\* The contexts of es are emptied, and their waiters go to the state to[w].
Holds(o, es, w) == \E e \in es : ctx[o][e] = w

Release(o, es, to) ==
    /\ events' = [events EXCEPT ![o] = @ \ es]
    /\ ctx' = [ctx EXCEPT ![o] = [e \in Events |-> IF e \in es THEN Null ELSE @[e]]]
    /\ wstate' = [w \in Waiters |-> IF Holds(o, es, w) THEN to[w] ELSE wstate[w]]

\* triggerEvent() for each event of es: schedule() swaps the fiber or the
\* callback out of the context into m_fibers.
Queued == [w \in Waiters |-> "queued"]
Trigger_Copies(o, es) ==                                        \* mutant
    /\ events' = [events EXCEPT ![o] = @ \ es]
    /\ UNCHANGED ctx
    /\ wstate' = [w \in Waiters |-> IF Holds(o, es, w) THEN "queued" ELSE wstate[w]]
Trigger(o, es) == Release(o, es, Queued)

\* resetContext() frees a callback, and lets go of a fiber.
Dropped == [w \in Waiters |-> IF w \in Cbs THEN "free" ELSE "dropped"]
Reset_Keeps(o, es) ==                                           \* mutant
    /\ events' = [events EXCEPT ![o] = @ \ es]
    /\ UNCHANGED <<ctx, wstate>>
Reset(o, es) == Release(o, es, Dropped)

CountDown(n) == m_pendingEventCount' = m_pendingEventCount - n

DelEvent(f) ==
    LET o == Ctx(f)
        e == call[f].ev
    IN
    /\ Has(f, "delEvent")
    /\ \/ (e \notin events[o] \/ ~CanMod(o)) /\ Return(f)
       \/ /\ e \in events[o] /\ CanMod(o)
          /\ Reset(o, {e})
          /\ CountDown(1)
          /\ Watch(o, events[o] \ {e})
          /\ Leave(f)
          /\ UNCHANGED <<tableVars, open, batch, fault>>

CancelEvent(f) ==
    LET o == Ctx(f)
        e == call[f].ev
    IN
    /\ Has(f, "cancelEvent")
    /\ \/ (e \notin events[o] \/ ~CanMod(o)) /\ Return(f)
       \/ /\ e \in events[o] /\ CanMod(o)
          /\ Trigger(o, {e})
          /\ CountDown(1)
          /\ Watch(o, events[o] \ {e})
          /\ Leave(f)
          /\ UNCHANGED <<tableVars, open, batch, fault>>

\* cancelAll(), called as such or by close(), which then goes on.
AllDone(f) == IF call[f].op = "close" THEN call' = [call EXCEPT ![f].at = "closing"]
              ELSE Leave(f)

CancelAll(f) ==
    LET o == Ctx(f) IN
    /\ Has(f, "cancelAll") \/ Has(f, "close")
    /\ AllDone(f)
    /\ \/ /\ events[o] = {} \/ ~CanMod(o)
          /\ UNCHANGED <<regVars, interest>>
       \/ /\ events[o] # {} /\ CanMod(o)
          /\ Trigger(o, events[o])
          /\ CountDown(Cardinality(events[o]))
          /\ Watch(o, {})
    /\ UNCHANGED <<tableVars, open, batch, fault>>

\* close_f(fd): the kernel forgets what it watched.
CloseF(f) ==
    LET fd == call[f].fd IN
    /\ fault = "none"
    /\ call[f].at = "closing"
    /\ open' = open \ {fd}
    /\ interest' = [interest EXCEPT ![fd] = NoInterest]
    /\ Leave(f)
    /\ UNCHANGED <<tableVars, regVars, batch, fault>>

\* socket(), accept(): the number may be one that was closed before.
Open(f, fd) ==
    /\ fault = "none"
    /\ wstate[f] = "free" /\ call[f] = NoCall
    /\ fd \notin open
    /\ open' = open \cup {fd}
    /\ UNCHANGED <<tableVars, regVars, interest, call, batch, fault>>

\* The scheduler runs what was queued.
Resume(w) ==
    /\ fault = "none"
    /\ wstate[w] = "queued"
    /\ wstate' = [wstate EXCEPT ![w] = "free"]
    /\ UNCHANGED <<tableVars, events, ctx, m_pendingEventCount, kernelVars,
                   call, batch, fault>>

----------------------------------------------------------------------------
(* idle().                                                                 *)

Watched == {fd \in Fds : interest[fd] # NoInterest}
Reports(fd) == (SUBSET (interest[fd].ev \cup (IF Hups THEN {ERR} ELSE {}))) \ {{}}

\* epoll_wait(): up to 64 watched descriptors, or a timeout with none.
EpollWait(p) ==
    /\ fault = "none"
    /\ batch[p] = {}
    /\ \E S \in SUBSET Watched :
         /\ Cardinality(S) <= MaxEvents
         /\ \E rev \in [S -> SUBSET (Events \cup {ERR})] :
              /\ \A fd \in S : rev[fd] \in Reports(fd)
              /\ batch' = [batch EXCEPT ![p] =
                             {[of |-> <<fd, interest[fd].gen>>, rev |-> rev[fd]] : fd \in S}]
    /\ UNCHANGED <<tableVars, regVars, kernelVars, call, fault>>

real_events(n) == IF ERR \in n.rev THEN Events ELSE n.rev

Handled(p, n) == batch' = [batch EXCEPT ![p] = @ \ {n}]

\* Nothing registered that happened, or epoll_ctl failed: on to the next.
HandleNothing(p, n) ==
    /\ fault = "none"
    /\ n \in batch[p]
    /\ events[n.of] \cap real_events(n) = {} \/ ~CanMod(n.of)
    /\ Handled(p, n)
    /\ UNCHANGED <<tableVars, regVars, kernelVars, call, fault>>

\* triggerEvent() for each event of real_events, which asserts that it is
\* registered.
Handle(p, n) ==
    LET o == n.of
        real == real_events(n)
    IN
    /\ fault = "none"
    /\ n \in batch[p]
    /\ events[o] \cap real # {} /\ CanMod(o)
    /\ \/ ~(real \subseteq events[o]) /\ Fail("trigger")
       \/ /\ real \subseteq events[o]
          /\ Trigger(o, real)
          /\ CountDown(Cardinality(real))
          /\ Watch(o, events[o] \ real)
          /\ Handled(p, n)
          /\ UNCHANGED <<tableVars, open, call, fault>>

----------------------------------------------------------------------------
Halted == fault # "none" /\ UNCHANGED vars

Next ==
    \/ \E f \in Fibers, op \in Operations, fd \in Fds, e \in Events :
          Lookup(f, op, fd, e)
    \/ \E f \in Fibers : \/ Grow(f) \/ AddEvent(f) \/ DelEvent(f)
                         \/ CancelEvent(f) \/ CancelAll(f) \/ CloseF(f)
    \/ \E f \in Fibers, fd \in Fds : Open(f, fd)
    \/ \E w \in Waiters : Resume(w)
    \/ \E p \in Pollers : EpollWait(p)
    \/ \E p \in Pollers : \E n \in batch[p] : HandleNothing(p, n) \/ Handle(p, n)
    \/ Halted

Spec == Init /\ [][Next]_vars

----------------------------------------------------------------------------
(* Properties.                                                             *)

\* The variables have their types.
TypeOK ==
    /\ size \in Nat
    /\ cur \in [Fds -> Gens]
    /\ events \in [Contexts -> SUBSET Events]
    /\ ctx \in [Contexts -> [Events -> Waiters \cup {Null}]]
    /\ m_pendingEventCount \in Nat
    /\ open \subseteq Fds
    /\ interest \in [Fds -> Interests]
    /\ call \in [Fibers -> CallRecords]
    /\ batch \in [Pollers -> SUBSET Notices]
    /\ wstate \in [Waiters -> {"free", "armed", "queued", "dropped"}]
    /\ fault \in {"none", "duplicate", "context", "trigger"}

\* m_pendingEventCount, which keeps stopping() from letting the workers go,
\* is the number of events that are registered in any context.
Pending == {r \in Contexts \X Events : r[2] \in events[r[1]]}
CountMatches == m_pendingEventCount = Cardinality(Pending)

\* The context of an event is in use exactly while the event is registered;
\* hence the assertion of addEvent() on the context it fills never fails.
CtxIffRegistered ==
    \A o \in Contexts, e \in Events : ctx[o][e] # Null <=> e \in events[o]
CtxAssertHolds == CtxIffRegistered /\ fault # "context"

\* A waiter that parked is held by exactly one context, and one that was
\* scheduled or dropped by none: nobody is woken twice for one addEvent(),
\* and nobody parked is out of reach of every wake-up.
Held(o, e, w) == o \in Contexts /\ e \in Events /\ ctx[o][e] = w
WaiterHeldOnce ==
    \A w \in Waiters :
       /\ wstate[w] = "armed" <=> \E o \in Contexts, e \in Events : Held(o, e, w)
       /\ \A o, u \in Contexts, d, e \in Events :
             Held(o, d, w) /\ Held(u, e, w) => o = u /\ d = e

\* What epoll watches of a descriptor is what the context it points to has
\* registered: no notice is lost for want of interest, and no interest is
\* left behind by an operation that ended a registration.
InterestExact ==
    \A fd \in Fds :
       interest[fd] # NoInterest => events[<<fd, interest[fd].gen>>] = interest[fd].ev

\* triggerEvent() is called for registered events only.
TriggerAssertHolds == fault # "trigger"

\* A context with registered events is the one the table has for its
\* descriptor, where cancelEvent(), a timeout or close() will find it.
RegisteredInTable ==
    \A o \in Contexts : events[o] # {} => o[1] < size /\ o = Slot(o[1])
=============================================================================
