-------------------------- MODULE IOManagerProofs --------------------------
(***************************************************************************)
(* Proofs about IOManager, for every set of descriptors, callers,          *)
(* callbacks and event loops.                                              *)
(*                                                                         *)
(* RegInv is about the registrations (events, ctx, wstate and the counter) *)
(* and FrameTypes about everything else.  Every step either leaves the     *)
(* registrations alone, registers one event, releases some events of one   *)
(* context, or resumes a waiter; there is one lemma for each of these.     *)
(***************************************************************************)
EXTENDS IOManager, FiniteSetTheorems, TLAPS

WaiterStates == {"free", "armed", "queued", "dropped"}

RegTypes ==
    /\ events \in [Contexts -> SUBSET Events]
    /\ ctx \in [Contexts -> [Events -> Waiters \cup {Null}]]
    /\ wstate \in [Waiters -> WaiterStates]

\* What is inductive.
IndInv == TypeOK /\ CountMatches /\ CtxAssertHolds /\ WaiterHeldOnce

RegInv == RegTypes /\ CountMatches /\ CtxIffRegistered /\ WaiterHeldOnce

FrameTypes ==
    /\ size \in Nat
    /\ cur \in [Fds -> Gens]
    /\ open \subseteq Fds
    /\ interest \in [Fds -> Interests]
    /\ call \in [Fibers -> CallRecords]
    /\ batch \in [Pollers -> SUBSET Notices]
    /\ fault \in {"none", "duplicate", "trigger"}

\* Some events of a context are released: its waiters are armed no more.
Releases(o, es) ==
    /\ o \in Contexts /\ es \subseteq events[o]
    /\ events' = [events EXCEPT ![o] = @ \ es]
    /\ ctx' = [ctx EXCEPT ![o] = [e \in Events |-> IF e \in es THEN Null ELSE @[e]]]
    /\ wstate' \in [Waiters -> WaiterStates]
    /\ \A w \in Waiters : IF Holds(o, es, w) THEN wstate'[w] # "armed"
                                             ELSE wstate'[w] = wstate[w]
    /\ m_pendingEventCount' = m_pendingEventCount - Cardinality(es)

\* One event of a context gets a waiter.
Registers(o, e, w) ==
    /\ o \in Contexts /\ e \in Events \ events[o]
    /\ w \in Waiters /\ wstate[w] = "free" /\ ctx[o][e] = Null
    /\ Register(o, e, w)
    /\ m_pendingEventCount' = m_pendingEventCount + 1

\* There are finitely many registrations.
LEMMA PendingFinite == IsFiniteSet(Pending)
<1>1. IsFiniteSet(Gens)
  BY FS_Interval, IOManagerAssumption DEF Gens
<1>2. IsFiniteSet(Contexts)
  BY <1>1, FS_Product, IOManagerAssumption DEF Contexts
<1>3. IsFiniteSet(Events)
  <2>1. IsFiniteSet({"READ"} \cup {"WRITE"})
    BY FS_Singleton, FS_Union
  <2>2. Events = {"READ"} \cup {"WRITE"}
    BY DEF Events
  <2> QED
    BY <2>1, <2>2
<1>4. IsFiniteSet(Contexts \X Events)
  BY <1>2, <1>3, FS_Product
<1>5. Pending \in SUBSET (Contexts \X Events)
  BY DEF Pending
<1> QED
  BY <1>4, <1>5, FS_Subset

\* The counter is a natural number, so the size_t never wraps around.
LEMMA CountNat == CountMatches => m_pendingEventCount \in Nat
BY PendingFinite, FS_CardinalityType DEF CountMatches

\* Registering an event that was not registered adds one to the pending ones.
LEMMA RegistersCount ==
  ASSUME RegTypes, CountMatches, NEW o, NEW e, NEW w, Registers(o, e, w)
  PROVE  CountMatches'
<1>1. o \in Contexts /\ e \in Events /\ e \notin events[o]
  BY DEF Registers
<1>2. events' = [events EXCEPT ![o] = @ \cup {e}]
  BY DEF Registers, Register
<1>3. events \in [Contexts -> SUBSET Events]
  BY DEF RegTypes
<1>4. ASSUME NEW u \in Contexts
      PROVE  events'[u] = IF u = o THEN events[o] \cup {e} ELSE events[u]
  BY <1>2, <1>3
<1>5. Pending' = Pending \cup {<<o, e>>}
  BY <1>1, <1>4 DEF Pending
<1>6. <<o, e>> \notin Pending
  BY <1>1 DEF Pending
<1>7. Cardinality(Pending') = Cardinality(Pending) + 1
  BY <1>5, <1>6, PendingFinite, FS_AddElement
<1>8. m_pendingEventCount' = m_pendingEventCount + 1
  BY DEF Registers
<1> QED
  BY <1>7, <1>8 DEF CountMatches

\* Releasing registered events takes as many from the pending ones.
LEMMA ReleasesCount ==
  ASSUME RegTypes, CountMatches, NEW o, NEW es, Releases(o, es)
  PROVE  CountMatches'
<1> DEFINE R == {o} \X es
<1>1. o \in Contexts /\ es \subseteq events[o]
  BY DEF Releases
<1>2. events' = [events EXCEPT ![o] = @ \ es]
  BY DEF Releases
<1>3. events \in [Contexts -> SUBSET Events]
  BY DEF RegTypes
<1>4. ASSUME NEW u \in Contexts
      PROVE  events'[u] = IF u = o THEN events[o] \ es ELSE events[u]
  BY <1>2, <1>3
<1>5. Pending' = Pending \ R
  BY <1>1, <1>4 DEF Pending
<1>6. Pending \cap R = R
  BY <1>1, <1>3 DEF Pending
<1>7. IsFiniteSet(es)
  <2>1. IsFiniteSet({"READ"} \cup {"WRITE"})
    BY FS_Singleton, FS_Union
  <2>2. es \in SUBSET ({"READ"} \cup {"WRITE"})
    BY <1>1, <1>3 DEF Events
  <2> QED
    BY <2>1, <2>2, FS_Subset
<1>8. Cardinality(R) = Cardinality(es)
  <2>1. IsFiniteSet({o}) /\ Cardinality({o}) = 1
    BY FS_Singleton
  <2>2. Cardinality(R) = Cardinality({o}) * Cardinality(es)
    BY <2>1, <1>7, FS_Product
  <2>3. Cardinality(es) \in Nat
    BY <1>7, FS_CardinalityType
  <2> QED
    BY <2>1, <2>2, <2>3
<1>9. Cardinality(Pending \ R) = Cardinality(Pending) - Cardinality(Pending \cap R)
  BY PendingFinite, FS_Difference
<1>10. m_pendingEventCount' = m_pendingEventCount - Cardinality(es)
  BY DEF Releases
<1> QED
  BY <1>5, <1>6, <1>8, <1>9, <1>10 DEF CountMatches

\* A registration keeps RegInv.
LEMMA RegistersKeeps ==
  ASSUME RegInv, NEW o, NEW e, NEW w, Registers(o, e, w)
  PROVE  RegInv'
<1>1. /\ o \in Contexts /\ e \in Events /\ e \notin events[o]
      /\ w \in Waiters /\ wstate[w] = "free" /\ ctx[o][e] = Null
  BY DEF Registers
<1>2. /\ events' = [events EXCEPT ![o] = @ \cup {e}]
      /\ ctx' = [ctx EXCEPT ![o][e] = w]
      /\ wstate' = [wstate EXCEPT ![w] = "armed"]
  BY DEF Registers, Register
<1>3. RegTypes
  BY DEF RegInv
<1>4. RegTypes'
  BY <1>1, <1>2, <1>3 DEF RegTypes, WaiterStates
<1>5. ASSUME NEW u \in Contexts, NEW d \in Events
      PROVE  /\ ctx'[u][d] = IF u = o /\ d = e THEN w ELSE ctx[u][d]
             /\ d \in events'[u] <=> d \in events[u] \/ (u = o /\ d = e)
  BY <1>1, <1>2, <1>3 DEF RegTypes
<1>6. w # Null
  BY <1>1, IOManagerAssumption DEF Waiters
<1>7. CtxIffRegistered'
  BY <1>5, <1>6 DEF CtxIffRegistered, RegInv
<1>8. WaiterHeldOnce'
  <2>1. ASSUME NEW u \in Contexts, NEW d \in Events
        PROVE  ctx[u][d] # w
    BY <1>1 DEF RegInv, WaiterHeldOnce, Held
  <2>2. \A v \in Waiters : wstate'[v] = IF v = w THEN "armed" ELSE wstate[v]
    BY <1>2, <1>3 DEF RegTypes
  <2>3. SUFFICES ASSUME NEW v \in Waiters
        PROVE  /\ wstate'[v] = "armed" <=>
                     \E u \in Contexts, d \in Events : ctx'[u][d] = v
               /\ \A u, x \in Contexts, d, y \in Events :
                     ctx'[u][d] = v /\ ctx'[x][y] = v => u = x /\ d = y
    BY DEF WaiterHeldOnce, Held
  <2>4. CASE v = w
    BY <2>4, <2>1, <2>2, <1>1, <1>5
  <2>5. CASE v # w
    <3>1. /\ wstate[v] = "armed" <=>
               \E u \in Contexts, d \in Events : ctx[u][d] = v
          /\ \A u, x \in Contexts, d, y \in Events :
               ctx[u][d] = v /\ ctx[x][y] = v => u = x /\ d = y
      BY DEF RegInv, WaiterHeldOnce, Held
    <3>2. v # Null
      BY IOManagerAssumption DEF Waiters
    <3>3. \A u \in Contexts, d \in Events : ctx'[u][d] = v <=> ctx[u][d] = v
      BY <2>5, <1>1, <1>5, <3>2
    <3>4. wstate'[v] = wstate[v]
      BY <2>2, <2>5
    <3> QED
      BY <3>1, <3>3, <3>4
  <2> QED
    BY <2>4, <2>5
<1>9. CountMatches'
  BY <1>3, RegistersCount DEF RegInv
<1> QED
  BY <1>4, <1>7, <1>8, <1>9 DEF RegInv

\* So does a release.
LEMMA ReleasesKeeps ==
  ASSUME RegInv, NEW o, NEW es, Releases(o, es)
  PROVE  RegInv'
<1>1. o \in Contexts /\ es \subseteq events[o]
  BY DEF Releases
<1>2. /\ events' = [events EXCEPT ![o] = @ \ es]
      /\ ctx' = [ctx EXCEPT ![o] = [e \in Events |-> IF e \in es THEN Null ELSE @[e]]]
      /\ wstate' \in [Waiters -> WaiterStates]
  BY DEF Releases
<1>3. RegTypes
  BY DEF RegInv
<1>4. RegTypes'
  BY <1>1, <1>2, <1>3 DEF RegTypes
<1>5. ASSUME NEW u \in Contexts, NEW d \in Events
      PROVE  /\ ctx'[u][d] = IF u = o /\ d \in es THEN Null ELSE ctx[u][d]
             /\ d \in events'[u] <=> d \in events[u] /\ ~(u = o /\ d \in es)
  BY <1>1, <1>2, <1>3 DEF RegTypes
<1>6. CtxIffRegistered'
  BY <1>5 DEF CtxIffRegistered, RegInv
<1>7. WaiterHeldOnce'
  <2>1. SUFFICES ASSUME NEW v \in Waiters
        PROVE  /\ wstate'[v] = "armed" <=>
                     \E u \in Contexts, d \in Events : ctx'[u][d] = v
               /\ \A u, x \in Contexts, d, y \in Events :
                     ctx'[u][d] = v /\ ctx'[x][y] = v => u = x /\ d = y
    BY DEF WaiterHeldOnce, Held
  <2>2. /\ wstate[v] = "armed" <=>
             \E u \in Contexts, d \in Events : ctx[u][d] = v
        /\ \A u, x \in Contexts, d, y \in Events :
             ctx[u][d] = v /\ ctx[x][y] = v => u = x /\ d = y
    BY DEF RegInv, WaiterHeldOnce, Held
  <2>3. v # Null
    BY IOManagerAssumption DEF Waiters
  <2>4. \A u \in Contexts, d \in Events :
           ctx'[u][d] = v <=> ctx[u][d] = v /\ ~(u = o /\ d \in es)
    BY <1>5, <2>3
  <2>5. es \subseteq Events
    BY <1>1, <1>3 DEF RegTypes
  <2>6. CASE Holds(o, es, v)
    <3>1. PICK e \in es : ctx[o][e] = v
      BY <2>6 DEF Holds
    <3>2. wstate'[v] # "armed"
      BY <2>6 DEF Releases
    <3>3. \A u \in Contexts, d \in Events : ctx'[u][d] # v
      BY <3>1, <2>2, <2>4, <2>5, <1>1
    <3> QED
      BY <3>2, <3>3
  <2>7. CASE ~Holds(o, es, v)
    <3>1. wstate'[v] = wstate[v]
      BY <2>7 DEF Releases
    <3>2. \A u \in Contexts, d \in Events : ctx'[u][d] = v <=> ctx[u][d] = v
      BY <2>7, <2>4 DEF Holds
    <3> QED
      BY <3>1, <3>2, <2>2
  <2> QED
    BY <2>6, <2>7
<1>8. CountMatches'
  BY <1>3, ReleasesCount DEF RegInv
<1> QED
  BY <1>4, <1>6, <1>7, <1>8 DEF RegInv

\* And so does a step that changes nothing, or only a queued waiter's state.
LEMMA ResumeKeeps ==
  ASSUME RegInv, UNCHANGED <<events, ctx, m_pendingEventCount>>,
         wstate' \in [Waiters -> WaiterStates],
         \A w \in Waiters : wstate'[w] = "armed" <=> wstate[w] = "armed"
  PROVE  RegInv'
<1>1. RegTypes'
  BY DEF RegInv, RegTypes
<1>2. CountMatches' /\ CtxIffRegistered'
  BY DEF RegInv, CountMatches, Pending, CtxIffRegistered
<1>3. WaiterHeldOnce'
  BY DEF RegInv, WaiterHeldOnce, Held
<1> QED
  BY <1>1, <1>2, <1>3 DEF RegInv

\* In particular a step that leaves the registrations alone.
LEMMA SameKeeps ==
  ASSUME RegInv, UNCHANGED regVars
  PROVE  RegInv'
BY ResumeKeeps DEF RegInv, RegTypes, regVars

\* IndInv is RegInv and FrameTypes: the counter's type is CountNat.
LEMMA IndInvSplit == IndInv <=> RegInv /\ FrameTypes
<1>1. ASSUME IndInv PROVE RegInv /\ FrameTypes
  <2>1. TypeOK /\ CountMatches /\ CtxAssertHolds /\ WaiterHeldOnce
    BY <1>1 DEF IndInv
  <2>2. RegTypes
    BY <2>1 DEF TypeOK, RegTypes, WaiterStates
  <2>3. CtxIffRegistered /\ fault # "context"
    BY <2>1 DEF CtxAssertHolds
  <2>4. FrameTypes
    BY <2>1, <2>3 DEF TypeOK, FrameTypes
  <2> QED
    BY <2>1, <2>2, <2>3, <2>4 DEF RegInv
<1>2. ASSUME RegInv, FrameTypes PROVE IndInv
  <2>1. m_pendingEventCount \in Nat
    BY <1>2, CountNat DEF RegInv
  <2>2. TypeOK
    BY <1>2, <2>1 DEF RegInv, RegTypes, FrameTypes, TypeOK, WaiterStates
  <2>3. CtxAssertHolds
    BY <1>2 DEF RegInv, FrameTypes, CtxAssertHolds
  <2> QED
    BY <1>2, <2>2, <2>3 DEF IndInv, RegInv
<1> QED
  BY <1>1, <1>2

\* A call that found its context has one.
LEMMA CallTypes ==
  ASSUME FrameTypes, NEW f \in Fibers, call[f].at # "out"
  PROVE  /\ call[f] \in [op: Operations, at: {"have", "grow", "closing"},
                         fd: Fds, ev: Events, gen: Gens]
         /\ Ctx(f) \in Contexts /\ Ctx(f)[1] \in Fds
<1>1. call[f] \in CallRecords
  BY DEF FrameTypes
<1>2. call[f] # NoCall
  BY DEF NoCall
<1>3. call[f] \in [op: Operations, at: {"have", "grow", "closing"},
                   fd: Fds, ev: Events, gen: Gens]
  BY <1>1, <1>2 DEF CallRecords
<1> QED
  BY <1>3 DEF Ctx, Contexts

\* epoll_ctl leaves a well-formed interest.
LEMMA WatchTypes ==
  ASSUME FrameTypes, NEW o \in Contexts, NEW ev \in SUBSET Events, Watch(o, ev)
  PROVE  interest' \in [Fds -> Interests]
<1>1. o[1] \in Fds /\ o[2] \in Gens
  BY DEF Contexts
<1>2. (IF ev = {} THEN NoInterest ELSE [gen |-> o[2], ev |-> ev]) \in Interests
  BY <1>1 DEF Interests
<1>3. interest \in [Fds -> Interests]
  BY DEF FrameTypes
<1> QED
  BY <1>2, <1>3 DEF Watch

\* Entering and leaving a call.
LEMMA EnterTypes ==
  ASSUME FrameTypes, NEW f \in Fibers, NEW op \in Operations, NEW fd \in Fds,
         NEW e \in Events, NEW at \in {"have", "grow", "closing"},
         cur' \in [Fds -> Gens], Enter(f, op, fd, e, at)
  PROVE  call' \in [Fibers -> CallRecords]
<1>1. [op |-> op, at |-> at, fd |-> fd, ev |-> e, gen |-> cur'[fd]] \in CallRecords
  BY DEF CallRecords
<1>2. call \in [Fibers -> CallRecords]
  BY DEF FrameTypes
<1> QED
  BY <1>1, <1>2 DEF Enter

\* Leaving one.
LEMMA LeaveTypes ==
  ASSUME FrameTypes, NEW f \in Fibers, Leave(f)
  PROVE  call' \in [Fibers -> CallRecords]
BY DEF FrameTypes, Leave, CallRecords

\* An early return keeps the invariant, and an assertion that aborts too.
LEMMA ReturnKeeps ==
  ASSUME RegInv, FrameTypes, NEW f \in Fibers, Return(f)
  PROVE  RegInv' /\ FrameTypes'
<1>1. Leave(f) /\ UNCHANGED <<tableVars, regVars, kernelVars, batch, fault>>
  BY DEF Return
<1> QED
  BY <1>1, LeaveTypes, SameKeeps DEF FrameTypes, tableVars, kernelVars

\* ... as long as it is not the assertion on the context.
LEMMA FailKeeps ==
  ASSUME RegInv, FrameTypes, NEW kind \in {"duplicate", "trigger"}, Fail(kind)
  PROVE  RegInv' /\ FrameTypes'
BY SameKeeps DEF Fail, FrameTypes, tableVars, kernelVars

\* triggerEvent() releases.
LEMMA TriggerReleases ==
  ASSUME RegInv, NEW o \in Contexts, NEW es \in SUBSET events[o],
         Trigger(o, es), CountDown(Cardinality(es))
  PROVE  Releases(o, es)
<1>1. /\ events' = [events EXCEPT ![o] = @ \ es]
      /\ ctx' = [ctx EXCEPT ![o] = [e \in Events |-> IF e \in es THEN Null ELSE @[e]]]
      /\ wstate' = [w \in Waiters |-> IF Holds(o, es, w) THEN "queued" ELSE wstate[w]]
  BY DEF Trigger, Release, Queued
<1>2. wstate \in [Waiters -> WaiterStates]
  BY DEF RegInv, RegTypes
<1>3. wstate' \in [Waiters -> WaiterStates]
  BY <1>1, <1>2 DEF WaiterStates
<1>4. \A w \in Waiters : IF Holds(o, es, w) THEN wstate'[w] # "armed"
                                           ELSE wstate'[w] = wstate[w]
  BY <1>1
<1> QED
  BY <1>1, <1>3, <1>4 DEF Releases, CountDown

\* And so does resetContext().
LEMMA ResetReleases ==
  ASSUME RegInv, NEW o \in Contexts, NEW es \in SUBSET events[o],
         Reset(o, es), CountDown(Cardinality(es))
  PROVE  Releases(o, es)
<1>1. /\ events' = [events EXCEPT ![o] = @ \ es]
      /\ ctx' = [ctx EXCEPT ![o] = [e \in Events |-> IF e \in es THEN Null ELSE @[e]]]
      /\ wstate' = [w \in Waiters |->
                      IF Holds(o, es, w) THEN IF w \in Cbs THEN "free" ELSE "dropped"
                      ELSE wstate[w]]
  BY DEF Reset, Release, Dropped
<1>2. wstate \in [Waiters -> WaiterStates]
  BY DEF RegInv, RegTypes
<1>3. wstate' \in [Waiters -> WaiterStates]
  BY <1>1, <1>2 DEF WaiterStates
<1>4. \A w \in Waiters : IF Holds(o, es, w) THEN wstate'[w] # "armed"
                                           ELSE wstate'[w] = wstate[w]
  BY <1>1
<1> QED
  BY <1>1, <1>3, <1>4 DEF Releases, CountDown

\* The lookup and the growth of the table keep the invariant.
LEMMA TableSteps ==
  ASSUME RegInv, FrameTypes, NEW f \in Fibers,
         \/ Grow(f)
         \/ \E op \in Operations, fd \in Fds, e \in Events : Lookup(f, op, fd, e)
  PROVE  RegInv' /\ FrameTypes'
<1>1. CASE Grow(f)
  <2> DEFINE c == call[f]
  <2>1. /\ c.at = "grow"
        /\ Resize(NewSize(c.fd))
        /\ Enter(f, c.op, c.fd, c.ev, "have")
        /\ UNCHANGED <<regVars, kernelVars, batch, fault>>
    BY <1>1 DEF Grow
  <2>2. c.op \in Operations /\ c.fd \in Fds /\ c.ev \in Events
    BY <2>1, CallTypes
  <2>3. size' \in Nat
    <3>1. c.fd \in Nat
      BY <2>2, IOManagerAssumption
    <3> QED
      BY <2>1, <3>1 DEF Resize, NewSize
  <2>4. cur' \in [Fds -> Gens]
    <3>1. cur \in [Fds -> Gens] /\ MaxGen \in Nat
      BY IOManagerAssumption DEF FrameTypes
    <3>2. /\ cur' = [fd \in Fds |-> IF size <= fd /\ fd < NewSize(c.fd)
                                    THEN cur[fd] + 1 ELSE cur[fd]]
          /\ \A fd \in Fds : cur'[fd] <= MaxGen
      BY <2>1 DEF Resize
    <3>3. \A fd \in Fds : cur'[fd] \in Nat
      BY <3>1, <3>2 DEF Gens
    <3> QED
      BY <3>1, <3>2, <3>3 DEF Gens
  <2>5. call' \in [Fibers -> CallRecords]
    BY <2>1, <2>2, <2>4, EnterTypes
  <2> QED
    BY <2>1, <2>3, <2>4, <2>5, SameKeeps DEF FrameTypes, kernelVars
<1>2. ASSUME NEW op \in Operations, NEW fd \in Fds, NEW e \in Events,
             Lookup(f, op, fd, e)
      PROVE  RegInv' /\ FrameTypes'
  <2>1. UNCHANGED <<tableVars, regVars, kernelVars, batch, fault>>
    BY <1>2 DEF Lookup
  <2>2. cur' \in [Fds -> Gens]
    BY <2>1 DEF FrameTypes, tableVars
  <2>3. \E at \in {"have", "grow", "closing"} : Enter(f, op, fd, e, at)
    BY <1>2 DEF Lookup
  <2>4. call' \in [Fibers -> CallRecords]
    BY <2>2, <2>3, EnterTypes
  <2> QED
    BY <2>1, <2>4, SameKeeps DEF FrameTypes, tableVars, kernelVars
<1> QED
  BY <1>1, <1>2

\* addEvent() keeps the invariant; its assertion on the context holds.
LEMMA AddEventKeeps ==
  ASSUME RegInv, FrameTypes, NEW f \in Fibers, AddEvent(f)
  PROVE  RegInv' /\ FrameTypes'
<1> DEFINE o == Ctx(f)
           e == call[f].ev
<1>1. call[f].at = "have"
  BY DEF AddEvent, Has
<1>2. o \in Contexts /\ e \in Events
  BY <1>1, CallTypes
<1>3. CASE e \in events[o] /\ Fail("duplicate")
  BY <1>3, FailKeeps
<1>4. CASE Return(f)
  BY <1>4, ReturnKeeps
<1>5. CASE e \notin events[o] /\ ctx[o][e] # Null
  BY <1>2, <1>5 DEF RegInv, CtxIffRegistered
<1>6. CASE /\ e \notin events[o] /\ ctx[o][e] = Null
           /\ \E w \in {f} \cup Cbs : wstate[w] = "free" /\ Register(o, e, w)
           /\ CountUp
           /\ Watch(o, EpEvents(o, e))
           /\ Leave(f)
           /\ UNCHANGED <<tableVars, open, batch, fault>>
  <2>1. PICK w \in {f} \cup Cbs : wstate[w] = "free" /\ Register(o, e, w)
    BY <1>6
  <2>2. w \in Waiters
    BY DEF Waiters
  <2>3. Registers(o, e, w)
    BY <1>2, <1>6, <2>1, <2>2 DEF Registers, CountUp
  <2>4. RegInv'
    BY <2>3, RegistersKeeps
  <2>5. EpEvents(o, e) \in SUBSET Events
    BY <1>2 DEF RegInv, RegTypes, EpEvents
  <2>6. interest' \in [Fds -> Interests]
    BY <1>2, <1>6, <2>5, WatchTypes
  <2>7. call' \in [Fibers -> CallRecords]
    BY <1>6, LeaveTypes
  <2> QED
    BY <1>6, <2>4, <2>6, <2>7 DEF FrameTypes, tableVars
<1> QED
  BY <1>3, <1>4, <1>5, <1>6 DEF AddEvent

\* delEvent() and cancelEvent() release one registered event.
LEMMA OneEventKeeps ==
  ASSUME RegInv, FrameTypes, NEW f \in Fibers, DelEvent(f) \/ CancelEvent(f)
  PROVE  RegInv' /\ FrameTypes'
<1> DEFINE o == Ctx(f)
           e == call[f].ev
<1>1. call[f].at = "have"
  BY DEF DelEvent, CancelEvent, Has
<1>2. o \in Contexts /\ e \in Events
  BY <1>1, CallTypes
<1>3. CASE Return(f)
  BY <1>3, ReturnKeeps
<1>4. CASE /\ e \in events[o]
           /\ Reset(o, {e}) \/ Trigger(o, {e})
           /\ CountDown(1)
           /\ Watch(o, events[o] \ {e})
           /\ Leave(f)
           /\ UNCHANGED <<tableVars, open, batch, fault>>
  <2>1. Cardinality({e}) = 1 /\ {e} \in SUBSET events[o]
    BY <1>4, FS_Singleton
  <2>2. CountDown(Cardinality({e}))
    BY <1>4, <2>1
  <2>3. Releases(o, {e})
    BY <1>2, <1>4, <2>1, <2>2, ResetReleases, TriggerReleases
  <2>4. RegInv'
    BY <2>3, ReleasesKeeps
  <2>5. events[o] \ {e} \in SUBSET Events
    BY <1>2 DEF RegInv, RegTypes
  <2>6. interest' \in [Fds -> Interests]
    BY <1>2, <1>4, <2>5, WatchTypes
  <2>7. call' \in [Fibers -> CallRecords]
    BY <1>4, LeaveTypes
  <2> QED
    BY <1>4, <2>4, <2>6, <2>7 DEF FrameTypes, tableVars
<1> QED
  BY <1>3, <1>4 DEF DelEvent, CancelEvent

\* cancelAll() releases all of them.
LEMMA CancelAllKeeps ==
  ASSUME RegInv, FrameTypes, NEW f \in Fibers, CancelAll(f)
  PROVE  RegInv' /\ FrameTypes'
<1> DEFINE o == Ctx(f)
<1>1. call[f].at = "have"
  BY DEF CancelAll, Has
<1>2. o \in Contexts
  BY <1>1, CallTypes
<1>3. AllDone(f) /\ UNCHANGED <<tableVars, open, batch, fault>>
  BY DEF CancelAll
<1>4. call' \in [Fibers -> CallRecords]
  <2>1. CASE Leave(f)
    BY <2>1, LeaveTypes
  <2>2. CASE call' = [call EXCEPT ![f].at = "closing"]
    <3>1. call[f] \in [op: Operations, at: {"have", "grow", "closing"},
                       fd: Fds, ev: Events, gen: Gens]
      BY <1>1, CallTypes
    <3>2. [call[f] EXCEPT !.at = "closing"] \in CallRecords
      BY <3>1 DEF CallRecords
    <3>3. call \in [Fibers -> CallRecords]
      BY DEF FrameTypes
    <3> QED
      BY <2>2, <3>2, <3>3
  <2> QED
    BY <1>3, <2>1, <2>2 DEF AllDone
<1>5. CASE UNCHANGED <<regVars, interest>>
  BY <1>3, <1>4, <1>5, SameKeeps DEF FrameTypes, tableVars
<1>6. CASE /\ Trigger(o, events[o])
           /\ CountDown(Cardinality(events[o]))
           /\ Watch(o, {})
  <2>1. RegInv'
    BY <1>2, <1>6, TriggerReleases, ReleasesKeeps
  <2>2. interest' \in [Fds -> Interests]
    BY <1>2, <1>6, WatchTypes
  <2> QED
    BY <1>3, <1>4, <2>1, <2>2 DEF FrameTypes, tableVars
<1> QED
  BY <1>5, <1>6 DEF CancelAll

\* close_f(), socket() and the scheduler's resumption.
LEMMA OtherCallerSteps ==
  ASSUME RegInv, FrameTypes,
         \/ \E f \in Fibers : CloseF(f)
         \/ \E f \in Fibers, fd \in Fds : Open(f, fd)
         \/ \E w \in Waiters : Resume(w)
  PROVE  RegInv' /\ FrameTypes'
<1>1. ASSUME NEW f \in Fibers, CloseF(f)
      PROVE  RegInv' /\ FrameTypes'
  <2>1. /\ open' = open \ {call[f].fd}
        /\ interest' = [interest EXCEPT ![call[f].fd] = NoInterest]
        /\ Leave(f)
        /\ UNCHANGED <<tableVars, regVars, batch, fault>>
    BY <1>1 DEF CloseF
  <2>2. call' \in [Fibers -> CallRecords]
    BY <2>1, LeaveTypes
  <2> QED
    BY <2>1, <2>2, SameKeeps DEF FrameTypes, tableVars, Interests
<1>2. ASSUME NEW f \in Fibers, NEW fd \in Fds, Open(f, fd)
      PROVE  RegInv' /\ FrameTypes'
  <2>1. /\ open' = open \cup {fd}
        /\ UNCHANGED <<tableVars, regVars, interest, call, batch, fault>>
    BY <1>2 DEF Open
  <2> QED
    BY <2>1, SameKeeps DEF FrameTypes, tableVars
<1>3. ASSUME NEW w \in Waiters, Resume(w)
      PROVE  RegInv' /\ FrameTypes'
  <2>1. /\ wstate[w] = "queued"
        /\ wstate' = [wstate EXCEPT ![w] = "free"]
        /\ UNCHANGED <<tableVars, events, ctx, m_pendingEventCount, kernelVars,
                       call, batch, fault>>
    BY <1>3 DEF Resume
  <2>2. wstate \in [Waiters -> WaiterStates]
    BY DEF RegInv, RegTypes
  <2>3. /\ wstate' \in [Waiters -> WaiterStates]
        /\ \A v \in Waiters : wstate'[v] = "armed" <=> wstate[v] = "armed"
    BY <2>1, <2>2 DEF WaiterStates
  <2>4. RegInv'
    BY <2>1, <2>3, ResumeKeeps
  <2> QED
    BY <2>1, <2>4 DEF FrameTypes, tableVars, kernelVars
<1> QED
  BY <1>1, <1>2, <1>3

\* epoll_wait() yields notices about contexts.
LEMMA EpollWaitKeeps ==
  ASSUME RegInv, FrameTypes, NEW p \in Pollers, EpollWait(p)
  PROVE  RegInv' /\ FrameTypes'
<1>1. UNCHANGED <<tableVars, regVars, kernelVars, call, fault>>
  BY DEF EpollWait
<1>2. PICK S \in SUBSET Watched :
        \E rev \in [S -> SUBSET (Events \cup {ERR})] :
          batch' = [batch EXCEPT ![p] =
                      {[of |-> <<fd, interest[fd].gen>>, rev |-> rev[fd]] : fd \in S}]
  BY DEF EpollWait
<1>3. PICK rev \in [S -> SUBSET (Events \cup {ERR})] :
        batch' = [batch EXCEPT ![p] =
                    {[of |-> <<fd, interest[fd].gen>>, rev |-> rev[fd]] : fd \in S}]
  BY <1>2
<1>4. ASSUME NEW fd \in S
      PROVE  [of |-> <<fd, interest[fd].gen>>, rev |-> rev[fd]] \in Notices
  <2>1. fd \in Fds /\ interest[fd] # NoInterest
    BY DEF Watched
  <2>2. interest[fd] \in [gen: Gens, ev: (SUBSET Events) \ {{}}]
    BY <2>1 DEF FrameTypes, Interests
  <2>3. <<fd, interest[fd].gen>> \in Contexts
    BY <2>1, <2>2 DEF Contexts
  <2> QED
    BY <2>3, <1>3 DEF Notices
<1>5. batch' \in [Pollers -> SUBSET Notices]
  BY <1>3, <1>4 DEF FrameTypes
<1> QED
  BY <1>1, <1>5, SameKeeps DEF FrameTypes, tableVars, kernelVars

\* Handling a notice releases what happened, or nothing.
LEMMA HandleKeeps ==
  ASSUME RegInv, FrameTypes, NEW p \in Pollers, NEW n \in batch[p],
         HandleNothing(p, n) \/ Handle(p, n)
  PROVE  RegInv' /\ FrameTypes'
<1> DEFINE o == n.of
           real == real_events(n)
<1>1. n \in Notices
  BY DEF FrameTypes
<1>2. o \in Contexts
  BY <1>1 DEF Notices
<1>3. CASE Fail("trigger")
  BY <1>3, FailKeeps
<1>4. ASSUME Handled(p, n) PROVE batch' \in [Pollers -> SUBSET Notices]
  BY <1>4 DEF Handled, FrameTypes
<1>5. CASE /\ Handled(p, n)
           /\ UNCHANGED <<tableVars, regVars, kernelVars, call, fault>>
  BY <1>4, <1>5, SameKeeps DEF FrameTypes, tableVars, kernelVars
<1>6. CASE /\ real \subseteq events[o]
           /\ Trigger(o, real)
           /\ CountDown(Cardinality(real))
           /\ Watch(o, events[o] \ real)
           /\ Handled(p, n)
           /\ UNCHANGED <<tableVars, open, call, fault>>
  <2>1. RegInv'
    BY <1>2, <1>6, TriggerReleases, ReleasesKeeps
  <2>2. events[o] \ real \in SUBSET Events
    BY <1>2 DEF RegInv, RegTypes
  <2>3. interest' \in [Fds -> Interests]
    BY <1>2, <1>6, <2>2, WatchTypes
  <2> QED
    BY <1>4, <1>6, <2>1, <2>3 DEF FrameTypes, tableVars
<1> QED
  BY <1>3, <1>5, <1>6 DEF HandleNothing, Handle

\* IndInv is an invariant of the specification.
LEMMA IndInvHolds == Spec => []IndInv
<1>1. Init => IndInv
  <2> SUFFICES ASSUME Init PROVE RegInv /\ FrameTypes
    BY IndInvSplit
  <2> USE DEF Init
  <2>1. RegTypes
    BY DEF RegTypes, WaiterStates
  <2>2. CountMatches
    <3>1. Pending = {}
      BY DEF Pending
    <3> QED
      BY <3>1, FS_EmptySet DEF CountMatches
  <2>3. CtxIffRegistered
    BY DEF CtxIffRegistered
  <2>4. WaiterHeldOnce
    BY IOManagerAssumption DEF WaiterHeldOnce, Held, Waiters
  <2>5. FrameTypes
    BY IOManagerAssumption DEF FrameTypes, Gens, Interests, CallRecords
  <2> QED
    BY <2>1, <2>2, <2>3, <2>4, <2>5 DEF RegInv
<1>2. IndInv /\ [Next]_vars => IndInv'
  <2> SUFFICES ASSUME RegInv, FrameTypes, [Next]_vars PROVE RegInv' /\ FrameTypes'
    <3>1. IndInv' <=> RegInv' /\ FrameTypes'
      BY IndInvSplit, PTL
    <3> QED
      BY <3>1, IndInvSplit
  <2>1. CASE UNCHANGED vars
    BY <2>1, SameKeeps DEF vars, FrameTypes, tableVars, kernelVars
  <2>2. ASSUME NEW f \in Fibers,
               \/ Grow(f)
               \/ \E op \in Operations, fd \in Fds, e \in Events : Lookup(f, op, fd, e)
        PROVE  RegInv' /\ FrameTypes'
    BY <2>2, TableSteps
  <2>3. ASSUME NEW f \in Fibers, AddEvent(f)
        PROVE  RegInv' /\ FrameTypes'
    BY <2>3, AddEventKeeps
  <2>4. ASSUME NEW f \in Fibers, DelEvent(f) \/ CancelEvent(f)
        PROVE  RegInv' /\ FrameTypes'
    BY <2>4, OneEventKeeps
  <2>5. ASSUME NEW f \in Fibers, CancelAll(f)
        PROVE  RegInv' /\ FrameTypes'
    BY <2>5, CancelAllKeeps
  <2>6. ASSUME NEW p \in Pollers, EpollWait(p)
        PROVE  RegInv' /\ FrameTypes'
    BY <2>6, EpollWaitKeeps
  <2>7. ASSUME NEW p \in Pollers, NEW n \in batch[p],
               HandleNothing(p, n) \/ Handle(p, n)
        PROVE  RegInv' /\ FrameTypes'
    BY <2>7, HandleKeeps
  <2>8. CASE \/ \E f \in Fibers : CloseF(f)
             \/ \E f \in Fibers, fd \in Fds : Open(f, fd)
             \/ \E w \in Waiters : Resume(w)
    BY <2>8, OtherCallerSteps
  <2> QED
    BY <2>1, <2>2, <2>3, <2>4, <2>5, <2>6, <2>7, <2>8 DEF Next, Halted
<1> QED
  BY <1>1, <1>2, PTL DEF Spec

\* m_pendingEventCount is the number of registered events, whatever the
\* callers and the event loops do: stopping() counts nothing twice and
\* forgets nothing.
THEOREM PendingCounted == Spec => []CountMatches
<1>1. IndInv => CountMatches
  BY DEF IndInv
<1> QED
  BY <1>1, IndInvHolds, PTL

\* The assertion of addEvent() that the context it fills is empty holds.
THEOREM ContextAssertion == Spec => []CtxAssertHolds
<1>1. IndInv => CtxAssertHolds
  BY DEF IndInv
<1> QED
  BY <1>1, IndInvHolds, PTL

\* A parked waiter is in exactly one context and a woken one in none.
THEOREM WaitersHeldOnce == Spec => []WaiterHeldOnce
<1>1. IndInv => WaiterHeldOnce
  BY DEF IndInv
<1> QED
  BY <1>1, IndInvHolds, PTL

\* The types of the variables, with a counter that never wraps around.
THEOREM IOManagerTypes == Spec => []TypeOK
<1>1. IndInv => TypeOK
  BY DEF IndInv
<1> QED
  BY <1>1, IndInvHolds, PTL

----------------------------------------------------------------------------
(* What epoll watches, and the table.                                      *)

\* Every step changes what is registered of a descriptor together with what
\* epoll watches of it, and not otherwise: the registrations of at most one
\* context change, and epoll then watches just these or forgets the
\* descriptor.
Follows ==
    \A fd \in Fds :
       \/ interest'[fd] = NoInterest
       \/ \E g \in Gens : interest'[fd] = [gen |-> g, ev |-> events'[<<fd, g>>]]
       \/ /\ interest'[fd] = interest[fd]
          /\ \A g \in Gens : events'[<<fd, g>>] = events[<<fd, g>>]

\* A step that leaves both alone does so.
LEMMA SameFollows ==
  ASSUME UNCHANGED <<events, interest>>
  PROVE  Follows
BY DEF Follows

\* So does a step that gives a context the events ev and has epoll watch ev.
LEMMA WatchFollows ==
  ASSUME RegTypes, FrameTypes, NEW o \in Contexts, NEW ev \in SUBSET Events,
         events' = [events EXCEPT ![o] = ev], Watch(o, ev)
  PROVE  Follows
<1>1. /\ o = <<o[1], o[2]>> /\ o[1] \in Fds /\ o[2] \in Gens
      /\ events \in [Contexts -> SUBSET Events] /\ interest \in [Fds -> Interests]
  BY DEF Contexts, RegTypes, FrameTypes
<1> SUFFICES ASSUME NEW fd \in Fds
    PROVE  \/ interest'[fd] = NoInterest
           \/ \E g \in Gens : interest'[fd] = [gen |-> g, ev |-> events'[<<fd, g>>]]
           \/ /\ interest'[fd] = interest[fd]
              /\ \A g \in Gens : events'[<<fd, g>>] = events[<<fd, g>>]
  BY DEF Follows
<1>2. CASE fd = o[1]
  <2>1. events'[<<fd, o[2]>>] = ev
    BY <1>1, <1>2
  <2>2. interest'[fd] = IF ev = {} THEN NoInterest ELSE [gen |-> o[2], ev |-> ev]
    BY <1>1, <1>2 DEF Watch
  <2> QED
    BY <1>1, <2>1, <2>2
<1>3. CASE fd # o[1]
  <2>1. interest'[fd] = interest[fd]
    BY <1>1, <1>3 DEF Watch
  <2>2. ASSUME NEW g \in Gens PROVE events'[<<fd, g>>] = events[<<fd, g>>]
    <3>1. <<fd, g>> \in Contexts /\ <<fd, g>> # o
      BY <1>1, <1>3 DEF Contexts
    <3> QED
      BY <1>1, <3>1
  <2> QED
    BY <2>1, <2>2
<1> QED
  BY <1>2, <1>3

\* Every step follows.
LEMMA StepFollows ==
  ASSUME RegInv, FrameTypes, [Next]_vars
  PROVE  Follows
<1>a. RegTypes
  BY DEF RegInv
<1>1. CASE UNCHANGED vars
  BY <1>1, SameFollows DEF vars, regVars, kernelVars
<1>2. ASSUME NEW f \in Fibers,
             \/ Grow(f) \/ Return(f) \/ \E kind : Fail(kind)
             \/ \E op \in Operations, fd \in Fds, e \in Events : Lookup(f, op, fd, e)
             \/ \E fd \in Fds : Open(f, fd)
      PROVE  Follows
  BY <1>2, SameFollows DEF Grow, Return, Fail, Lookup, Open, regVars, kernelVars
<1>3. ASSUME NEW f \in Fibers, AddEvent(f)
      PROVE  Follows
  <2> DEFINE o == Ctx(f)
             e == call[f].ev
  <2>1. o \in Contexts /\ e \in Events
    BY <1>3, CallTypes DEF AddEvent, Has
  <2>2. CASE \E w \in {f} \cup Cbs : Register(o, e, w) /\ Watch(o, EpEvents(o, e))
    <3>1. events' = [events EXCEPT ![o] = events[o] \cup {e}] /\ Watch(o, events[o] \cup {e})
      BY <2>2 DEF Register, EpEvents
    <3>2. events[o] \cup {e} \in SUBSET Events
      BY <1>a, <2>1 DEF RegTypes
    <3> QED
      BY <1>a, <2>1, <3>1, <3>2, WatchFollows
  <2> QED
    BY <1>2, <1>3, <2>2 DEF AddEvent
<1>4. ASSUME NEW o \in Contexts, NEW es \in SUBSET Events, NEW ev,
             Trigger(o, es) \/ Reset(o, es), ev = events[o] \ es, Watch(o, ev)
      PROVE  Follows
  <2>1. events' = [events EXCEPT ![o] = ev] /\ ev \in SUBSET Events
    BY <1>a, <1>4 DEF Trigger, Reset, Release, RegTypes
  <2> QED
    BY <1>a, <1>4, <2>1, WatchFollows
<1>5. ASSUME NEW f \in Fibers, DelEvent(f) \/ CancelEvent(f)
      PROVE  Follows
  <2> DEFINE o == Ctx(f)
             e == call[f].ev
  <2>1. o \in Contexts /\ e \in Events
    BY <1>5, CallTypes DEF DelEvent, CancelEvent, Has
  <2>2. CASE Return(f)
    BY <1>2, <2>2
  <2>3. CASE (Reset(o, {e}) \/ Trigger(o, {e})) /\ Watch(o, events[o] \ {e})
    BY <1>4, <2>1, <2>3
  <2> QED
    BY <1>5, <2>2, <2>3 DEF DelEvent, CancelEvent
<1>6. ASSUME NEW f \in Fibers, CancelAll(f)
      PROVE  Follows
  <2> DEFINE o == Ctx(f)
  <2>1. o \in Contexts /\ events[o] \in SUBSET Events
    BY <1>a, <1>6, CallTypes DEF CancelAll, Has, RegTypes
  <2>2. CASE UNCHANGED <<regVars, interest>>
    BY <2>2, SameFollows DEF regVars
  <2>3. CASE Trigger(o, events[o]) /\ Watch(o, {})
    BY <1>4, <2>1, <2>3
  <2> QED
    BY <1>6, <2>2, <2>3 DEF CancelAll
<1>7. ASSUME NEW f \in Fibers, CloseF(f)
      PROVE  Follows
  <2>1. UNCHANGED events /\ interest' = [interest EXCEPT ![call[f].fd] = NoInterest]
    BY <1>7 DEF CloseF, regVars
  <2>2. \A fd \in Fds : interest'[fd] \in {interest[fd], NoInterest}
    BY <2>1 DEF FrameTypes
  <2> QED
    BY <2>1, <2>2 DEF Follows
<1>8. ASSUME NEW p \in Pollers, NEW n \in batch[p], Handle(p, n) \/ HandleNothing(p, n)
      PROVE  Follows
  <2> DEFINE o == n.of
             real == real_events(n)
  <2>1. n \in Notices
    BY DEF FrameTypes
  <2>2. o \in Contexts /\ events[o] \in SUBSET Events
    BY <1>a, <2>1 DEF Notices, RegTypes
  <2>3. CASE UNCHANGED <<regVars, kernelVars>>
    BY <2>3, SameFollows DEF regVars, kernelVars
  <2>4. CASE real \subseteq events[o] /\ Trigger(o, real) /\ Watch(o, events[o] \ real)
    BY <1>4, <2>2, <2>4
  <2> QED
    BY <1>8, <2>3, <2>4 DEF Handle, HandleNothing, Fail
<1>9. CASE \/ \E w \in Waiters : Resume(w)
           \/ \E p \in Pollers : EpollWait(p)
  BY <1>9, SameFollows DEF Resume, EpollWait, regVars, kernelVars
<1> QED
  BY <1>1, <1>2, <1>3, <1>5, <1>6, <1>7, <1>8, <1>9 DEF Next, Halted

\* epoll watches of a descriptor what the context that its notices will name
\* has registered, through any interleaving of callers, event loops, closing
\* and reopening: no notice is lost and none is left behind.
THEOREM EpollWatchesRegistered == Spec => []InterestExact
<1>1. Init => InterestExact
  BY DEF Init, InterestExact
<1>2. IndInv /\ InterestExact /\ [Next]_vars => InterestExact'
  <2> SUFFICES ASSUME IndInv, InterestExact, [Next]_vars,
                      NEW fd \in Fds, interest'[fd] # NoInterest
               PROVE  events'[<<fd, interest'[fd].gen>>] = interest'[fd].ev
    BY DEF InterestExact
  <2>1. Follows
    BY IndInvSplit, StepFollows
  <2>2. CASE \E g \in Gens : interest'[fd] = [gen |-> g, ev |-> events'[<<fd, g>>]]
    BY <2>2
  <2>3. CASE /\ interest'[fd] = interest[fd]
             /\ \A g \in Gens : events'[<<fd, g>>] = events[<<fd, g>>]
    <3>1. interest[fd] \in Interests /\ interest[fd] # NoInterest
      BY <2>3 DEF IndInv, TypeOK
    <3>2. interest[fd].gen \in Gens
      BY <3>1 DEF Interests
    <3> QED
      BY <2>3, <3>1, <3>2 DEF InterestExact
  <2> QED
    BY <2>1, <2>2, <2>3 DEF Follows
<1> QED
  BY <1>1, <1>2, IndInvHolds, PTL DEF Spec

\* That takes callers that grow the table one at a time, or for one
\* descriptor: the second resize() of two may shrink it otherwise.
OneGrows ==
    \/ \A f, g \in Fibers : f = g
    \/ \A fd, gd \in Fds : fd >= InitSize /\ gd >= InitSize => fd = gd

\* Whoever found a context has the one that is in the table, and whoever is
\* about to grow the table will not shrink it.
TableInv ==
    /\ size >= InitSize
    /\ \A f \in Fibers :
          /\ call[f].at = "have" => call[f].fd < size /\ call[f].gen = cur[call[f].fd]
          /\ call[f].at = "grow" => call[f].fd >= InitSize /\ NewSize(call[f].fd) >= size
    /\ RegisteredInTable

\* A step that moves neither the table nor a call to another place of it, and
\* registers only in contexts of the table, keeps TableInv.
LEMMA TableKept ==
  ASSUME TableInv, UNCHANGED tableVars,
         \A f \in Fibers : call'[f] = call[f] \/ call'[f].at \notin {"have", "grow"},
         \A o \in Contexts : \/ events'[o] \subseteq events[o]
                             \/ o[1] < size /\ o = Slot(o[1])
  PROVE  TableInv'
<1>1. size' = size /\ cur' = cur
  BY DEF tableVars
<1>2. RegisteredInTable'
  BY <1>1 DEF TableInv, RegisteredInTable, Slot
<1>3. ASSUME NEW f \in Fibers
      PROVE  /\ call'[f].at = "have" => call'[f].fd < size' /\ call'[f].gen = cur'[call'[f].fd]
             /\ call'[f].at = "grow" => /\ call'[f].fd >= InitSize
                                        /\ NewSize(call'[f].fd) >= size'
  BY <1>1 DEF TableInv
<1> QED
  BY <1>1, <1>2, <1>3 DEF TableInv, NewSize

\* A call that leaves, or goes on to close_f(), has no context any more.
LEMMA LeftCall ==
  ASSUME FrameTypes, NEW f \in Fibers, Leave(f) \/ AllDone(f)
  PROVE  \A g \in Fibers : call'[g] = call[g] \/ call'[g].at \notin {"have", "grow"}
<1>1. call \in [Fibers -> CallRecords]
  BY DEF FrameTypes
<1>2. CASE Leave(f)
  BY <1>1, <1>2 DEF Leave, NoCall
<1>3. CASE call' = [call EXCEPT ![f].at = "closing"]
  <2>1. \A g \in Fibers : g # f => call'[g] = call[g]
    BY <1>1, <1>3
  <2>2. call'[f] = [call[f] EXCEPT !.at = "closing"]
    BY <1>1, <1>3
  <2>3. "at" \in DOMAIN call[f]
    BY <1>1 DEF CallRecords, NoCall
  <2>4. call'[f].at = "closing"
    BY <2>2, <2>3
  <2> QED
    BY <2>1, <2>4
<1> QED
  BY <1>2, <1>3 DEF AllDone

\* resize(fd * 1.5) makes room for fd.
LEMMA NewSizeMakesRoom ==
  ASSUME NEW fd \in Fds, fd >= InitSize
  PROVE  NewSize(fd) \in Nat /\ NewSize(fd) > fd
BY IOManagerAssumption DEF NewSize

\* The lookup notes the context that is in the table, or finds the table too
\* small for its descriptor.
LEMMA LookupTable ==
  ASSUME RegInv, FrameTypes, TableInv,
         NEW f \in Fibers, NEW op \in Operations, NEW fd \in Fds, NEW e \in Events,
         Lookup(f, op, fd, e)
  PROVE  TableInv'
<1>1. UNCHANGED <<tableVars, regVars>>
  BY DEF Lookup
<1>2. size' = size /\ cur' = cur /\ events' = events
  BY <1>1 DEF tableVars, regVars
<1>3. PICK at \in {"have", "grow", "closing"} :
        /\ Enter(f, op, fd, e, at)
        /\ at = "have" => fd < size
        /\ at = "grow" => fd >= size
  BY DEF Lookup
<1>4. \A g \in Fibers : call'[g] = IF g = f
         THEN [op |-> op, at |-> at, fd |-> fd, ev |-> e, gen |-> cur[fd]] ELSE call[g]
  BY <1>2, <1>3 DEF Enter, FrameTypes
<1>5. fd \in Nat /\ InitSize \in Nat /\ size \in Nat /\ size >= InitSize
  BY IOManagerAssumption DEF TableInv, FrameTypes
<1>6. ASSUME NEW g \in Fibers
      PROVE  /\ call'[g].at = "have" => call'[g].fd < size /\ call'[g].gen = cur[call'[g].fd]
             /\ call'[g].at = "grow" => call'[g].fd >= InitSize /\ NewSize(call'[g].fd) >= size
  <2>1. CASE g # f
    BY <1>4, <2>1 DEF TableInv
  <2>2. CASE g = f /\ at = "grow"
    <3>1. fd >= size /\ fd >= InitSize
      BY <1>3, <1>5, <2>2
    <3>2. NewSize(fd) >= size
      BY <1>5, <3>1, NewSizeMakesRoom
    <3> QED
      BY <1>4, <2>2, <3>1, <3>2
  <2>3. CASE g = f /\ at # "grow"
    BY <1>3, <1>4, <2>3
  <2> QED
    BY <2>1, <2>2, <2>3
<1>7. RegisteredInTable'
  BY <1>2 DEF TableInv, RegisteredInTable, Slot
<1> QED
  BY <1>2, <1>5, <1>6, <1>7 DEF TableInv, NewSize

\* The table grows: slots that had a context keep it, and no other caller
\* who is about to grow it will shrink it.
LEMMA GrowTable ==
  ASSUME OneGrows, RegInv, FrameTypes, TableInv, NEW f \in Fibers, Grow(f)
  PROVE  TableInv'
<1> DEFINE c == call[f]
           n == NewSize(c.fd)
<1>1. /\ c.at = "grow" /\ UNCHANGED regVars
      /\ size' = n
      /\ cur' = [fd \in Fds |-> IF size <= fd /\ fd < n THEN cur[fd] + 1 ELSE cur[fd]]
      /\ call' = [call EXCEPT ![f] = [op |-> c.op, at |-> "have", fd |-> c.fd, ev |-> c.ev,
                                      gen |-> cur'[c.fd]]]
  BY DEF Grow, Resize, Enter
<1>2. /\ c.fd \in Fds /\ c.fd >= InitSize /\ n >= size
  BY <1>1, CallTypes DEF TableInv
<1>3. n \in Nat /\ n > c.fd /\ size \in Nat /\ InitSize \in Nat /\ size >= InitSize /\ Fds \subseteq Nat
  BY <1>2, NewSizeMakesRoom, IOManagerAssumption DEF FrameTypes, TableInv
<1> HIDE DEF n
<1>4. size' >= InitSize
  BY <1>1, <1>2, <1>3
<1>5. \A fd \in Fds : fd < size => fd < size' /\ cur'[fd] = cur[fd]
  BY <1>1, <1>2, <1>3
<1>6. ASSUME NEW g \in Fibers
      PROVE  /\ call'[g].at = "have" => call'[g].fd < size' /\ call'[g].gen = cur'[call'[g].fd]
             /\ call'[g].at = "grow" => call'[g].fd >= InitSize /\ NewSize(call'[g].fd) >= size'
  <2>1. CASE g = f
    <3>1. call'[f] = [op |-> c.op, at |-> "have", fd |-> c.fd, ev |-> c.ev, gen |-> cur'[c.fd]]
      BY <1>1 DEF FrameTypes
    <3> QED
      BY <1>1, <1>3, <2>1, <3>1
  <2>2. CASE g # f
    <3>1. call'[g] = call[g]
      BY <1>1, <2>2 DEF FrameTypes
    <3>2. CASE call[g].at = "have"
      <4>1. call[g].fd \in Fds /\ call[g].fd < size /\ call[g].gen = cur[call[g].fd]
        BY <3>2, CallTypes DEF TableInv
      <4> QED
        BY <1>5, <3>1, <3>2, <4>1
    <3>3. CASE call[g].at = "grow"
      <4>1. call[g].fd \in Fds /\ call[g].fd >= InitSize
        BY <3>3, CallTypes DEF TableInv
      <4>2. call[g].fd = c.fd
        BY <1>2, <2>2, <4>1 DEF OneGrows
      <4> QED
        BY <1>1, <1>3, <3>1, <3>3, <4>1, <4>2 DEF n
    <3> QED
      BY <3>1, <3>2, <3>3
  <2> QED
    BY <2>1, <2>2
<1>7. RegisteredInTable'
  <2> SUFFICES ASSUME NEW o \in Contexts, events'[o] # {}
      PROVE  o[1] < size' /\ o = <<o[1], cur'[o[1]]>>
    BY DEF RegisteredInTable, Slot
  <2>1. o[1] \in Fds /\ o[1] < size /\ o = <<o[1], cur[o[1]]>>
    BY <1>1 DEF TableInv, RegisteredInTable, Slot, Contexts, regVars
  <2> QED
    BY <1>5, <2>1
<1> QED
  BY <1>4, <1>6, <1>7 DEF TableInv, NewSize

\* Every other step leaves the table alone and registers, if at all, in the
\* context its call found.
LEMMA OtherTable ==
  ASSUME RegInv, FrameTypes, TableInv,
         \/ \E f \in Fibers : \/ AddEvent(f) \/ DelEvent(f) \/ CancelEvent(f)
                              \/ CancelAll(f) \/ CloseF(f)
         \/ \E f \in Fibers, fd \in Fds : Open(f, fd)
         \/ \E w \in Waiters : Resume(w)
         \/ \E p \in Pollers : EpollWait(p)
         \/ \E p \in Pollers : \E n \in batch[p] : HandleNothing(p, n) \/ Handle(p, n)
  PROVE  TableInv'
<1>a. events \in [Contexts -> SUBSET Events]
  BY DEF RegInv, RegTypes
<1>1. ASSUME UNCHANGED tableVars, UNCHANGED regVars \/ UNCHANGED events, UNCHANGED call
      PROVE  TableInv'
  BY <1>1, TableKept DEF regVars
<1>2. ASSUME UNCHANGED tableVars, UNCHANGED regVars \/ UNCHANGED events,
             NEW f \in Fibers, Leave(f)
      PROVE  TableInv'
  BY <1>2, LeftCall, TableKept DEF regVars
<1>3. ASSUME NEW o \in Contexts, NEW es, Trigger(o, es) \/ Reset(o, es),
             UNCHANGED tableVars,
             UNCHANGED call \/ (\E f \in Fibers : Leave(f) \/ AllDone(f))
      PROVE  TableInv'
  <2>1. events' = [events EXCEPT ![o] = @ \ es]
    BY <1>3 DEF Trigger, Reset, Release
  <2>2. \A u \in Contexts : events'[u] \subseteq events[u]
    BY <1>a, <2>1
  <2> QED
    BY <1>3, <2>2, LeftCall, TableKept
<1>4. ASSUME NEW f \in Fibers, AddEvent(f)
      PROVE  TableInv'
  <2> DEFINE o == Ctx(f)
             e == call[f].ev
  <2>1. call[f].at = "have"
    BY <1>4 DEF AddEvent, Has
  <2>2. o \in Contexts /\ o = <<call[f].fd, call[f].gen>> /\ call[f].fd \in Fds
    BY <2>1, CallTypes DEF Ctx
  <2>3. o[1] < size /\ o = Slot(o[1])
    BY <2>1, <2>2 DEF TableInv, Slot
  <2>4. CASE \E kind : Fail(kind)
    BY <1>1, <2>4 DEF Fail
  <2>5. CASE Return(f)
    BY <1>2, <2>5 DEF Return
  <2>6. CASE /\ \E w \in {f} \cup Cbs : wstate[w] = "free" /\ Register(o, e, w)
             /\ Leave(f) /\ UNCHANGED <<tableVars, open, batch, fault>>
    <3>1. events' = [events EXCEPT ![o] = @ \cup {e}]
      BY <2>6 DEF Register
    <3>2. \A u \in Contexts : u # o => events'[u] = events[u]
      BY <1>a, <3>1
    <3> QED
      BY <2>3, <2>6, <3>2, LeftCall, TableKept
  <2> QED
    BY <1>4, <2>4, <2>5, <2>6 DEF AddEvent
<1>5. ASSUME NEW f \in Fibers, DelEvent(f) \/ CancelEvent(f)
      PROVE  TableInv'
  <2>1. Ctx(f) \in Contexts
    BY <1>5, CallTypes DEF DelEvent, CancelEvent, Has
  <2>2. CASE Return(f)
    BY <1>2, <2>2 DEF Return
  <2>3. CASE /\ Reset(Ctx(f), {call[f].ev}) \/ Trigger(Ctx(f), {call[f].ev})
             /\ Leave(f) /\ UNCHANGED tableVars
    BY <1>3, <2>1, <2>3
  <2> QED
    BY <1>5, <2>2, <2>3 DEF DelEvent, CancelEvent
<1>6. ASSUME NEW f \in Fibers, CancelAll(f)
      PROVE  TableInv'
  <2>1. Ctx(f) \in Contexts /\ AllDone(f) /\ UNCHANGED tableVars
    BY <1>6, CallTypes DEF CancelAll, Has
  <2>2. CASE UNCHANGED <<regVars, interest>>
    <3>1. \A g \in Fibers : call'[g] = call[g] \/ call'[g].at \notin {"have", "grow"}
      BY <2>1, LeftCall
    <3> QED
      BY <2>1, <2>2, <3>1, TableKept DEF regVars
  <2>3. CASE Trigger(Ctx(f), events[Ctx(f)])
    BY <1>3, <2>1, <2>3
  <2> QED
    BY <1>6, <2>2, <2>3 DEF CancelAll
<1>7. ASSUME NEW f \in Fibers, CloseF(f)
      PROVE  TableInv'
  BY <1>2, <1>7 DEF CloseF
<1>8. ASSUME NEW p \in Pollers, NEW n \in batch[p], HandleNothing(p, n) \/ Handle(p, n)
      PROVE  TableInv'
  <2>1. n.of \in Contexts
    BY DEF FrameTypes, Notices
  <2>2. CASE UNCHANGED <<tableVars, regVars, call>>
    BY <1>1, <2>2
  <2>3. CASE Trigger(n.of, real_events(n)) /\ UNCHANGED <<tableVars, call>>
    BY <1>3, <2>1, <2>3
  <2> QED
    BY <1>8, <2>2, <2>3 DEF HandleNothing, Handle, Fail
<1>9. CASE \/ \E f \in Fibers, fd \in Fds : Open(f, fd)
           \/ \E w \in Waiters : Resume(w)
           \/ \E p \in Pollers : EpollWait(p)
  BY <1>1, <1>9 DEF Open, Resume, EpollWait
<1> QED
  BY <1>4, <1>5, <1>6, <1>7, <1>8, <1>9

\* A context with registered events is the one in the table, where timeouts,
\* cancelEvent() and close() find it: for any number of event loops, when
\* there is one caller or one descriptor beyond the table.
THEOREM RegisteredFindable ==
  ASSUME OneGrows
  PROVE  Spec => []RegisteredInTable
<1>1. Init => TableInv
  BY IOManagerAssumption DEF Init, TableInv, RegisteredInTable, NoCall
<1>2. IndInv /\ TableInv /\ [Next]_vars => TableInv'
  <2> SUFFICES ASSUME IndInv, TableInv, [Next]_vars PROVE TableInv'
    OBVIOUS
  <2>a. RegInv /\ FrameTypes
    BY IndInvSplit
  <2>1. CASE UNCHANGED vars
    BY <2>1, TableKept DEF vars, regVars
  <2>2. ASSUME NEW f \in Fibers, NEW op \in Operations, NEW fd \in Fds, NEW e \in Events,
               Lookup(f, op, fd, e)
        PROVE  TableInv'
    BY <2>a, <2>2, LookupTable
  <2>3. ASSUME NEW f \in Fibers, Grow(f)
        PROVE  TableInv'
    BY <2>a, <2>3, GrowTable
  <2>4. CASE \/ \E f \in Fibers : \/ AddEvent(f) \/ DelEvent(f) \/ CancelEvent(f)
                                  \/ CancelAll(f) \/ CloseF(f)
             \/ \E f \in Fibers, fd \in Fds : Open(f, fd)
             \/ \E w \in Waiters : Resume(w)
             \/ \E p \in Pollers : EpollWait(p)
             \/ \E p \in Pollers : \E n \in batch[p] : HandleNothing(p, n) \/ Handle(p, n)
    BY <2>a, <2>4, OtherTable
  <2> QED
    BY <2>1, <2>2, <2>3, <2>4 DEF Next, Halted
<1>3. TableInv => RegisteredInTable
  BY DEF TableInv
<1> QED
  BY <1>1, <1>2, <1>3, IndInvHolds, PTL DEF Spec
=============================================================================
