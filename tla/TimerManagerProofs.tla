------------------------ MODULE TimerManagerProofs -------------------------
(***************************************************************************)
(* Proofs about TimerManager, for every set of timers and pollers, every   *)
(* choice of intervals and any behaviour of the wall clock.                *)
(***************************************************************************)
EXTENDS TimerManager, TLAPS

Stages == CbIffQueued /\ OneShotOnce /\ Lifecycle

\* What a step may do to one timer, as far as Stages is concerned.
QueueTypes ==
    /\ m_timers \subseteq Timers /\ cancelled \subseteq Timers
    /\ m_next \in [Timers -> Int]
    /\ m_ms \in [Timers -> Nat]
    /\ m_recurring \in [Timers -> BOOLEAN]
    /\ m_cb \in [Timers -> BOOLEAN]
    /\ status \in [Timers -> {"none", "made", "handle"}]
    /\ fires \in [Timers -> 0..2]

\* The other variables.
OtherTypes ==
    /\ clock \in MinNow..MaxNow
    /\ m_tickled \in BOOLEAN
    /\ m_previouseTime \in Nat
    /\ pc \in [Pollers -> {"out", "empty?", "collect"}]
    /\ now_ms \in [Pollers -> Nat]
    /\ lookedAt \in Int
    /\ rolled \in BOOLEAN
    /\ fault \in {"none", "begin"}

\* The two halves make up TypeOK.
LEMMA TypesSplit == TypeOK <=> QueueTypes /\ OtherTypes
BY DEF TypeOK, QueueTypes, OtherTypes

\* The clock shows a natural number.
LEMMA ClockNat == OtherTypes => clock \in Nat
BY TimerAssumption DEF OtherTypes

\* The constructor of a timer.
LEMMA NewTimerStep ==
  ASSUME QueueTypes, OtherTypes, Stages, FrontNotified,
         NEW t \in Timers, NEW ms \in Intervals, NEW r \in BOOLEAN,
         NewTimer(t, ms, r)
  PROVE  QueueTypes' /\ OtherTypes' /\ Stages' /\ FrontNotified'
<1>1. ms \in Nat /\ clock \in Nat
  BY TimerAssumption, ClockNat
<1>2. QueueTypes'
  BY <1>1 DEF NewTimer, QueueTypes, historyVars
<1>3. OtherTypes'
  BY DEF NewTimer, OtherTypes, historyVars, pollVars
<1>4. Stages'
  BY DEF NewTimer, Stages, CbIffQueued, OneShotOnce, Lifecycle, QueueTypes, historyVars
<1>5. FrontNotified'
  <2>1. t \notin m_timers
    BY DEF NewTimer, Stages, Lifecycle
  <2>2. \A u \in m_timers : m_next'[u] = m_next[u]
    BY <2>1 DEF NewTimer, QueueTypes
  <2> QED
    BY <2>2 DEF NewTimer, FrontNotified, historyVars
<1> QED
  BY <1>2, <1>3, <1>4, <1>5

\* Whoever sleeps has been notified after an insert: either the inserted
\* timer is the first, or one that is not later was queued before.
LEMMA InsertNotifies ==
  ASSUME QueueTypes, OtherTypes, FrontNotified, UNCHANGED <<lookedAt, rolled>>,
         NEW t \in Timers, NEW set \in SUBSET m_timers, t \notin set,
         NEW next \in [Timers -> Int],
         \A u \in set : next[u] = m_next[u],
         m_next' = next, Insert(t, set, next)
  PROVE  FrontNotified'
<1>1. /\ m_timers' = set \cup {t}
      /\ m_tickled' = (m_tickled \/ AtFront(t, set \cup {t}, next))
  BY DEF Insert
<1>2. set \subseteq Timers
  BY DEF QueueTypes
<1> SUFFICES ASSUME ~rolled, NEW u \in set \cup {t}, next[u] < lookedAt
             PROVE  m_tickled'
  BY <1>1 DEF FrontNotified
<1>3. CASE \E v \in set : next[v] < lookedAt
  <2>1. m_tickled
    BY <1>3 DEF FrontNotified
  <2> QED
    BY <2>1, <1>1
<1>4. CASE ~\E v \in set : next[v] < lookedAt
  <2>1. u = t
    BY <1>4
  <2>2. \A v \in set : next[t] < next[v]
    BY <1>2, <1>4, <2>1 DEF OtherTypes
  <2>3. AtFront(t, set \cup {t}, next)
    BY <2>2 DEF AtFront, IsBegin, Before
  <2> QED
    BY <2>3, <1>1
<1> QED
  BY <1>3, <1>4

\* The insert of a new timer.
LEMMA AddTimerStep ==
  ASSUME QueueTypes, OtherTypes, Stages, FrontNotified,
         NEW t \in Timers, AddTimer(t)
  PROVE  QueueTypes' /\ OtherTypes' /\ Stages' /\ FrontNotified'
<1>1. /\ m_timers' = m_timers \cup {t}
      /\ m_tickled' = (m_tickled \/ AtFront(t, m_timers \cup {t}, m_next))
  BY DEF AddTimer, Insert
<1>2. QueueTypes'
  BY <1>1 DEF AddTimer, QueueTypes, historyVars
<1>3. AtFront(t, m_timers \cup {t}, m_next) \in BOOLEAN
  BY DEF AtFront, IsBegin
<1>4. OtherTypes'
  BY <1>1, <1>3 DEF AddTimer, OtherTypes, historyVars, pollVars
<1>5. Stages'
  BY <1>1 DEF AddTimer, Stages, CbIffQueued, OneShotOnce, Lifecycle, QueueTypes, historyVars
<1>6. FrontNotified'
  <2>1. t \notin m_timers
    BY DEF AddTimer, Stages, Lifecycle
  <2>2. m_next \in [Timers -> Int] /\ m_next' = m_next
    BY DEF AddTimer, QueueTypes
  <2>3. UNCHANGED <<lookedAt, rolled>> /\ Insert(t, m_timers, m_next)
    BY DEF AddTimer, historyVars
  <2> QED
    BY <2>1, <2>2, <2>3, InsertNotifies
<1> QED
  BY <1>2, <1>4, <1>5, <1>6

\* cancel().
LEMMA CancelStep ==
  ASSUME QueueTypes, OtherTypes, Stages, FrontNotified,
         NEW t \in Timers, Cancel(t)
  PROVE  QueueTypes' /\ OtherTypes' /\ Stages' /\ FrontNotified'
<1>1. m_cb' = [m_cb EXCEPT ![t] = FALSE] /\ m_timers' = m_timers \ {t}
  BY DEF Cancel, ClearCb, Unqueue
<1>2. QueueTypes'
  BY <1>1 DEF Cancel, QueueTypes
<1>3. OtherTypes'
  BY DEF Cancel, OtherTypes, pollVars
<1>4. Stages'
  BY <1>1 DEF Cancel, Stages, CbIffQueued, OneShotOnce, Lifecycle, QueueTypes
<1>5. FrontNotified'
  BY <1>1 DEF Cancel, FrontNotified
<1> QED
  BY <1>2, <1>3, <1>4, <1>5

\* refresh() and reset().
LEMMA RequeueStep ==
  ASSUME QueueTypes, OtherTypes, Stages, FrontNotified,
         NEW t \in Timers, NEW ms \in Nat, NEW next \in Int, Requeue(t, ms, next)
  PROVE  QueueTypes' /\ OtherTypes' /\ Stages' /\ FrontNotified'
<1>1. /\ m_timers' = (m_timers \ {t}) \cup {t}
      /\ m_tickled' = (m_tickled \/ AtFront(t, (m_timers \ {t}) \cup {t}, m_next'))
  BY DEF Requeue, Insert
<1>2. t \in m_timers /\ m_timers' = m_timers
  BY <1>1 DEF Requeue
<1>3. QueueTypes'
  BY <1>2 DEF Requeue, QueueTypes, historyVars
<1>4. AtFront(t, (m_timers \ {t}) \cup {t}, m_next') \in BOOLEAN
  BY DEF AtFront, IsBegin
<1>5. OtherTypes'
  BY <1>1, <1>4 DEF Requeue, OtherTypes, historyVars, pollVars
<1>6. Stages'
  BY <1>2 DEF Requeue, Stages, CbIffQueued, OneShotOnce, Lifecycle, historyVars
<1>7. FrontNotified'
  <2> DEFINE set == m_timers \ {t}
  <2>1. set \in SUBSET m_timers /\ t \notin set
    OBVIOUS
  <2>2. m_next' \in [Timers -> Int]
    BY <1>3 DEF QueueTypes
  <2>3. \A u \in set : m_next'[u] = m_next[u]
    BY DEF Requeue, QueueTypes
  <2>4. UNCHANGED <<lookedAt, rolled>> /\ Insert(t, set, m_next')
    BY DEF Requeue, historyVars
  <2> HIDE DEF set
  <2> QED
    BY <2>1, <2>2, <2>3, <2>4, InsertNotifies
<1> QED
  BY <1>3, <1>5, <1>6, <1>7

\* The clock, and the steps of the pollers that collect nothing.
LEMMA QuietSteps ==
  ASSUME QueueTypes, OtherTypes, Stages, FrontNotified,
         \/ Tick \/ SetBack \/ UNCHANGED vars
         \/ \E p \in Pollers : ListNow(p) \/ ListEmpty(p) \/ ListBeginOfEmpty(p)
  PROVE  QueueTypes' /\ OtherTypes' /\ Stages' /\ FrontNotified'
<1>1. UNCHANGED <<m_timers, timerVars, m_tickled, m_previouseTime, historyVars>>
  BY DEF Tick, SetBack, ListNow, ListEmpty, ListBeginOfEmpty, vars
<1>2. QueueTypes'
  BY <1>1 DEF QueueTypes, timerVars, historyVars
<1>3. Stages'
  BY <1>1 DEF Stages, CbIffQueued, OneShotOnce, Lifecycle, timerVars, historyVars
<1>4. FrontNotified'
  BY <1>1 DEF FrontNotified, timerVars, historyVars
<1>5. clock' \in MinNow..MaxNow
  BY TimerAssumption DEF Tick, SetBack, ListNow, ListEmpty, ListBeginOfEmpty, vars, OtherTypes
<1>6. /\ pc' \in [Pollers -> {"out", "empty?", "collect"}]
      /\ now_ms' \in [Pollers -> Nat]
      /\ fault' \in {"none", "begin"}
  <2>1. CASE Tick \/ SetBack \/ UNCHANGED vars
    BY <2>1 DEF Tick, SetBack, vars, OtherTypes, pollVars
  <2>2. ASSUME NEW p \in Pollers, ListNow(p) \/ ListEmpty(p) \/ ListBeginOfEmpty(p)
        PROVE  /\ pc' \in [Pollers -> {"out", "empty?", "collect"}]
               /\ now_ms' \in [Pollers -> Nat]
               /\ fault' \in {"none", "begin"}
    BY <2>2, ClockNat DEF ListNow, ListEmpty, ListBeginOfEmpty, Return, OtherTypes, pollVars
  <2> QED
    BY <2>1, <2>2
<1>7. OtherTypes'
  BY <1>1, <1>5, <1>6 DEF OtherTypes, historyVars
<1> QED
  BY <1>2, <1>3, <1>4, <1>7

\* getNextTimer() answers the first deadline.
LEMMA GetNextStep ==
  ASSUME QueueTypes, OtherTypes, Stages, FrontNotified,
         NEW p \in Pollers, GetNextTimer(p)
  PROVE  QueueTypes' /\ OtherTypes' /\ Stages' /\ FrontNotified'
<1>1. UNCHANGED <<clock, m_timers, timerVars, m_previouseTime, pollVars,
                  fires, cancelled, fault>>
  BY DEF GetNextTimer
<1>2. QueueTypes' /\ Stages'
  BY <1>1 DEF QueueTypes, Stages, CbIffQueued, OneShotOnce, Lifecycle, timerVars
<1>3. CASE m_timers = {} /\ lookedAt' = Never
  <2>1. lookedAt' \in Int
    BY <1>3, TimerAssumption DEF Never
  <2>2. OtherTypes'
    BY <1>1, <2>1 DEF OtherTypes, GetNextTimer, pollVars
  <2> QED
    BY <1>1, <1>2, <1>3, <2>2 DEF FrontNotified
<1>4. ASSUME NEW t \in m_timers, IsBegin(t, m_timers, m_next), lookedAt' = m_next[t]
      PROVE  QueueTypes' /\ OtherTypes' /\ Stages' /\ FrontNotified'
  <2>1. lookedAt' \in Int
    BY <1>4 DEF QueueTypes
  <2>2. OtherTypes'
    BY <1>1, <2>1 DEF OtherTypes, GetNextTimer, pollVars
  <2>3. \A u \in m_timers : ~(m_next[u] < m_next[t])
    BY <1>4 DEF IsBegin, Before, QueueTypes
  <2> QED
    BY <1>1, <1>2, <1>4, <2>2, <2>3 DEF FrontNotified, timerVars
<1> QED
  BY <1>3, <1>4 DEF GetNextTimer

\* listExpiredCb() collects only queued timers.
LEMMA ExpiredQueued == ASSUME NEW now PROVE Expired(now) \subseteq m_timers
BY DEF Expired

\* The collection.
LEMMA CollectStep ==
  ASSUME QueueTypes, OtherTypes, Stages, FrontNotified,
         NEW p \in Pollers, ListCollect(p)
  PROVE  QueueTypes' /\ OtherTypes' /\ Stages' /\ FrontNotified'
<1> DEFINE now == now_ms[p]
           set == Expired(now)
<1>1. now \in Nat
  BY DEF OtherTypes
<1>2. set \subseteq m_timers /\ set \subseteq Timers
  BY ExpiredQueued DEF QueueTypes
<1>3. /\ m_timers' = (m_timers \ set) \cup {t \in set : m_recurring[t]}
      /\ m_next' = [t \in Timers |-> IF t \in set /\ m_recurring[t]
                                     THEN now + m_ms[t] ELSE m_next[t]]
      /\ m_cb' = [t \in Timers |-> IF t \in set /\ ~m_recurring[t]
                                   THEN FALSE ELSE m_cb[t]]
      /\ fires' = [t \in Timers |-> IF t \in set THEN Bump(fires[t]) ELSE fires[t]]
      /\ rolled' = (rolled \/ Rollover(now))
      /\ UNCHANGED <<clock, m_ms, m_recurring, status, m_tickled, cancelled,
                     lookedAt, fault>>
  BY DEF ListCollect, Recur, Uncollected
<1>4. m_previouseTime' = now /\ Return(p)
  BY DEF ListCollect
<1> HIDE DEF now, set
<1>5. QueueTypes'
  <2>1. m_timers' \subseteq Timers /\ cancelled' \subseteq Timers
    BY <1>2, <1>3 DEF QueueTypes
  <2>2. m_next' \in [Timers -> Int]
    BY <1>1, <1>3 DEF QueueTypes
  <2>4. m_cb' \in [Timers -> BOOLEAN]
    BY <1>3 DEF QueueTypes
  <2>3. fires' \in [Timers -> 0..2]
    BY <1>3 DEF QueueTypes, Bump
  <2> QED
    BY <1>3, <2>1, <2>2, <2>3, <2>4 DEF QueueTypes
<1>6. OtherTypes'
  BY <1>1, <1>3, <1>4 DEF OtherTypes, Return, Rollover
<1>7. Stages'
  <2>1. ASSUME NEW t \in Timers
        PROVE  /\ status'[t] = "handle" => (m_cb'[t] <=> t \in m_timers')
               /\ status'[t] # "handle" =>
                     t \notin m_timers' \cup cancelled' /\ fires'[t] = 0
               /\ status'[t] = "made" => m_cb'[t]
               /\ t \in cancelled' => ~m_cb'[t]
    BY <1>2, <1>3 DEF Stages, CbIffQueued, Lifecycle, QueueTypes
  <2>2. ASSUME NEW t \in Timers, ~m_recurring'[t]
        PROVE  /\ fires'[t] <= 1
               /\ fires'[t] = 1 => t \notin cancelled' /\ t \notin m_timers'
    <3>1. /\ fires[t] \in 0..2 /\ fires[t] <= 1
          /\ fires[t] = 1 => t \notin cancelled /\ t \notin m_timers
      BY <1>3, <2>2 DEF Stages, OneShotOnce, QueueTypes
    <3>2. CASE t \in set
      <4>1. fires[t] = 0 /\ t \in m_timers
        BY <3>1, <3>2, <1>2
      <4>2. t \notin cancelled
        BY <4>1 DEF Stages, CbIffQueued, Lifecycle, QueueTypes
      <4> QED
        BY <4>1, <4>2, <3>2, <2>2, <1>3 DEF Bump
    <3>3. CASE t \notin set
      BY <3>1, <3>3, <1>2, <1>3
    <3> QED
      BY <3>2, <3>3
  <2> QED
    BY <2>1, <2>2 DEF Stages, CbIffQueued, OneShotOnce, Lifecycle
<1>8. FrontNotified'
  <2> SUFFICES ASSUME ~rolled, ~Rollover(now), NEW t \in m_timers',
                      m_next'[t] < lookedAt
               PROVE  m_tickled
    BY <1>3 DEF FrontNotified
  <2>1. set \subseteq {u \in m_timers : m_next[u] = now}
    BY DEF set, Expired
  <2>2. t \in m_timers /\ t \in Timers
    BY <1>2, <1>3 DEF QueueTypes
  <2>3. CASE t \in set /\ m_recurring[t]
    <3>1. m_next'[t] = now + m_ms[t] /\ m_ms[t] \in Nat
      BY <1>3, <2>2, <2>3 DEF QueueTypes
    <3>2. m_next[t] = now /\ now < lookedAt
      BY <1>1, <2>1, <2>3, <3>1 DEF OtherTypes
    <3> QED
      BY <2>2, <3>2 DEF FrontNotified
  <2>4. CASE ~(t \in set /\ m_recurring[t])
    <3>1. m_next'[t] = m_next[t]
      BY <1>3, <2>2, <2>4
    <3> QED
      BY <2>2, <3>1 DEF FrontNotified
  <2> QED
    BY <2>3, <2>4
<1> QED
  BY <1>5, <1>6, <1>7, <1>8

\* What is inductive.
TimerInv == TypeOK /\ Stages /\ FrontNotified

\* TimerInv is an invariant of the specification.
LEMMA TimerInvHolds == Spec => []TimerInv
<1>1. Init => TimerInv
  <2> SUFFICES ASSUME Init PROVE TimerInv
    OBVIOUS
  <2>1. TypeOK
    <3>1. Never \in Int /\ clock \in Nat
      BY TimerAssumption DEF Never, Init
    <3>2. OtherTypes
      BY <3>1 DEF Init, OtherTypes
    <3>3. m_recurring \in [Timers -> BOOLEAN] /\ m_cb \in [Timers -> BOOLEAN]
      BY Zenon DEF Init
    <3>4. QueueTypes
      BY <3>3 DEF Init, QueueTypes
    <3> QED
      BY <3>2, <3>4, TypesSplit
  <2>2. Stages
    BY DEF Init, Stages, CbIffQueued, OneShotOnce, Lifecycle
  <2>3. FrontNotified
    BY DEF Init, FrontNotified
  <2> QED
    BY <2>1, <2>2, <2>3 DEF TimerInv
<1>2. TimerInv /\ [Next]_vars => TimerInv'
  <2> SUFFICES ASSUME QueueTypes, OtherTypes, Stages, FrontNotified, [Next]_vars
               PROVE  QueueTypes' /\ OtherTypes' /\ Stages' /\ FrontNotified'
    <3>1. TypeOK' <=> QueueTypes' /\ OtherTypes'
      BY TypesSplit, PTL
    <3> QED
      BY <3>1, TypesSplit DEF TimerInv
  <2>1. CASE \/ Tick \/ SetBack \/ Halted \/ UNCHANGED vars
             \/ \E p \in Pollers : ListNow(p) \/ ListEmpty(p) \/ ListBeginOfEmpty(p)
    BY <2>1, QuietSteps DEF Halted
  <2>2. ASSUME NEW t \in Timers, NEW ms \in Intervals, NEW r \in BOOLEAN,
               NewTimer(t, ms, r)
        PROVE  QueueTypes' /\ OtherTypes' /\ Stages' /\ FrontNotified'
    BY <2>2, NewTimerStep
  <2>3. ASSUME NEW t \in Timers, AddTimer(t) \/ Cancel(t)
        PROVE  QueueTypes' /\ OtherTypes' /\ Stages' /\ FrontNotified'
    BY <2>3, AddTimerStep, CancelStep
  <2>4. ASSUME NEW t \in Timers, Refresh(t)
        PROVE  QueueTypes' /\ OtherTypes' /\ Stages' /\ FrontNotified'
    <3>1. Requeue(t, m_ms[t], clock + m_ms[t])
      BY <2>4 DEF Refresh
    <3>2. m_ms[t] \in Nat /\ clock + m_ms[t] \in Int
      BY ClockNat DEF QueueTypes
    <3> QED
      BY <3>1, <3>2, RequeueStep
  <2>5. ASSUME NEW t \in Timers, NEW ms \in Intervals, NEW b \in BOOLEAN,
               Reset(t, ms, b)
        PROVE  QueueTypes' /\ OtherTypes' /\ Stages' /\ FrontNotified'
    <3> DEFINE next == (IF b THEN clock ELSE m_next[t] - m_ms[t]) + ms
    <3>1. Requeue(t, ms, next)
      BY <2>5 DEF Reset
    <3>2. ms \in Nat /\ clock \in Nat /\ m_next[t] \in Int /\ m_ms[t] \in Nat
      BY ClockNat, TimerAssumption DEF QueueTypes
    <3>3. next \in Int
      BY <3>2
    <3> HIDE DEF next
    <3> QED
      BY <3>1, <3>2, <3>3, RequeueStep
  <2>6. ASSUME NEW p \in Pollers, GetNextTimer(p)
        PROVE  QueueTypes' /\ OtherTypes' /\ Stages' /\ FrontNotified'
    BY <2>6, GetNextStep
  <2>7. ASSUME NEW p \in Pollers, ListCollect(p)
        PROVE  QueueTypes' /\ OtherTypes' /\ Stages' /\ FrontNotified'
    BY <2>7, CollectStep
  <2> QED
    BY <2>1, <2>2, <2>3, <2>4, <2>5, <2>6, <2>7 DEF Next
<1> QED
  BY <1>1, <1>2, PTL DEF Spec

\* The variables have their types.
THEOREM TimerTypes == Spec => []TypeOK
<1>1. TimerInv => TypeOK
  BY DEF TimerInv
<1> QED
  BY <1>1, TimerInvHolds, PTL

\* A handle has its callback exactly while it is queued, so the iterator
\* that cancel() passes to erase() is never end().
THEOREM HandlesQueued == Spec => []CbIffQueued
<1>1. TimerInv => CbIffQueued
  BY DEF TimerInv, Stages
<1> QED
  BY <1>1, TimerInvHolds, PTL

\* A one-shot timer fires at most once, and never when its cancel()
\* returned true.
THEOREM OneShotFiresOnce == Spec => []OneShotOnce
<1>1. TimerInv => OneShotOnce
  BY DEF TimerInv, Stages
<1> QED
  BY <1>1, TimerInvHolds, PTL

\* No deadline earlier than the one a poller went to sleep on is queued
\* without a notification.
THEOREM EarlierDeadlineNotified == Spec => []FrontNotified
<1>1. TimerInv => FrontNotified
  BY DEF TimerInv
<1> QED
  BY <1>1, TimerInvHolds, PTL

\* A cancelled timer is neither queued nor collected again.
THEOREM CancelIsFinal == Spec => CancelledStaysOut
<1>1. TimerInv /\ TimerInv' /\ [Next]_vars =>
        [\A t \in cancelled : t \notin m_timers' /\ fires'[t] = fires[t]]_vars
  <2> SUFFICES ASSUME TimerInv, TimerInv', Next, NEW t \in cancelled
               PROVE  t \notin m_timers' /\ fires'[t] = fires[t]
    OBVIOUS
  <2>1. t \in Timers
    BY DEF TimerInv, TypeOK
  <2>2. status[t] = "handle" /\ ~m_cb[t] /\ t \notin m_timers
    BY <2>1 DEF TimerInv, Stages, Lifecycle, CbIffQueued
  <2>3. CASE \E p \in Pollers : ListCollect(p)
    <3>1. PICK p \in Pollers : ListCollect(p)
      BY <2>3
    <3>2. t \notin Expired(now_ms[p])
      BY <2>2, ExpiredQueued
    <3> QED
      BY <2>1, <2>2, <3>1, <3>2 DEF ListCollect, Recur
  <2>4. CASE \E p \in Pollers : \/ GetNextTimer(p) \/ ListNow(p) \/ ListEmpty(p)
                              \/ ListBeginOfEmpty(p)
    BY <2>2, <2>4 DEF GetNextTimer, ListNow, ListEmpty, ListBeginOfEmpty, historyVars
  <2>5. CASE Tick \/ SetBack \/ Halted
    BY <2>2, <2>5 DEF Tick, SetBack, Halted, vars, historyVars
  <2>6. CASE \E u \in Timers, ms \in Intervals, b \in BOOLEAN : NewTimer(u, ms, b)
    BY <2>2, <2>6 DEF NewTimer, historyVars
  <2>7. CASE \E u \in Timers : AddTimer(u) \/ Cancel(u)
    BY <2>2, <2>7 DEF AddTimer, Insert, Cancel, Unqueue, historyVars
  <2>8. CASE \/ \E u \in Timers : Refresh(u)
             \/ \E u \in Timers, ms \in Intervals, b \in BOOLEAN : Reset(u, ms, b)
    BY <2>2, <2>8 DEF Refresh, Reset, Requeue, Insert, historyVars
  <2> QED
    BY <2>3, <2>4, <2>5, <2>6, <2>7, <2>8 DEF Next
<1> QED
  BY <1>1, TimerInvHolds, PTL DEF Spec, CancelledStaysOut
=============================================================================
