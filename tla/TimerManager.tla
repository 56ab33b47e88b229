---------------------------- MODULE TimerManager ----------------------------
(***************************************************************************)
(* The timers of src/awcotn/timer.{h,cc}: Timer and TimerManager.          *)
(*                                                                         *)
(* m_timers is a std::set ordered by deadline and then by address; every   *)
(* operation takes m_mutex for its whole effect, except that addTimer()    *)
(* builds the Timer before it locks and listExpiredCb() reads the clock    *)
(* and tests for emptiness before it takes the write lock.  Those are the  *)
(* places where threads interleave here.  The clock is the wall clock and  *)
(* may be set back.                                                        *)
(***************************************************************************)
EXTENDS Integers, FiniteSets

CONSTANTS Timers,      \* Timer objects: their addresses
          Pollers,     \* threads that call listExpiredCb(), getNextTimer()
          Intervals,   \* the ms arguments
          MinNow,      \* GetCurrentMS() ranges over MinNow..MaxNow
          MaxNow,
          RollMs       \* 60 * 60 * 1000, what counts as the clock set back

\* The clock is past its first hour, so m_previouseTime - RollMs is no
\* unsigned wrap-around.
ASSUME TimerAssumption ==
    /\ Timers \subseteq Nat
    /\ IsFiniteSet(Timers)
    /\ Intervals \subseteq Nat
    /\ RollMs \in Nat /\ MinNow \in Nat /\ MaxNow \in Nat
    /\ RollMs <= MinNow /\ MinNow <= MaxNow

VARIABLES
    clock,            \* GetCurrentMS()
    m_timers,         \* the set of queued timers
    m_next, m_ms, m_recurring, m_cb,     \* fields of each Timer
    status,           \* "none", "made" (before the insert) or "handle"
    m_tickled,
    m_previouseTime,
    pc, now_ms,       \* each poller: where in listExpiredCb, and its clock
    fires,            \* how often a timer was collected, up to 2  (history)
    cancelled,        \* timers whose cancel() returned true       (history)
    lookedAt,         \* deadline the last getNextTimer() answered (history)
    rolled,           \* a rollover since then                     (history)
    fault             \* "none", or "begin": *begin() of an empty set

timerVars == <<m_next, m_ms, m_recurring, m_cb, status>>
pollVars == <<pc, now_ms>>
historyVars == <<fires, cancelled, lookedAt, rolled>>

vars == <<clock, m_timers, timerVars, m_tickled, m_previouseTime, pollVars,
          historyVars, fault>>

Never == MaxNow + MaxNow + 1      \* ~0ull: later than any deadline compared

Init ==
    /\ clock \in MinNow..MaxNow
    /\ m_timers = {}
    /\ m_next = [t \in Timers |-> 0]
    /\ m_ms = [t \in Timers |-> 0]
    /\ m_recurring = [t \in Timers |-> FALSE]
    /\ m_cb = [t \in Timers |-> FALSE]
    /\ status = [t \in Timers |-> "none"]
    /\ m_tickled = FALSE
    /\ m_previouseTime = clock
    /\ pc = [p \in Pollers |-> "out"]
    /\ now_ms = [p \in Pollers |-> 0]
    /\ fires = [t \in Timers |-> 0]
    /\ cancelled = {}
    /\ lookedAt = Never
    /\ rolled = FALSE
    /\ fault = "none"

----------------------------------------------------------------------------
(* The clock.                                                              *)

Tick ==
    /\ fault = "none"
    /\ clock < MaxNow
    /\ clock' = clock + 1
    /\ UNCHANGED <<m_timers, timerVars, m_tickled, m_previouseTime, pollVars,
                   historyVars, fault>>

SetBack ==
    /\ fault = "none"
    /\ clock' \in MinNow..(clock - 1)
    /\ UNCHANGED <<m_timers, timerVars, m_tickled, m_previouseTime, pollVars,
                   historyVars, fault>>

----------------------------------------------------------------------------
(* Adding a timer.                                                         *)

\* Timer::Comparator.
Before(t, u, next) == next[t] < next[u] \/ (next[t] = next[u] /\ t < u)

IsBegin(t, set, next) == t \in set /\ \A u \in set \ {t} : Before(t, u, next)

\* addTimer(val, lock): insert, and call onTimerInsertedAtFront() if the
\* timer is now the first and nobody was called since getNextTimer().
AtFront_Last(t, set, next) == t \in set /\ \A u \in set \ {t} : Before(u, t, next)   \* mutant
AtFront(t, set, next) == IsBegin(t, set, next)

Insert(t, set, next) ==
    /\ m_timers' = set \cup {t}
    /\ m_tickled' = (m_tickled \/ AtFront(t, set \cup {t}, next))

\* addTimer(ms, cb, recurring): the constructor reads the clock ...
NewTimer(t, ms, recurring) ==
    /\ fault = "none"
    /\ status[t] = "none"
    /\ status' = [status EXCEPT ![t] = "made"]
    /\ m_next' = [m_next EXCEPT ![t] = ms + clock]
    /\ m_ms' = [m_ms EXCEPT ![t] = ms]
    /\ m_recurring' = [m_recurring EXCEPT ![t] = recurring]
    /\ m_cb' = [m_cb EXCEPT ![t] = TRUE]
    /\ UNCHANGED <<clock, m_timers, m_tickled, m_previouseTime, pollVars,
                   historyVars, fault>>

\* ... and then the timer is inserted under the write lock and returned.
AddTimer(t) ==
    /\ fault = "none"
    /\ status[t] = "made"
    /\ Insert(t, m_timers, m_next)
    /\ status' = [status EXCEPT ![t] = "handle"]
    /\ UNCHANGED <<clock, m_next, m_ms, m_recurring, m_cb, m_previouseTime,
                   pollVars, historyVars, fault>>

----------------------------------------------------------------------------
(* Operations on a handle.                                                 *)

\* cancel() that returns true; the erase is of whatever find() returned.
ClearCb(t) == m_cb' = [m_cb EXCEPT ![t] = FALSE]

Cancel_KeepsQueued(t) == UNCHANGED m_timers                     \* mutant
Unqueue(t) == m_timers' = m_timers \ {t}

Cancel(t) ==
    /\ fault = "none"
    /\ status[t] = "handle"
    /\ m_cb[t]
    /\ ClearCb(t)
    /\ Unqueue(t)
    /\ cancelled' = cancelled \cup {t}
    /\ UNCHANGED <<clock, m_next, m_ms, m_recurring, status, m_tickled,
                   m_previouseTime, pollVars, fires, lookedAt, rolled, fault>>

\* refresh() and reset() when they find the timer: erase, new deadline, insert.
Requeue(t, ms, next) ==
    /\ fault = "none"
    /\ status[t] = "handle"
    /\ m_cb[t]
    /\ t \in m_timers
    /\ m_ms' = [m_ms EXCEPT ![t] = ms]
    /\ m_next' = [m_next EXCEPT ![t] = next]
    /\ Insert(t, m_timers \ {t}, m_next')
    /\ UNCHANGED <<clock, m_recurring, m_cb, status, m_previouseTime,
                   pollVars, historyVars, fault>>

Refresh(t) == Requeue(t, m_ms[t], clock + m_ms[t])

Reset(t, ms, from_now) ==
    /\ ms # m_ms[t] \/ from_now
    /\ Requeue(t, ms, (IF from_now THEN clock ELSE m_next[t] - m_ms[t]) + ms)

----------------------------------------------------------------------------
(* The pollers.                                                            *)

\* getNextTimer() computes its answer from the first timer's deadline.
GetNextTimer(p) ==
    /\ fault = "none"
    /\ pc[p] = "out"
    /\ m_tickled' = FALSE
    /\ rolled' = FALSE
    /\ \/ m_timers = {} /\ lookedAt' = Never
       \/ \E t \in m_timers : IsBegin(t, m_timers, m_next) /\ lookedAt' = m_next[t]
    /\ UNCHANGED <<clock, m_timers, timerVars, m_previouseTime, pollVars,
                   fires, cancelled, fault>>

\* Leaving listExpiredCb(); its local now_ms is gone.
Return(p) == /\ pc' = [pc EXCEPT ![p] = "out"]
             /\ now_ms' = [now_ms EXCEPT ![p] = 0]

\* listExpiredCb(): the clock is read first ...
ListNow(p) ==
    /\ fault = "none"
    /\ pc[p] = "out"
    /\ now_ms' = [now_ms EXCEPT ![p] = clock]
    /\ pc' = [pc EXCEPT ![p] = "empty?"]
    /\ UNCHANGED <<clock, m_timers, timerVars, m_tickled, m_previouseTime,
                   historyVars, fault>>

\* ... then m_timers is tested under the read lock, which is released ...
ListEmpty(p) ==
    /\ fault = "none"
    /\ pc[p] = "empty?"
    /\ IF m_timers = {} THEN Return(p)
       ELSE pc' = [pc EXCEPT ![p] = "collect"] /\ UNCHANGED now_ms
    /\ UNCHANGED <<clock, m_timers, timerVars, m_tickled, m_previouseTime,
                   historyVars, fault>>

Rollover(now) == now < m_previouseTime /\ now < m_previouseTime - RollMs

\* The set that is collected: everything after a rollover; else nothing if
\* the first timer is overdue, and the timers due at this very moment if not.
Expired(now) ==
    IF Rollover(now) THEN m_timers
    ELSE IF \E t \in m_timers : m_next[t] < now THEN {}
    ELSE {t \in m_timers : m_next[t] = now}

Recur(set) == {t \in set : m_recurring[t]}

Bump(n) == IF n < 2 THEN n + 1 ELSE n

Uncollected_All(set) == m_cb                                    \* mutant
Uncollected(set) ==
    [t \in Timers |-> IF t \in set \ Recur(set) THEN FALSE ELSE m_cb[t]]

\* ... then, under the write lock, the expired callbacks are collected.
ListCollect(p) ==
    LET now == now_ms[p]
        set == Expired(now)
    IN
    /\ fault = "none"
    /\ pc[p] = "collect"
    /\ m_timers # {} \/ Rollover(now)
    /\ Return(p)
    /\ m_previouseTime' = now
    /\ m_timers' = (m_timers \ set) \cup Recur(set)
    /\ m_next' = [t \in Timers |-> IF t \in Recur(set) THEN now + m_ms[t]
                                                      ELSE m_next[t]]
    /\ m_cb' = Uncollected(set)
    /\ fires' = [t \in Timers |-> IF t \in set THEN Bump(fires[t]) ELSE fires[t]]
    /\ rolled' = (rolled \/ Rollover(now))
    /\ UNCHANGED <<clock, m_ms, m_recurring, status, m_tickled, cancelled,
                   lookedAt, fault>>

\* The set has become empty between the two locks: *m_timers.begin().
ListBeginOfEmpty(p) ==
    /\ fault = "none"
    /\ pc[p] = "collect"
    /\ m_timers = {}
    /\ ~Rollover(now_ms[p])
    /\ fault' = "begin"
    /\ UNCHANGED <<clock, m_timers, timerVars, m_tickled, m_previouseTime,
                   pollVars, historyVars>>

----------------------------------------------------------------------------
Halted == fault # "none" /\ UNCHANGED vars

Next ==
    \/ Tick \/ SetBack
    \/ \E t \in Timers, ms \in Intervals, r \in BOOLEAN : NewTimer(t, ms, r)
    \/ \E t \in Timers : AddTimer(t) \/ Cancel(t) \/ Refresh(t)
    \/ \E t \in Timers, ms \in Intervals, b \in BOOLEAN : Reset(t, ms, b)
    \/ \E p \in Pollers : \/ GetNextTimer(p) \/ ListNow(p) \/ ListEmpty(p)
                          \/ ListCollect(p) \/ ListBeginOfEmpty(p)
    \/ Halted

Spec == Init /\ [][Next]_vars

----------------------------------------------------------------------------
(* Properties.                                                             *)

\* The variables have their types.
TypeOK ==
    /\ clock \in MinNow..MaxNow
    /\ m_timers \subseteq Timers
    /\ m_next \in [Timers -> Int]
    /\ m_ms \in [Timers -> Nat]
    /\ m_recurring \in [Timers -> BOOLEAN]
    /\ m_cb \in [Timers -> BOOLEAN]
    /\ status \in [Timers -> {"none", "made", "handle"}]
    /\ m_tickled \in BOOLEAN
    /\ m_previouseTime \in Nat
    /\ pc \in [Pollers -> {"out", "empty?", "collect"}]
    /\ now_ms \in [Pollers -> Nat]
    /\ fires \in [Timers -> 0..2]
    /\ cancelled \subseteq Timers
    /\ lookedAt \in Int
    /\ rolled \in BOOLEAN
    /\ fault \in {"none", "begin"}

\* A handle has its callback exactly as long as it is queued: what makes the
\* erase(find(...)) of cancel(), which does not look at what find() returned,
\* an erase of the timer itself.
CbIffQueued ==
    \A t \in Timers : status[t] = "handle" => (m_cb[t] <=> t \in m_timers)

\* A one-shot timer is collected at most once, and not at all once cancel()
\* has returned true: exactly one of "it fired" and "I cancelled it" is told.
OneShotOnce ==
    \A t \in Timers :
       ~m_recurring[t] => /\ fires[t] <= 1
                          /\ fires[t] = 1 => t \notin cancelled /\ t \notin m_timers

\* The stages of a timer: one that is not inserted yet was neither collected
\* nor cancelled, it has its callback when it is about to be inserted, and a
\* cancelled one has lost it for good.
Lifecycle ==
    \A t \in Timers :
       /\ status[t] # "handle" => t \notin m_timers \cup cancelled /\ fires[t] = 0
       /\ status[t] = "made" => m_cb[t]
       /\ t \in cancelled => ~m_cb[t]

\* A timer that is cancelled stays out of m_timers and is not collected.
CancelledStaysOut ==
    [][\A t \in cancelled : t \notin m_timers' /\ fires'[t] = fires[t]]_vars

\* Whoever sleeps on the answer of getNextTimer() has been notified when the
\* first deadline is now earlier than that answer (onTimerInsertedAtFront),
\* unless the clock was set back meanwhile.
FrontNotified ==
    ~rolled /\ (\E t \in m_timers : m_next[t] < lookedAt) => m_tickled

\* listExpiredCb() "gets the callbacks of all expired timers": when it has
\* collected at time now_ms, no one-shot timer due by then is left queued.
AllExpiredCollected ==
    [][\A p \in Pollers :
          pc[p] = "collect" /\ pc'[p] = "out" =>
             \A t \in m_timers' : ~m_recurring[t] => m_next[t] > now_ms[p]]_vars

\* Cancelling the last timer while another thread polls is safe.
NoBeginOfEmpty == fault = "none"
=============================================================================
