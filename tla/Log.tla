-------------------------------- MODULE Log --------------------------------
(***************************************************************************)
(* The loggers of src/awcotn/log.{h,cc} and the listener that applies the  *)
(* configuration variable "logs" to them.                                  *)
(*                                                                         *)
(* An event passes the level test of the macro, then that of log(), both   *)
(* without a lock; log() then takes the mutex of the logger and hands the  *)
(* event to the appenders, or, when there are none, to the root logger     *)
(* while it keeps that mutex.  The listener works through the definitions  *)
(* one call at a time, each under the mutex of the logger: events, user    *)
(* calls and the listener interleave between these calls.                  *)
(*                                                                         *)
(* The root logger's mutex and the manager's are never held across a step. *)
(* An appender belongs to one logger.                                      *)
(***************************************************************************)
EXTENDS LogDefine, FiniteSets

CONSTANTS Names,      \* loggers
          Root,       \* "root"
          Rank,       \* the order of the names in a std::set<LogDefine>
          Configs,    \* the values that "logs" takes
          Invalid,    \* patterns that LogFormatter finds in error
          Default,    \* the pattern of a new logger
          Threads,
          Levels,     \* of events, and of setLevel()
          Patterns,   \* of setFormatter()
          MaxEvents,  \* bound: events of each thread
          MaxCalls    \* bound: calls of the program on its loggers

\* LogAppenderDefine and LogDefine.
AppenderDefs == [type: {File, Stdout}, file: Strings, level: Nat, formatter: STRING]
Defines == [name: Names, level: Nat, formatter: STRING, appenders: Seq(AppenderDefs)]

\* A value of "logs" is a function from names to definitions or Undef.
ASSUME LogAssumption ==
    /\ Root \in Names /\ IsFiniteSet(Names)
    /\ Rank \in [Names -> Nat] /\ \A m, n \in Names : Rank[m] = Rank[n] => m = n
    /\ Undef \notin Names \cup Defines \cup Strings \cup {LogLevel_ToString(x) : x \in 0..FATAL}
    /\ Configs \subseteq [Names -> Defines \cup {Undef}]
    /\ \A c \in Configs, n \in Names : c[n] # Undef => c[n].name = n
    /\ Default \in STRING \ Invalid /\ Patterns \subseteq STRING /\ Levels \subseteq Nat
    /\ MaxEvents \in Nat /\ MaxCalls \in Nat

VARIABLES
    m_loggers,   \* the names that getLogger() has met
    logger,      \* level, formatter and appenders of each
    value,       \* g_log_defines
    listener,    \* where the thread that sets it is
    th,          \* where each logging thread is
    budget,      \* events each thread may still log
    calls,       \* calls of the program so far
    touched,     \* loggers the program changed since their definition was
                 \* applied                                       (history)
    removed      \* loggers that a load with a new or changed definition
                 \* removed, and that none defined since          (history)

setVars == <<value, listener, removed>>
logVars == <<th, budget>>
vars == <<m_loggers, logger, setVars, logVars, calls, touched>>

\* An appender as addAppender() leaves it; own is m_hasFormatter.
Appender(type, file, level, own, pattern) ==
    [type |-> type, file |-> file, level |-> level, own |-> own, formatter |-> pattern]

NewLogger == [level |-> DEBUG, formatter |-> Default, appenders |-> <<>>]
RootLogger ==
    [NewLogger EXCEPT !.appenders = <<Appender(Stdout, Blank, DEBUG, FALSE, Default)>>]

NoDefines == [n \in Names |-> Undef]
Defined(c) == {n \in Names : c[n] # Undef}

Idle == [at |-> "idle"]

Init ==
    /\ m_loggers = {Root}
    /\ logger = [n \in Names |-> IF n = Root THEN RootLogger ELSE NewLogger]
    /\ value = NoDefines
    /\ listener = Idle
    /\ th = [t \in Threads |-> Idle]
    /\ budget = [t \in Threads |-> MaxEvents]
    /\ calls = 0
    /\ touched = {}
    /\ removed = {}

----------------------------------------------------------------------------
(* Logging.                                                                *)

\* The logger whose mutex a thread keeps while it is in the root's log().
Locked(n) == \E t \in Threads : th[t].at \in {"root", "rootlock"} /\ th[t].name = n

MRoot(n) == IF n = Root THEN Undef ELSE Root      \* m_root, set by getLogger()

\* AWCOTN_LOG_NAME(n), then the level test of AWCOTN_LOG_LEVEL().
Event(t, n, level) ==
    /\ th[t] = Idle /\ budget[t] > 0
    /\ m_loggers' = m_loggers \cup {n}
    /\ budget' = [budget EXCEPT ![t] = @ - 1]
    /\ th' = [th EXCEPT ![t] = IF logger[n].level <= level
                               THEN [at |-> "event", name |-> n, level |-> level]
                               ELSE Idle]
    /\ UNCHANGED <<logger, setVars, calls, touched>>

Goto(t, label) ==
    /\ th' = [th EXCEPT ![t] = IF label = "idle" THEN Idle ELSE [@ EXCEPT !.at = label]]
    /\ UNCHANGED <<m_loggers, logger, setVars, budget, calls, touched>>

\* ~LogEventWrap(): log() looks at the level again, still without the lock.
LogLevelTest(t) ==
    /\ th[t].at = "event"
    /\ Goto(t, IF th[t].level >= logger[th[t].name].level THEN "lock" ELSE "idle")

\* Under the mutex: every appender writes the event, or the root gets it.
LogLocked(t) ==
    LET n == th[t].name IN
    /\ th[t].at = "lock"
    /\ ~Locked(n)
    /\ Goto(t, IF logger[n].appenders = <<>> /\ MRoot(n) # Undef THEN "root" ELSE "idle")

\* m_root->log(): its level test, its mutex, its appenders.
RootLevelTest(t) ==
    /\ th[t].at = "root"
    /\ Goto(t, IF th[t].level >= logger[Root].level THEN "rootlock" ELSE "idle")

RootLocked(t) ==
    /\ th[t].at = "rootlock"
    /\ ~Locked(Root)
    /\ Goto(t, "idle")

----------------------------------------------------------------------------
(* The calls on a logger.                                                  *)

SetFormatter_Own(l, p) == [l EXCEPT !.formatter = p]            \* mutant
SetFormatter(l, p) ==
    [l EXCEPT !.formatter = p,
              !.appenders = [x \in DOMAIN l.appenders |->
                               IF l.appenders[x].own THEN l.appenders[x]
                               ELSE [l.appenders[x] EXCEPT !.formatter = p]]]

AddAppender(l, a) ==
    [l EXCEPT !.appenders =
        Append(@, IF a.own THEN a ELSE [a EXCEPT !.formatter = l.formatter])]
ClearAppenders(l) == [l EXCEPT !.appenders = <<>>]
SetLevel(l, level) == [l EXCEPT !.level = level]

DelAppender(l, x) ==
    [l EXCEPT !.appenders = SubSeq(@, 1, x - 1) \o SubSeq(@, x + 1, Len(@))]

\* The program calls one of them.  An invalid pattern changes nothing.
UserCall(n) ==
    LET l == logger[n] IN
    /\ calls < MaxCalls /\ calls' = calls + 1
    /\ n \in m_loggers
    /\ \/ \E level \in Levels : logger' = [logger EXCEPT ![n] = SetLevel(l, level)]
       \/ /\ ~Locked(n)
          /\ \/ \E p \in Patterns \ Invalid : logger' = [logger EXCEPT ![n] = SetFormatter(l, p)]
             \/ \E own \in BOOLEAN, p \in Patterns \ Invalid :
                  logger' = [logger EXCEPT ![n] =
                               AddAppender(l, Appender(Stdout, Blank, DEBUG, own, p))]
             \/ \E x \in DOMAIN l.appenders : logger' = [logger EXCEPT ![n] = DelAppender(l, x)]
             \/ logger' = [logger EXCEPT ![n] = ClearAppenders(l)]
    /\ touched' = touched \cup {n}
    /\ UNCHANGED <<m_loggers, setVars, logVars>>

----------------------------------------------------------------------------
(* The listener.  ConfigVar::setValue() calls it with the old and the new  *)
(* value and assigns afterwards.  It announces itself on the root logger,  *)
(* which changes nothing here.                                             *)

At(label) == listener.at = label
Cur == listener.cur
Def == listener.new[Cur]
First(S) == CHOOSE n \in S : \A m \in S : Rank[n] <= Rank[m]
Move(l) == listener' = l /\ UNCHANGED <<value, removed, logVars, calls>>

SetValue(new) ==
    /\ At("idle") /\ new # value
    /\ Move([at |-> "next", new |-> new, todo |-> Defined(new), cur |-> Root, k |-> 1, gone |-> {}])
    /\ UNCHANGED <<m_loggers, logger, touched>>

Same_Never(n) == FALSE                                          \* mutant
Same(n) == value[n] = listener.new[n]

\* New or changed: getLogger().  Unchanged: continue.
NextDefine ==
    LET n == First(listener.todo)
        rest == listener.todo \ {n} IN
    /\ At("next") /\ listener.todo # {}
    /\ \/ Same(n) /\ Move([listener EXCEPT !.todo = rest]) /\ UNCHANGED m_loggers
       \/ /\ ~Same(n)
          /\ Move([listener EXCEPT !.todo = rest, !.cur = n, !.at = "level"])
          /\ m_loggers' = m_loggers \cup {n}
    /\ UNCHANGED <<logger, touched>>

ApplyLevel ==
    /\ At("level")
    /\ logger' = [logger EXCEPT ![Cur] = SetLevel(@, Def.level)]
    /\ touched' = touched \ {Cur}
    /\ Move([listener EXCEPT !.at = "formatter"])
    /\ UNCHANGED m_loggers

\* setFormatter() unless there is none to set, or it is in error.
Usable(p) == p # Blank /\ p \notin Invalid

ApplyFormatter ==
    /\ At("formatter")
    /\ \/ ~Usable(Def.formatter) /\ UNCHANGED logger
       \/ /\ Usable(Def.formatter) /\ ~Locked(Cur)
          /\ logger' = [logger EXCEPT ![Cur] = SetFormatter(@, Def.formatter)]
    /\ Move([listener EXCEPT !.at = "clear"])
    /\ UNCHANGED <<m_loggers, touched>>

ApplyClear_Missing ==                                           \* mutant
    /\ At("clear")
    /\ Move([listener EXCEPT !.at = "add", !.k = 1])
    /\ UNCHANGED <<m_loggers, logger, touched>>
ApplyClear ==
    /\ At("clear") /\ ~Locked(Cur)
    /\ logger' = [logger EXCEPT ![Cur] = ClearAppenders(@)]
    /\ Move([listener EXCEPT !.at = "add", !.k = 1])
    /\ UNCHANGED <<m_loggers, touched>>

\* The appender of a definition; with no usable pattern of its own it gets
\* the logger's.
Made(a) == Appender(a.type, IF a.type = File THEN a.file ELSE Blank, a.level,
                    Usable(a.formatter), a.formatter)

ApplyAppender ==
    /\ At("add") /\ listener.k <= Len(Def.appenders) /\ ~Locked(Cur)
    /\ logger' = [logger EXCEPT ![Cur] = AddAppender(@, Made(Def.appenders[listener.k]))]
    /\ Move([listener EXCEPT !.k = @ + 1])
    /\ UNCHANGED <<m_loggers, touched>>

\* The loop over the old definitions, inside the loop over the new ones.
Gone_Missing == {}                                              \* mutant
Gone == Defined(value) \ Defined(listener.new)

ApplyDone ==
    /\ At("add") /\ listener.k > Len(Def.appenders)
    /\ Move([listener EXCEPT !.at = "remove", !.gone = Gone])
    /\ UNCHANGED <<m_loggers, logger, touched>>

RemoveLevel ==
    LET n == First(listener.gone) IN
    /\ At("remove") /\ listener.gone # {}
    /\ m_loggers' = m_loggers \cup {n}
    /\ logger' = [logger EXCEPT ![n] = SetLevel(@, Silent)]
    /\ touched' = touched \ {n}
    /\ Move([listener EXCEPT !.at = "removing"])

RemoveClear_NoAdvance ==                                        \* mutant
    LET n == First(listener.gone) IN
    /\ At("removing") /\ ~Locked(n)
    /\ logger' = [logger EXCEPT ![n] = ClearAppenders(@)]
    /\ Move([listener EXCEPT !.at = "remove"])
    /\ UNCHANGED <<m_loggers, touched>>
RemoveClear ==
    LET n == First(listener.gone) IN
    /\ At("removing") /\ ~Locked(n)
    /\ logger' = [logger EXCEPT ![n] = ClearAppenders(@)]
    /\ Move([listener EXCEPT !.at = "remove", !.gone = @ \ {n}])
    /\ UNCHANGED <<m_loggers, touched>>

RemoveDone ==
    /\ At("remove") /\ listener.gone = {}
    /\ Move([listener EXCEPT !.at = "next"])
    /\ UNCHANGED <<m_loggers, logger, touched>>

\* What a load with a new or changed definition takes out of the value.
Dismissed ==
    {n \in Defined(value) : /\ listener.new[n] = Undef
                            /\ \E m \in Defined(listener.new) : listener.new[m] # value[m]}

Assign ==
    /\ At("next") /\ listener.todo = {}
    /\ value' = listener.new
    /\ removed' = (removed \cup Dismissed) \ Defined(listener.new)
    /\ listener' = Idle
    /\ UNCHANGED <<m_loggers, logger, logVars, calls, touched>>

----------------------------------------------------------------------------
LogStep(t) == LogLevelTest(t) \/ LogLocked(t) \/ RootLevelTest(t) \/ RootLocked(t)
ListenerStep ==
    \/ NextDefine \/ ApplyLevel \/ ApplyFormatter \/ ApplyClear \/ ApplyAppender
    \/ ApplyDone \/ RemoveLevel \/ RemoveClear \/ RemoveDone \/ Assign

Next ==
    \/ \E t \in Threads, n \in Names, level \in Levels : Event(t, n, level)
    \/ \E t \in Threads : LogStep(t)
    \/ \E n \in Names : UserCall(n)
    \/ \E new \in Configs : SetValue(new)
    \/ ListenerStep

Spec == Init /\ [][Next]_vars

\* A thread inside log() or inside the listener goes on.  The mutexes need
\* no more than that: a thread logs finitely often, so nobody waits for a
\* mutex that is taken for ever.
FairSpec == Spec /\ WF_vars(ListenerStep) /\ \A t \in Threads : WF_vars(LogStep(t))

----------------------------------------------------------------------------
(* Properties.                                                             *)

Appenders == [type: {File, Stdout}, file: Strings, level: Nat, own: BOOLEAN, formatter: STRING]
Loggers == [level: Nat, formatter: STRING, appenders: Seq(Appenders)]
Logging == [at: {"event", "lock", "root", "rootlock"}, name: Names, level: Levels]
Loading == [at: {"next", "level", "formatter", "clear", "add", "remove", "removing"},
            new: Configs, todo: SUBSET Names, cur: Names, k: Nat \ {0}, gone: SUBSET Names]

\* The variables have their types.
TypeOK ==
    /\ m_loggers \subseteq Names
    /\ logger \in [Names -> Loggers]
    /\ value \in Configs \cup {NoDefines}
    /\ listener \in Loading \cup {Idle}
    /\ th \in [Threads -> Logging \cup {Idle}]
    /\ budget \in [Threads -> 0..MaxEvents] /\ calls \in 0..MaxCalls
    /\ touched \subseteq Names /\ removed \subseteq Names

\* An appender without a pattern of its own has that of its logger at all
\* times, so a formatter is never missing and never stale.
FormatterFollows ==
    \A n \in Names : \A x \in DOMAIN logger[n].appenders :
       ~logger[n].appenders[x].own => logger[n].appenders[x].formatter = logger[n].formatter

\* What the listener makes of a definition, whatever the logger was before.
Built(d, pattern) ==
    [x \in DOMAIN d.appenders |->
       IF Usable(d.appenders[x].formatter) THEN Made(d.appenders[x])
       ELSE [Made(d.appenders[x]) EXCEPT !.formatter = pattern]]

Conforms(n, d) ==
    /\ n \in m_loggers
    /\ logger[n].level = d.level
    /\ Usable(d.formatter) => logger[n].formatter = d.formatter
    /\ logger[n].appenders = Built(d, logger[n].formatter)

\* Once the listener has returned, every logger that the program left alone
\* is as the current value of "logs" defines it.
ConfApplied ==
    At("idle") => \A n \in Defined(value) \ touched : Conforms(n, value[n])

\* A load that defines or changes some logger silences every logger that it
\* no longer names, and it stays so until it is defined or called again.
RemovedSilent ==
    At("idle") => \A n \in removed \ touched :
                     logger[n].level = Silent /\ logger[n].appenders = <<>>

\* While a logger keeps a definition with appenders none of its events is
\* diverted to the root, through any number of reconfigurations around it.
Kept(n) ==
    /\ value[n] # Undef /\ value[n].appenders # <<>> /\ n \notin touched
    /\ At("idle") \/ listener.new[n] = value[n]
Undisturbed == \A n \in Names : Locked(n) => ~Kept(n)

\* The text of toYamlString() is a definition that makes the same logger
\* again, but for the levels of its appenders, which are never read, of the
\* level of a removed logger, which is none, and of empty patterns, which
\* read as none.
NoBlank(l) ==
    /\ l.formatter # Blank
    /\ \A x \in DOMAIN l.appenders : l.appenders[x].own => l.appenders[x].formatter # Blank
DumpReloads ==
    \A n \in Names : logger[n].level <= FATAL /\ NoBlank(logger[n]) =>
       LET d == LogDefineFrom(LoggerToYaml(n, logger[n])) IN
       /\ d.level = logger[n].level
       /\ d.formatter = logger[n].formatter /\ Usable(d.formatter)
       /\ Built(d, d.formatter) =
            [x \in DOMAIN logger[n].appenders |->
               [logger[n].appenders[x] EXCEPT !.level = UNKNOW]]

\* The listener returns although it waits for the mutexes of loggers whose
\* events are inside the root's log(): no thread keeps one for ever.
LoadReturns == ~At("idle") ~> At("idle")
=============================================================================
