------------------------------ MODULE LogProofs ------------------------------
(***************************************************************************)
(* Proofs about Log, for every set of loggers and threads, every set of    *)
(* configurations and any number of loads, calls and events.               *)
(***************************************************************************)
EXTENDS Log, SequenceTheorems, FiniteSetTheorems, WellFoundedInduction, TLAPS

----------------------------------------------------------------------------
(* Lemmas about the operators.                                             *)

\* A set of definitions that is not empty has a first one.
LEMMA FirstIsMember == ASSUME NEW S \in SUBSET Names, S # {} PROVE First(S) \in S
<1> DEFINE R == {Rank[n] : n \in S}
           less == {p \in Nat \X Nat : p[1] < p[2]}
<1>1. R \subseteq Nat /\ R # {}
  BY LogAssumption
<1>2. PICK x \in R : \A y \in R : ~ (<<y, x>> \in less)
  <2>1. IsWellFoundedOn(less, Nat)
    BY NatLessThanWellFounded DEF OpToRel
  <2> HIDE DEF less, R
  <2> QED BY <1>1, <2>1, WFMin
<1>3. ASSUME NEW y \in R PROVE x <= y
  <2>1. x \in Nat /\ y \in Nat
    BY <1>1
  <2>2. ~(y < x)
    <3>1. SUFFICES ASSUME y < x PROVE <<y, x>> \in less
      BY <1>2
    <3>2. <<y, x>> \in Nat \X Nat /\ <<y, x>>[1] < <<y, x>>[2]
      BY <2>1, <3>1
    <3> QED BY <3>2
  <2> QED BY <2>1, <2>2
<1>4. \E n \in S : \A m \in S : Rank[n] <= Rank[m]
  BY <1>1, <1>3
<1> QED BY <1>4 DEF First

\* A value of "logs" maps each name to a definition of that name, or to none.
LEMMA ConfigTypes ==
  ASSUME NEW c \in Configs \cup {NoDefines}
  PROVE  /\ Defined(c) \subseteq Names
         /\ \A n \in Names : c[n] = Undef \/ c[n] \in Defines
         /\ \A n \in Defined(c) : c[n] \in Defines
         /\ \A n \in Names \ Defined(c) : c[n] = Undef
BY LogAssumption DEF NoDefines, Defined

\* Its own pattern is none in error, and only files have names.
Proper(a) == /\ a.own => a.formatter \notin Invalid
             /\ a.type # File => a.file = Blank

\* A logger has no pattern in error, and an appender without a pattern of its
\* own has that of its logger.
Sound(l) == /\ l.formatter \notin Invalid
            /\ \A x \in DOMAIN l.appenders :
                  /\ ~l.appenders[x].own => l.appenders[x].formatter = l.formatter
                  /\ Proper(l.appenders[x])

\* setLevel() keeps the type of a logger, and its appenders in step with it.
LEMMA SetLevelWorks ==
  ASSUME NEW l \in Loggers, NEW level \in Nat
  PROVE  /\ SetLevel(l, level) \in Loggers
         /\ Sound(l) => Sound(SetLevel(l, level))
BY DEF SetLevel, Loggers, Sound, Proper

\* setFormatter() reaches every appender without a pattern of its own.
LEMMA SetFormatterWorks ==
  ASSUME NEW l \in Loggers, NEW p \in STRING
  PROVE  /\ SetFormatter(l, p) \in Loggers
         /\ Sound(l) /\ p \notin Invalid => Sound(SetFormatter(l, p))
<1> DEFINE f(x) == IF l.appenders[x].own THEN l.appenders[x]
                   ELSE [l.appenders[x] EXCEPT !.formatter = p]
<1>1. l.appenders \in Seq(Appenders)
  BY DEF Loggers
<1>2. ASSUME NEW x \in DOMAIN l.appenders
      PROVE  l.appenders[x] \in Appenders /\ f(x) \in Appenders
  <2>1. l.appenders[x] \in Appenders
    BY <1>1, ElementOfSeq, LenProperties
  <2> QED BY <2>1 DEF Appenders
<1>3. [x \in DOMAIN l.appenders |-> f(x)] \in Seq(Appenders)
  <2>1. DOMAIN l.appenders = 1..Len(l.appenders) /\ Len(l.appenders) \in Nat
    BY <1>1, LenProperties
  <2> HIDE DEF f
  <2>2. [x \in 1..Len(l.appenders) |-> f(x)] \in Seq(Appenders)
    BY <1>2, <2>1, IsASeq
  <2> QED BY <2>1, <2>2
<1>4. /\ SetFormatter(l, p).appenders = [x \in DOMAIN l.appenders |-> f(x)]
      /\ SetFormatter(l, p).formatter = p
      /\ SetFormatter(l, p).level = l.level
      /\ SetFormatter(l, p) \in Loggers
  BY <1>3 DEF SetFormatter, Loggers
<1>5. ASSUME NEW x \in DOMAIN l.appenders, Proper(l.appenders[x])
      PROVE  (~f(x).own => f(x).formatter = p) /\ Proper(f(x))
  BY <1>2, <1>5 DEF Appenders, Proper
<1> QED BY <1>4, <1>5 DEF Sound

\* addAppender() gives the formatter to such an appender.
LEMMA AddAppenderWorks ==
  ASSUME NEW l \in Loggers, NEW a \in Appenders
  PROVE  /\ AddAppender(l, a) \in Loggers
         /\ Sound(l) /\ Proper(a) => Sound(AddAppender(l, a))
<1> DEFINE b == IF a.own THEN a ELSE [a EXCEPT !.formatter = l.formatter]
<1>1. l.appenders \in Seq(Appenders) /\ b \in Appenders
  BY DEF Loggers, Appenders
<1>2. /\ AddAppender(l, a).appenders = Append(l.appenders, b)
      /\ AddAppender(l, a).formatter = l.formatter
      /\ AddAppender(l, a) \in Loggers
  BY <1>1 DEF AddAppender, Loggers
<1>3. (~b.own => b.formatter = l.formatter) /\ (Proper(a) => Proper(b))
  BY DEF Appenders, Proper
<1> HIDE DEF b
<1> QED BY <1>1, <1>2, <1>3, AppendProperties DEF Sound

\* clearAppenders() leaves none.
LEMMA ClearAppendersWorks ==
  ASSUME NEW l \in Loggers
  PROVE  ClearAppenders(l) \in Loggers /\ (Sound(l) => Sound(ClearAppenders(l)))
<1>1. <<>> \in Seq(Appenders) /\ DOMAIN <<>> = {}
  BY EmptySeq
<1> QED BY <1>1 DEF ClearAppenders, Loggers, Sound

\* delAppender() leaves the others as they were.
LEMMA DelAppenderWorks ==
  ASSUME NEW l \in Loggers, NEW x \in DOMAIN l.appenders
  PROVE  /\ DelAppender(l, x) \in Loggers
         /\ Sound(l) => Sound(DelAppender(l, x))
<1> DEFINE s == l.appenders
           a == SubSeq(s, 1, x - 1)
           b == SubSeq(s, x + 1, Len(s))
<1>1. s \in Seq(Appenders) /\ x \in 1..Len(s) /\ Len(s) \in Nat
  BY LenProperties DEF Loggers
<1>2. /\ a \in Seq(Appenders) /\ b \in Seq(Appenders)
      /\ Len(a) = x - 1 /\ Len(b) = Len(s) - x
      /\ \A y \in 1..Len(a) : a[y] = s[y]
      /\ \A y \in 1..Len(b) : b[y] = s[x + y]
  <2> HIDE DEF s
  <2>1. \A y \in 1..Len(s) : s[y] \in Appenders
    BY <1>1, ElementOfSeq
  <2>2. /\ a \in Seq(Appenders) /\ Len(a) = x - 1
        /\ \A y \in 1..(x - 1) : a[y] = s[y]
    <3>1. /\ 1 \in Int /\ x - 1 \in Int /\ 1..(x - 1) \subseteq 1..Len(s)
          /\ (IF 1 <= x - 1 THEN x - 1 - 1 + 1 ELSE 0) = x - 1
          /\ 1..(x - 1 - 1 + 1) = 1..(x - 1)
          /\ \A y \in 1..(x - 1) : 1 + y - 1 = y
      BY <1>1
    <3> QED BY <2>1, <3>1, SubSeqProperties
  <2>3. /\ b \in Seq(Appenders) /\ Len(b) = Len(s) - x
        /\ \A y \in 1..(Len(s) - x) : b[y] = s[x + y]
    <3>1. x \in Int /\ Len(s) \in Int /\ 1 <= x /\ x <= Len(s)
      BY <1>1
    <3>2. \A i \in (x + 1)..Len(s) : s[i] \in Appenders
      BY <2>1, <3>1
    <3>3. x + 1 \in Int
      BY <3>1
    <3>4. /\ b \in Seq(Appenders)
          /\ Len(b) = IF x + 1 <= Len(s) THEN Len(s) - (x + 1) + 1 ELSE 0
          /\ \A i \in 1..(Len(s) - (x + 1) + 1) : b[i] = s[(x + 1) + i - 1]
      BY <3>1, <3>2, <3>3, SubSeqProperties
    <3>5. Len(b) = Len(s) - x
      BY <3>1, <3>4
    <3>6. ASSUME NEW y \in 1..(Len(s) - x) PROVE b[y] = s[x + y]
      <4>1. y \in 1..(Len(s) - (x + 1) + 1) /\ (x + 1) + y - 1 = x + y
        BY <3>1
      <4> QED BY <3>4, <4>1
    <3> QED BY <3>4, <3>5, <3>6
  <2> QED BY <2>2, <2>3
<1>3. /\ a \o b \in Seq(Appenders) /\ Len(a \o b) = Len(s) - 1
      /\ \A y \in 1..Len(a \o b) : (a \o b)[y] = IF y < x THEN s[y] ELSE s[y + 1]
  <2> HIDE DEF a, b, s
  <2> QED BY <1>1, <1>2
<1>4. /\ DelAppender(l, x).appenders = a \o b
      /\ DelAppender(l, x).formatter = l.formatter
      /\ DelAppender(l, x) \in Loggers
  BY <1>3 DEF DelAppender, Loggers
<1>5. \A y \in 1..Len(a \o b) : \E z \in DOMAIN s : (a \o b)[y] = s[z]
  <2> HIDE DEF a, b, s
  <2> TAKE y \in 1..Len(a \o b)
  <2>1. DOMAIN s = 1..Len(s)
    BY <1>1
  <2>2. CASE y < x
    <3>1. y \in DOMAIN s
      BY <1>1, <1>3, <2>1, <2>2
    <3> QED BY <1>3, <2>2, <3>1
  <2>3. CASE ~(y < x)
    <3>1. y + 1 \in DOMAIN s
      BY <1>1, <1>3, <2>1, <2>3
    <3> QED BY <1>3, <2>3, <3>1
  <2> QED BY <2>2, <2>3
<1>6. DOMAIN (a \o b) = 1..Len(a \o b)
  BY <1>3
<1> HIDE DEF a, b
<1> QED BY <1>4, <1>5, <1>6 DEF Sound

\* The appender that the listener makes of a definition has its type.
LEMMA MadeType == ASSUME NEW a \in AppenderDefs PROVE Made(a) \in Appenders /\ Proper(Made(a))
BY DEF Made, Appender, Appenders, AppenderDefs, Usable, Strings, Proper, File, Stdout

\* A call of the program changes one logger, and keeps its type and its
\* appenders in step with it.
LEMMA UserCallWorks ==
  ASSUME TypeOK, NEW n \in Names, UserCall(n)
  PROVE  /\ logger' = [logger EXCEPT ![n] = logger'[n]]
         /\ logger'[n] \in Loggers
         /\ Sound(logger[n]) => Sound(logger'[n])
<1> DEFINE l == logger[n]
           Goal(m) == /\ m \in Loggers
                      /\ Sound(l) => Sound(m)
<1>1. logger \in [Names -> Loggers] /\ l \in Loggers
  BY DEF TypeOK
<1>2. SUFFICES \E m : Goal(m) /\ logger' = [logger EXCEPT ![n] = m]
  BY <1>1
<1>3. CASE \E level \in Levels : logger' = [logger EXCEPT ![n] = SetLevel(l, level)]
  BY <1>1, <1>3, SetLevelWorks, LogAssumption
<1>4. CASE \E p \in Patterns \ Invalid : logger' = [logger EXCEPT ![n] = SetFormatter(l, p)]
  BY <1>1, <1>4, SetFormatterWorks, LogAssumption
<1>5. CASE \E own \in BOOLEAN, p \in Patterns \ Invalid :
              logger' = [logger EXCEPT ![n] = AddAppender(l, Appender(Stdout, Blank, DEBUG, own, p))]
  <2>1. PICK own \in BOOLEAN, p \in Patterns \ Invalid :
              logger' = [logger EXCEPT ![n] = AddAppender(l, Appender(Stdout, Blank, DEBUG, own, p))]
    BY <1>5
  <2>2. Appender(Stdout, Blank, DEBUG, own, p) \in Appenders /\ Proper(Appender(Stdout, Blank, DEBUG, own, p))
    BY LogAssumption DEF Appender, Appenders, Strings, DEBUG, Proper
  <2> QED BY <1>1, <2>1, <2>2, AddAppenderWorks
<1>6. CASE \E x \in DOMAIN l.appenders : logger' = [logger EXCEPT ![n] = DelAppender(l, x)]
  BY <1>1, <1>6, DelAppenderWorks
<1>7. CASE logger' = [logger EXCEPT ![n] = ClearAppenders(l)]
  BY <1>1, <1>7, ClearAppendersWorks
<1> QED BY <1>3, <1>4, <1>5, <1>6, <1>7 DEF UserCall

----------------------------------------------------------------------------
(* Types.                                                                  *)

\* What the loggers are, and that the appenders follow them.
LoggersOK == /\ logger \in [Names -> Loggers]
             /\ \A n \in Names : Sound(logger[n])

\* The loop over the definitions works on defined loggers.
LoadShape ==
    ~At("idle") =>
       /\ listener.todo \subseteq Defined(listener.new)
       /\ listener.gone \subseteq Gone
       /\ At("removing") => listener.gone # {}
       /\ ~At("next") => /\ Cur \in Defined(listener.new) \ listener.todo
                         /\ Cur \in m_loggers
                         /\ listener.new[Cur] # value[Cur]
       /\ At("add") => listener.k <= Len(Def.appenders) + 1

TypeInv == TypeOK /\ LoggersOK /\ LoadShape

\* The listener is idle or in a load.
LEMMA ListenerTypes ==
  ASSUME TypeOK
  PROVE  /\ At("idle") <=> listener = Idle
         /\ ~At("idle") => /\ listener \in Loading /\ listener.new \in Configs
                           /\ listener.todo \subseteq Names /\ listener.gone \subseteq Names
                           /\ Cur \in Names /\ listener.k \in Nat \ {0}
BY DEF TypeOK, Loading, Idle, At, Cur

\* While a definition is applied it is one.
LEMMA DefTypes ==
  ASSUME TypeOK, LoadShape, ~At("idle"), ~At("next")
  PROVE  /\ Cur \in Names /\ Def \in Defines
         /\ Def.level \in Nat /\ Def.formatter \in STRING /\ Def.appenders \in Seq(AppenderDefs)
<1>1. listener.new \in Configs /\ Cur \in Defined(listener.new) /\ Cur \in Names
  BY ListenerTypes DEF LoadShape
<1>2. Def \in Defines
  BY <1>1, ConfigTypes DEF Def
<1> QED BY <1>1, <1>2 DEF Defines

\* The steps of an event change neither the loggers nor the load, take no
\* mutex but of a logger without appenders, and give up the others.
LEMMA LogSteps ==
  ASSUME TypeOK,
         \/ \E t \in Threads, n \in Names, level \in Levels : Event(t, n, level)
         \/ \E t \in Threads : LogStep(t)
  PROVE  /\ UNCHANGED <<logger, setVars, calls, touched>> /\ m_loggers \subseteq m_loggers'
         /\ m_loggers' \subseteq Names
         /\ th' \in [Threads -> Logging \cup {Idle}]
         /\ budget' \in [Threads -> 0..MaxEvents]
         /\ \A n \in Names : Locked(n)' => Locked(n) \/ logger[n].appenders = <<>>
<1> DEFINE Taken(r) == r.at \in {"root", "rootlock"} => logger[r.name].appenders = <<>>
<1>1. SUFFICES ASSUME NEW t \in Threads,
                      (\E n \in Names, level \in Levels : Event(t, n, level)) \/ LogStep(t)
               PROVE  /\ UNCHANGED <<logger, setVars, calls, touched>> /\ m_loggers \subseteq m_loggers'
                      /\ m_loggers' \subseteq Names
                      /\ th' \in [Threads -> Logging \cup {Idle}]
                      /\ budget' \in [Threads -> 0..MaxEvents]
                      /\ \A n \in Names : Locked(n)' => Locked(n) \/ logger[n].appenders = <<>>
  OBVIOUS
<1>2. /\ th \in [Threads -> Logging \cup {Idle}] /\ budget \in [Threads -> 0..MaxEvents]
      /\ m_loggers \subseteq Names
  BY DEF TypeOK
<1>3. \A label \in {"lock", "root", "rootlock"} :
        th[t] \in Logging => [th[t] EXCEPT !.at = label] \in Logging
  BY DEF Logging
<1>4. CASE \E n \in Names, level \in Levels : Event(t, n, level)
  <2>1. PICK n \in Names, level \in Levels : Event(t, n, level)
    BY <1>4
  <2>2. [at |-> "event", name |-> n, level |-> level] \in Logging
    BY DEF Logging
  <2>3. budget' \in [Threads -> 0..MaxEvents]
    BY <2>1, <1>2, LogAssumption DEF Event
  <2> QED BY <2>1, <2>2, <2>3, <1>2 DEF Event, Locked, Idle
<1>5. CASE LogStep(t)
  <2>1. th[t].at # "idle" /\ th[t] \in Logging
    BY <1>2, <1>5 DEF LogStep, LogLevelTest, LogLocked, RootLevelTest, RootLocked, Idle
  <2>2. PICK label \in {"idle", "lock", "root", "rootlock"} :
           /\ Goto(t, label)
           /\ label = "root" => logger[th[t].name].appenders = <<>>
           /\ label = "rootlock" => th[t].at = "root"
    BY <1>5 DEF LogStep, LogLevelTest, LogLocked, RootLevelTest, RootLocked
  <2>3. th'[t] = IF label = "idle" THEN Idle ELSE [th[t] EXCEPT !.at = label]
    BY <2>2, <1>2 DEF Goto
  <2>4. th'[t] \in Logging \cup {Idle} /\ th' \in [Threads -> Logging \cup {Idle}]
    BY <2>1, <2>2, <2>3, <1>2, <1>3 DEF Goto
  <2>5. ASSUME NEW n \in Names, Locked(n)' PROVE Locked(n) \/ logger[n].appenders = <<>>
    <3>1. PICK u \in Threads : th'[u].at \in {"root", "rootlock"} /\ th'[u].name = n
      BY <2>5 DEF Locked
    <3>2. CASE u # t
      <4>1. th'[u] = th[u]
        BY <2>2, <3>2, <1>2 DEF Goto
      <4> QED BY <3>1, <4>1 DEF Locked
    <3>3. CASE u = t
      <4>1. label \in {"root", "rootlock"} /\ th[t].name = n
        BY <2>1, <2>2, <2>3, <3>1, <3>3 DEF Idle, Logging
      <4> QED BY <2>2, <4>1 DEF Locked
    <3> QED BY <3>2, <3>3
  <2> QED BY <2>2, <2>4, <2>5, <1>2 DEF Goto, logVars
<1> QED BY <1>1, <1>4, <1>5

\* Initially the types hold.
LEMMA TypeInit == Init => TypeInv
<1> SUFFICES ASSUME Init PROVE TypeInv
  OBVIOUS
<1>1. NewLogger \in Loggers /\ Sound(NewLogger) /\ RootLogger \in Loggers /\ Sound(RootLogger)
  <2>1. NewLogger \in Loggers /\ Sound(NewLogger)
    <3>1. <<>> \in Seq(Appenders) /\ DOMAIN <<>> = {}
      BY EmptySeq
    <3> QED BY <3>1, LogAssumption DEF NewLogger, Loggers, Sound, DEBUG
  <2> DEFINE a == Appender(Stdout, Blank, DEBUG, FALSE, Default)
  <2>2. a \in Appenders /\ a.formatter = Default /\ Proper(a)
    BY LogAssumption DEF Appender, Appenders, Strings, DEBUG, Proper
  <2>3. RootLogger.appenders = <<a>> /\ RootLogger.level = DEBUG /\ RootLogger.formatter = Default
    BY DEF RootLogger, NewLogger
  <2>4. <<a>> \in Seq(Appenders) /\ \A x \in DOMAIN <<a>> : <<a>>[x] = a
    <3> HIDE DEF a
    <3> QED BY <2>2
  <2>5. RootLogger \in Loggers
    BY <2>1, <2>4 DEF RootLogger, Loggers, NewLogger
  <2> HIDE DEF a
  <2>6. ~a.own => a.formatter = RootLogger.formatter
    BY <2>2, <2>3
  <2>7. Sound(RootLogger)
    BY <2>2, <2>3, <2>4, <2>6, LogAssumption DEF Sound
  <2> QED BY <2>1, <2>5, <2>7
<1>2. logger \in [Names -> Loggers] /\ \A n \in Names : Sound(logger[n])
  BY <1>1 DEF Init
<1>3. TypeOK
  BY <1>2, LogAssumption DEF Init, TypeOK
<1> QED BY <1>2, <1>3 DEF TypeInv, LoggersOK, LoadShape, Init, At, Idle

\* A change of one logger that keeps it well formed keeps them all so.
LEMMA OneLogger ==
  ASSUME LoggersOK, NEW n \in Names, NEW l \in Loggers, Sound(logger[n]) => Sound(l),
         logger' = [logger EXCEPT ![n] = l]
  PROVE  LoggersOK'
<1>1. logger' \in [Names -> Loggers]
  BY DEF LoggersOK
<1>2. \A m \in Names : Sound(logger'[m])
  BY DEF LoggersOK
<1> QED BY <1>1, <1>2 DEF LoggersOK

\* The steps of the listener that apply a definition keep the types.
LEMMA ApplyKeepsTypes ==
  ASSUME TypeInv,
         ApplyLevel \/ ApplyFormatter \/ ApplyClear \/ ApplyAppender \/ ApplyDone
  PROVE  TypeInv'
<1> USE DEF TypeInv
<1>1. ~At("idle") /\ ~At("next") /\ listener \in Loading /\ Cur \in Names
  BY ListenerTypes DEF ApplyLevel, ApplyFormatter, ApplyClear, ApplyAppender, ApplyDone, At
<1>2. /\ Def.level \in Nat /\ Def.formatter \in STRING /\ Def.appenders \in Seq(AppenderDefs)
      /\ listener.todo \subseteq Defined(listener.new) /\ listener.gone \subseteq Gone
      /\ Cur \in Defined(listener.new) \ listener.todo
      /\ Cur \in m_loggers /\ listener.new[Cur] # value[Cur]
  BY <1>1, DefTypes DEF LoadShape
<1>3. logger[Cur] \in Loggers /\ Sound(logger[Cur])
  BY <1>1 DEF LoggersOK
<1>4. /\ m_loggers' \subseteq Names /\ value' \in Configs \cup {NoDefines}
      /\ th' \in [Threads -> Logging \cup {Idle}]
      /\ budget' \in [Threads -> 0..MaxEvents] /\ calls' \in 0..MaxCalls
      /\ touched' \subseteq Names /\ removed' \subseteq Names
  BY DEF TypeOK, ApplyLevel, ApplyFormatter, ApplyClear, ApplyAppender, ApplyDone, Move, logVars
<1>5. Gone \subseteq Names
  BY DEF Gone, Defined
<1>6. SUFFICES LoggersOK' /\ listener' \in Loading /\ LoadShape'
  BY <1>4 DEF TypeOK, LoggersOK
<1>7. CASE ApplyLevel
  <2>1. LoggersOK'
    BY <1>1, <1>2, <1>3, <1>7, SetLevelWorks, OneLogger DEF ApplyLevel, Move
  <2>2. listener' = [listener EXCEPT !.at = "formatter"] /\ UNCHANGED <<value, m_loggers>>
    BY <1>7 DEF ApplyLevel, Move
  <2> QED BY <2>1, <2>2, <1>1, <1>2 DEF LoadShape, Loading, At, Cur, Gone
<1>8. CASE ApplyFormatter
  <2>1. LoggersOK'
    BY <1>1, <1>2, <1>3, <1>8, SetFormatterWorks, OneLogger DEF ApplyFormatter, LoggersOK, Usable
  <2>2. listener' = [listener EXCEPT !.at = "clear"] /\ UNCHANGED <<value, m_loggers>>
    BY <1>8 DEF ApplyFormatter, Move
  <2> QED BY <2>1, <2>2, <1>1, <1>2 DEF LoadShape, Loading, At, Cur, Gone
<1>9. CASE ApplyClear
  <2>1. LoggersOK'
    BY <1>1, <1>2, <1>3, <1>9, ClearAppendersWorks, OneLogger DEF ApplyClear
  <2>2. listener' = [listener EXCEPT !.at = "add", !.k = 1] /\ UNCHANGED <<value, m_loggers>>
    BY <1>9 DEF ApplyClear, Move
  <2>3. Def' = Def /\ Len(Def.appenders) \in Nat
    BY <1>1, <1>2, <2>2 DEF Def, Cur, Loading
  <2>4. listener'.k <= Len(Def.appenders) + 1
    BY <2>2, <2>3, <1>1 DEF Loading
  <2>5. (Len(Def.appenders) + 1)' = Len(Def.appenders) + 1
    BY <2>3
  <2>6. listener' \in Loading
    <3>1. 1 \in Nat \ {0}
      OBVIOUS
    <3>2. \A j \in Nat \ {0} : [listener EXCEPT !.at = "add", !.k = j] \in Loading
      BY <1>1 DEF Loading
    <3> QED BY <2>2, <3>1, <3>2
  <2> QED BY <2>1, <2>2, <2>4, <2>5, <2>6, <1>1, <1>2 DEF LoadShape, Loading, At, Cur, Gone
<1>10. CASE ApplyAppender
  <2>1. listener.k \in 1..Len(Def.appenders) /\ Len(Def.appenders) \in Nat
    BY <1>1, <1>2, <1>10, ListenerTypes DEF ApplyAppender
  <2>2. LET a == Made(Def.appenders[listener.k]) IN a \in Appenders /\ Proper(a)
    BY <2>1, <1>2, MadeType, ElementOfSeq
  <2>3. LoggersOK'
    BY <2>2, <1>1, <1>3, <1>10, AddAppenderWorks, OneLogger DEF ApplyAppender
  <2>4. listener' = [listener EXCEPT !.k = @ + 1] /\ UNCHANGED <<value, m_loggers>>
    BY <1>10 DEF ApplyAppender, Move
  <2>5. Def' = Def /\ listener'.k = listener.k + 1
    BY <1>1, <1>2, <2>4 DEF Def, Cur, Loading
  <2>6. listener'.k <= Len(Def.appenders) + 1 /\ listener'.k \in Nat \ {0}
    BY <2>1, <2>5
  <2> QED BY <2>3, <2>4, <2>5, <2>6, <1>1, <1>2 DEF LoadShape, Loading, At, Cur, Gone
<1>11. CASE ApplyDone
  <2>1. listener' = [listener EXCEPT !.at = "remove", !.gone = Gone]
        /\ UNCHANGED <<value, m_loggers, logger>>
    BY <1>11 DEF ApplyDone, Move
  <2> QED BY <2>1, <1>1, <1>2, <1>5 DEF LoadShape, Loading, At, Cur, Gone, LoggersOK
<1> QED BY <1>7, <1>8, <1>9, <1>10, <1>11

\* Its other steps keep them.
LEMMA LoadKeepsTypes ==
  ASSUME TypeInv,
         \/ \E new \in Configs : SetValue(new)
         \/ NextDefine \/ RemoveLevel \/ RemoveClear \/ RemoveDone \/ Assign
  PROVE  TypeInv'
<1> USE DEF TypeInv
<1>1. /\ th' \in [Threads -> Logging \cup {Idle}]
      /\ budget' \in [Threads -> 0..MaxEvents] /\ calls' \in 0..MaxCalls
      /\ touched' \subseteq Names
  BY DEF TypeOK, SetValue, NextDefine, RemoveLevel, RemoveClear, RemoveDone, Assign, Move, logVars
<1>2. m_loggers \subseteq Names /\ value \in Configs \cup {NoDefines} /\ removed \subseteq Names
  BY DEF TypeOK
<1>3. CASE \E new \in Configs : SetValue(new)
  <2>1. PICK new \in Configs : SetValue(new)
    BY <1>3
  <2>2. listener' = [at |-> "next", new |-> new, todo |-> Defined(new), cur |-> Root, k |-> 1,
                     gone |-> {}]
    BY <2>1 DEF SetValue, Move
  <2>3. listener' \in Loading
    BY <2>2, LogAssumption DEF Loading, Defined
  <2>4. UNCHANGED <<m_loggers, logger, value, removed, touched>>
    BY <2>1 DEF SetValue, Move
  <2>5. LoadShape'
    BY <2>2, <2>4 DEF LoadShape, At
  <2> QED BY <2>3, <2>4, <2>5, <1>1, <1>2 DEF TypeOK, LoggersOK
<1>4. CASE NextDefine
  <2> DEFINE n == First(listener.todo)
  <2>1. listener \in Loading /\ listener.todo # {} /\ listener.todo \subseteq Names
        /\ listener.todo \subseteq Defined(listener.new) /\ listener.gone \subseteq Gone
    BY <1>4, ListenerTypes DEF NextDefine, LoadShape, At
  <2>2. n \in listener.todo /\ n \in Names
    BY <2>1, FirstIsMember
  <2> HIDE DEF n
  <2>3. UNCHANGED <<logger, value, removed>>
    BY <1>4 DEF NextDefine, Move
  <2>4. CASE Same(n) /\ listener' = [listener EXCEPT !.todo = @ \ {n}] /\ UNCHANGED m_loggers
    <3>1. listener' \in Loading /\ listener'.at = "next"
      BY <2>1, <2>4, <1>4 DEF Loading, NextDefine, At
    <3>2. LoadShape'
      BY <3>1, <2>1, <2>3, <2>4 DEF LoadShape, At, Gone, Loading
    <3> QED BY <3>1, <3>2, <2>3, <2>4, <1>1, <1>2 DEF TypeOK, LoggersOK
  <2>5. CASE /\ ~Same(n)
             /\ listener' = [listener EXCEPT !.todo = @ \ {n}, !.cur = n, !.at = "level"]
             /\ m_loggers' = m_loggers \cup {n}
    <3>1. listener' \in Loading
      BY <2>1, <2>2, <2>5 DEF Loading
    <3>2. LoadShape'
      BY <2>1, <2>2, <2>3, <2>5 DEF LoadShape, At, Gone, Loading, Cur, Same
    <3> QED BY <3>1, <3>2, <2>2, <2>3, <2>5, <1>1, <1>2 DEF TypeOK, LoggersOK
  <2> QED BY <2>4, <2>5, <2>1, <1>4 DEF NextDefine, Move, n
<1>5. CASE RemoveLevel \/ RemoveClear
  <2> DEFINE n == First(listener.gone)
  <2>1. /\ listener \in Loading /\ listener.gone # {} /\ listener.gone \subseteq Names
        /\ listener.gone \subseteq Gone /\ listener.todo \subseteq Defined(listener.new)
        /\ Cur \in Defined(listener.new) \ listener.todo /\ Cur \in m_loggers
        /\ listener.new[Cur] # value[Cur]
    BY <1>5, ListenerTypes DEF RemoveLevel, RemoveClear, LoadShape, At
  <2>2. n \in listener.gone /\ n \in Names
    BY <2>1, FirstIsMember
  <2>3. logger[n] \in Loggers /\ Sound(logger[n])
    BY <2>2 DEF LoggersOK
  <2> HIDE DEF n
  <2>4. UNCHANGED <<value, removed>> /\ m_loggers \subseteq m_loggers' /\ m_loggers' \subseteq Names
    BY <1>5, <1>2, <2>2 DEF RemoveLevel, RemoveClear, Move, n
  <2>5. LoggersOK'
    <3>1. Silent \in Nat
      BY DEF Silent
    <3>2. CASE RemoveLevel
      BY <2>2, <2>3, <3>1, <3>2, SetLevelWorks, OneLogger DEF RemoveLevel, n
    <3>3. CASE RemoveClear
      BY <2>2, <2>3, <3>3, ClearAppendersWorks, OneLogger DEF RemoveClear, n
    <3> QED BY <1>5, <3>2, <3>3
  <2>6. \/ listener' = [listener EXCEPT !.at = "removing"]
        \/ listener' = [listener EXCEPT !.at = "remove", !.gone = @ \ {n}]
    BY <1>5 DEF RemoveLevel, RemoveClear, Move, n
  <2>7. listener' \in Loading /\ LoadShape'
    BY <2>1, <2>4, <2>6 DEF LoadShape, Loading, At, Cur, Gone
  <2> QED BY <2>4, <2>5, <2>7, <1>1, <1>2 DEF TypeOK, LoggersOK
<1>6. CASE RemoveDone
  <2>1. /\ listener \in Loading /\ listener.gone \subseteq Gone
        /\ listener.todo \subseteq Defined(listener.new)
    BY <1>6, ListenerTypes DEF RemoveDone, LoadShape, At
  <2>2. listener' = [listener EXCEPT !.at = "next"]
        /\ UNCHANGED <<value, removed, m_loggers, logger>>
    BY <1>6 DEF RemoveDone, Move
  <2>3. listener' \in Loading /\ LoadShape'
    BY <2>1, <2>2 DEF LoadShape, Loading, At, Gone
  <2> QED BY <2>2, <2>3, <1>1, <1>2 DEF TypeOK, LoggersOK
<1>7. CASE Assign
  <2>1. listener.new \in Configs
    BY <1>7, ListenerTypes DEF Assign, At
  <2>2. /\ listener' = Idle /\ value' = listener.new /\ removed' \subseteq Names
        /\ UNCHANGED <<m_loggers, logger>>
    BY <1>7, <1>2 DEF Assign, Dismissed, Defined
  <2>3. LoadShape'
    BY <2>2 DEF LoadShape, At, Idle
  <2> QED BY <2>1, <2>2, <2>3, <1>1, <1>2 DEF TypeOK, LoggersOK
<1> QED BY <1>3, <1>4, <1>5, <1>6, <1>7

\* Every step keeps the types.
LEMMA TypeStep == TypeInv /\ [Next]_vars => TypeInv'
<1> SUFFICES ASSUME TypeInv, [Next]_vars PROVE TypeInv'
  OBVIOUS
<1>1. CASE \/ \E t \in Threads, n \in Names, level \in Levels : Event(t, n, level)
           \/ \E t \in Threads : LogStep(t)
  <2>1. UNCHANGED listener
    BY <1>1, LogSteps DEF TypeInv, Event, LogStep, LogLevelTest, LogLocked, RootLevelTest,
       RootLocked, Goto, setVars
  <2> QED BY <1>1, <2>1, LogSteps
       DEF TypeInv, TypeOK, LoggersOK, LoadShape, setVars, At, Cur, Gone, Def
<1>2. CASE \E n \in Names : UserCall(n)
  <2>1. PICK n \in Names : UserCall(n)
    BY <1>2
  <2>2. LoggersOK'
    BY <2>1, UserCallWorks, OneLogger DEF TypeInv
  <2>3. UNCHANGED <<m_loggers, setVars, logVars>> /\ touched' = touched \cup {n}
        /\ calls' = calls + 1 /\ calls < MaxCalls
    BY <2>1 DEF UserCall
  <2>4. calls' \in 0..MaxCalls
    BY <2>3, LogAssumption DEF TypeInv, TypeOK
  <2> QED BY <2>2, <2>3, <2>4
       DEF TypeInv, TypeOK, LoggersOK, LoadShape, setVars, logVars, At, Cur, Gone, Def
<1>3. CASE UNCHANGED vars
  BY <1>3 DEF vars, setVars, logVars, TypeInv, TypeOK, LoggersOK, LoadShape, At, Cur, Gone, Def
<1> QED
  BY <1>1, <1>2, <1>3, ApplyKeepsTypes, LoadKeepsTypes DEF Next, ListenerStep

\* FormattersFollow: an appender without a pattern of its own has the
\* formatter of its logger at all times, whatever the program and the
\* listener call on it (Logger::setFormatter() and addAppender(), log.cc).
THEOREM FormattersFollow == Spec => []FormatterFollows
<1>1. TypeInv => FormatterFollows
  BY DEF TypeInv, LoggersOK, Sound, FormatterFollows
<1> QED
  BY <1>1, TypeInit, TypeStep, PTL DEF Spec

----------------------------------------------------------------------------
(* A load that returns has applied the definitions.                        *)

\* The listener is applying Cur's definition.
Working == listener.at \in {"level", "formatter", "clear", "add"}

\* What it has applied of it, unless the program has changed the logger since.
Progress ==
    Working /\ Cur \notin touched =>
       /\ ~At("level") => logger[Cur].level = Def.level
       /\ (At("clear") \/ At("add")) /\ Usable(Def.formatter) =>
             logger[Cur].formatter = Def.formatter
       /\ At("add") =>
             /\ Len(logger[Cur].appenders) = listener.k - 1
             /\ \A x \in 1..(listener.k - 1) :
                   logger[Cur].appenders[x] = Built(Def, logger[Cur].formatter)[x]

\* Loggers yet to be visited are as the old value defines them, those visited
\* as the new one does.
ConfInv ==
    /\ ConfApplied
    /\ ~At("idle") =>
         \A n \in Defined(listener.new) \ touched :
            /\ n \in listener.todo /\ value[n] # Undef => Conforms(n, value[n])
            /\ n \notin listener.todo /\ ~(Working /\ n = Cur) => Conforms(n, listener.new[n])
    /\ Progress


\* The appenders that the listener makes of a definition.
LEMMA BuiltWorks ==
  ASSUME NEW d \in Defines, NEW p
  PROVE  /\ DOMAIN Built(d, p) = 1..Len(d.appenders) /\ Len(d.appenders) \in Nat
         /\ \A x \in 1..Len(d.appenders) :
               Built(d, p)[x] = IF Usable(d.appenders[x].formatter) THEN Made(d.appenders[x])
                                ELSE [Made(d.appenders[x]) EXCEPT !.formatter = p]
<1>1. d.appenders \in Seq(AppenderDefs)
  BY DEF Defines
<1>2. DOMAIN d.appenders = 1..Len(d.appenders) /\ Len(d.appenders) \in Nat
  BY <1>1, LenProperties
<1> QED BY <1>2 DEF Built

\* A logger that a step leaves alone stays as it was.
LEMMA ConformsKept ==
  ASSUME NEW n \in Names, NEW d, Conforms(n, d),
         logger'[n] = logger[n], m_loggers \subseteq m_loggers'
  PROVE  Conforms(n, d)'
BY DEF Conforms

\* Applying the level, the formatter and the empty list of appenders.
LEMMA ConfApply ==
  ASSUME TypeInv, ConfInv, ApplyLevel \/ ApplyFormatter \/ ApplyClear
  PROVE  ConfInv'
<1>1. ~At("idle") /\ ~At("next") /\ listener \in Loading /\ Cur \in Names /\ Working
  BY ListenerTypes DEF TypeInv, ApplyLevel, ApplyFormatter, ApplyClear, At, Working
<1>2. logger \in [Names -> Loggers] /\ Def \in Defines
  BY <1>1, DefTypes DEF TypeInv, LoggersOK
<1>3. /\ listener'.new = listener.new /\ listener'.todo = listener.todo /\ Cur' = Cur
      /\ UNCHANGED <<value, m_loggers>> /\ Working' /\ ~At("idle")'
      /\ \A n \in Names \ {Cur} : logger'[n] = logger[n]
      /\ touched \ {Cur} = touched' \ {Cur}
  BY <1>1, <1>2 DEF ApplyLevel, ApplyFormatter, ApplyClear, Move, Loading, Cur, Working, At
<1>4. ASSUME NEW n \in Defined(listener.new) \ touched, n # Cur
      PROVE  /\ n \in listener.todo /\ value[n] # Undef => Conforms(n, value[n])'
             /\ n \notin listener.todo => Conforms(n, listener.new[n])'
  <2>1. n \in Names
    BY DEF Defined
  <2> QED BY <1>1, <1>3, <1>4, <2>1, ConformsKept DEF ConfInv
<1>5. Cur \notin listener.todo /\ Def' = Def
  BY <1>1, <1>3 DEF TypeInv, LoadShape, Def
<1>6. Progress'
  <2>1. CASE ApplyLevel
    BY <2>1, <1>1, <1>2, <1>3, <1>5 DEF ApplyLevel, Progress, At, Move, Loading, SetLevel, Loggers, Working
  <2>2. CASE ApplyFormatter
    <3>1. logger'[Cur].level = logger[Cur].level
      BY <2>2, <1>1, <1>2 DEF ApplyFormatter, SetFormatter, Loggers
    <3>2. Usable(Def.formatter) => logger'[Cur].formatter = Def.formatter
      BY <2>2, <1>1, <1>2 DEF ApplyFormatter, SetFormatter, Loggers
    <3>3. At("clear")' /\ touched' = touched
      BY <2>2, <1>1 DEF ApplyFormatter, Move, Loading, At
    <3> QED BY <2>2, <3>1, <3>2, <3>3, <1>1, <1>3, <1>5 DEF ApplyFormatter, ConfInv, Progress, At
  <2>3. CASE ApplyClear
    <3>1. /\ logger'[Cur].level = logger[Cur].level
          /\ logger'[Cur].formatter = logger[Cur].formatter
          /\ logger'[Cur].appenders = <<>>
      BY <2>3, <1>1, <1>2 DEF ApplyClear, ClearAppenders, Loggers
    <3>2. At("add")' /\ listener'.k = 1 /\ touched' = touched /\ 1..(1 - 1) = {} /\ Len(<<>>) = 1 - 1
      BY <2>3, <1>1 DEF ApplyClear, Move, Loading, At
    <3>3. \A x \in 1..(listener'.k - 1) : FALSE
      BY <3>2
    <3> QED BY <2>3, <3>1, <3>2, <3>3, <1>1, <1>3, <1>5 DEF ApplyClear, ConfInv, Progress, At
  <2> QED BY <2>1, <2>2, <2>3
<1> QED BY <1>1, <1>3, <1>4, <1>5, <1>6 DEF ConfInv, ConfApplied

\* Adding its appenders one by one.
LEMMA ConfAppend ==
  ASSUME TypeInv, ConfInv, ApplyAppender
  PROVE  ConfInv'
<1> DEFINE k == listener.k
           l == logger[Cur]
           a == Def.appenders[k]
<1>1. /\ ~At("idle") /\ ~At("next") /\ listener \in Loading /\ Cur \in Names /\ Working
      /\ k \in Nat \ {0}
  BY ListenerTypes DEF TypeInv, ApplyAppender, At, Working
<1>2. logger \in [Names -> Loggers] /\ Def \in Defines /\ l \in Loggers /\ l.appenders \in Seq(Appenders)
  BY <1>1, DefTypes DEF TypeInv, LoggersOK, Loggers
<1>3. /\ listener'.new = listener.new /\ listener'.todo = listener.todo /\ Cur' = Cur
      /\ UNCHANGED <<value, m_loggers, touched>> /\ Working' /\ ~At("idle")'
      /\ At("add") /\ At("add")' /\ listener'.k = k + 1
      /\ logger' = [logger EXCEPT ![Cur] = AddAppender(@, Made(a))]
  BY <1>1, <1>2 DEF ApplyAppender, Move, Loading, Cur, Working, At
<1>4. ASSUME NEW n \in Defined(listener.new) \ touched, n # Cur
      PROVE  /\ n \in listener.todo /\ value[n] # Undef => Conforms(n, value[n])'
             /\ n \notin listener.todo => Conforms(n, listener.new[n])'
  <2>1. n \in Names /\ logger'[n] = logger[n]
    BY <1>2, <1>3, <1>4 DEF Defined
  <2> QED BY <1>1, <1>3, <1>4, <2>1, ConformsKept DEF ConfInv
<1>5. Cur \notin listener.todo /\ Def' = Def
  BY <1>1, <1>3 DEF TypeInv, LoadShape, Def
<1>6. k \in 1..Len(Def.appenders) /\ a \in AppenderDefs /\ Made(a) \in Appenders
  <2>1. Def.appenders \in Seq(AppenderDefs) /\ Len(Def.appenders) \in Nat
    BY <1>2, BuiltWorks DEF Defines
  <2>2. k \in 1..Len(Def.appenders)
    BY <1>1, <2>1 DEF ApplyAppender
  <2> QED BY <2>1, <2>2, ElementOfSeq, MadeType
<1> DEFINE b == Built(Def, l.formatter)[k]
<1>7. AddAppender(l, Made(a)) = [l EXCEPT !.appenders = Append(@, b)]
  <2>1. Made(a).own = Usable(a.formatter)
    BY DEF Made, Appender
  <2>2. b = IF Usable(a.formatter) THEN Made(a) ELSE [Made(a) EXCEPT !.formatter = l.formatter]
    BY <1>2, <1>6, BuiltWorks
  <2> HIDE DEF a, b, l
  <2> QED BY <2>1, <2>2 DEF AddAppender
<1>8. /\ logger'[Cur].level = l.level /\ logger'[Cur].formatter = l.formatter
      /\ logger'[Cur].appenders = Append(l.appenders, b)
  BY <1>1, <1>2, <1>3, <1>7 DEF Loggers
<1>9. Progress'
  <2> SUFFICES ASSUME Cur \notin touched PROVE Progress'
    BY <1>3 DEF Progress
  <2>1. /\ l.level = Def.level
        /\ Usable(Def.formatter) => l.formatter = Def.formatter
        /\ Len(l.appenders) = k - 1
        /\ \A x \in 1..(k - 1) : l.appenders[x] = Built(Def, l.formatter)[x]
    BY <1>1, <1>3 DEF ConfInv, Progress, At
  <2> HIDE DEF k, l, a, b
  <2>2. /\ Len(Append(l.appenders, b)) = k
        /\ \A x \in 1..k : Append(l.appenders, b)[x] =
                             IF x = k THEN b ELSE l.appenders[x]
    BY <1>1, <1>2, <2>1
  <2>3. ASSUME NEW x \in 1..k
        PROVE  logger'[Cur].appenders[x] = Built(Def, l.formatter)[x]
    BY <1>1, <1>8, <2>1, <2>2 DEF b
  <2>4. k + 1 - 1 = k
    BY <1>1
  <2>5. /\ Len(logger'[Cur].appenders) = listener'.k - 1
        /\ \A x \in 1..(listener'.k - 1) :
              logger'[Cur].appenders[x] = Built(Def, logger'[Cur].formatter)[x]
    BY <1>3, <1>8, <2>2, <2>3, <2>4
  <2>6. /\ logger'[Cur].level = Def.level
        /\ Usable(Def.formatter) => logger'[Cur].formatter = Def.formatter
    BY <1>8, <2>1
  <2> QED BY <1>3, <1>5, <2>5, <2>6 DEF Progress, At
<1> QED BY <1>1, <1>3, <1>4, <1>5, <1>9 DEF ConfInv, ConfApplied

\* When the last appender is added the logger is as the definition says.
LEMMA ConfDone ==
  ASSUME TypeInv, ConfInv, ApplyDone
  PROVE  /\ Cur \notin touched => Conforms(Cur, Def)
         /\ ConfInv'
<1>1. /\ ~At("idle") /\ ~At("next") /\ At("add") /\ listener \in Loading /\ Cur \in Names /\ Working
      /\ listener.k \in Nat \ {0}
  BY ListenerTypes DEF TypeInv, ApplyDone, At, Working
<1>2. logger[Cur] \in Loggers /\ Def \in Defines /\ logger[Cur].appenders \in Seq(Appenders)
  BY <1>1, DefTypes DEF TypeInv, LoggersOK, Loggers
<1>3. /\ listener' = [listener EXCEPT !.at = "remove", !.gone = Gone]
      /\ UNCHANGED <<value, m_loggers, logger, touched>>
  BY DEF ApplyDone, Move
<1>4. /\ listener'.new = listener.new /\ listener'.todo = listener.todo /\ Cur' = Cur
      /\ ~Working' /\ ~At("idle")'
  BY <1>1, <1>3 DEF Loading, Cur, Working, At
<1>5. Cur \notin listener.todo /\ Cur \in m_loggers /\ Def' = Def
  BY <1>1, <1>4 DEF TypeInv, LoadShape, Def
<1>6. ASSUME Cur \notin touched PROVE Conforms(Cur, Def)
  <2> DEFINE s == logger[Cur].appenders
             t == Built(Def, logger[Cur].formatter)
             k == listener.k
  <2>1. /\ logger[Cur].level = Def.level
        /\ Usable(Def.formatter) => logger[Cur].formatter = Def.formatter
        /\ Len(s) = k - 1
        /\ \A x \in 1..(k - 1) : s[x] = t[x]
    BY <1>1, <1>6 DEF ConfInv, Progress, At
  <2>2. DOMAIN t = 1..Len(Def.appenders) /\ Len(Def.appenders) \in Nat
    BY <1>2, BuiltWorks
  <2>3. k - 1 = Len(Def.appenders)
    BY <1>1, <2>2 DEF TypeInv, LoadShape, ApplyDone
  <2>4. s = [x \in 1..(k - 1) |-> s[x]]
    BY <1>2, <2>1
  <2>5. t = [x \in 1..(k - 1) |-> t[x]]
    BY <2>2, <2>3 DEF Built
  <2>6. s = t
    <3> HIDE DEF s, t, k
    <3> QED BY <2>1, <2>4, <2>5
  <2> QED BY <1>5, <2>1, <2>6 DEF Conforms
<1>7. ASSUME NEW n \in Defined(listener.new) \ touched
      PROVE  /\ n \in listener.todo /\ value[n] # Undef => Conforms(n, value[n])'
             /\ n \notin listener.todo => Conforms(n, listener.new[n])'
  <2>1. n \in Names
    BY DEF Defined
  <2> QED BY <1>1, <1>3, <1>5, <1>6, <2>1, ConformsKept DEF ConfInv, Def
<1> QED BY <1>3, <1>4, <1>6, <1>7 DEF ConfInv, ConfApplied, Progress

\* The other steps of a load.
LEMMA ConfLoad ==
  ASSUME TypeInv, ConfInv,
         \/ \E new \in Configs : SetValue(new)
         \/ NextDefine \/ RemoveLevel \/ RemoveClear \/ RemoveDone \/ Assign
  PROVE  ConfInv'
<1>1. logger \in [Names -> Loggers]
  BY DEF TypeInv, LoggersOK
<1>2. CASE \E new \in Configs : SetValue(new)
  <2>1. PICK new \in Configs : SetValue(new)
    BY <1>2
  <2>2. /\ listener' = [at |-> "next", new |-> new, todo |-> Defined(new), cur |-> Root, k |-> 1,
                        gone |-> {}]
        /\ UNCHANGED <<m_loggers, logger, value, removed, touched>> /\ At("idle")
    BY <2>1 DEF SetValue, Move
  <2>3. ASSUME NEW n \in Defined(new) \ touched, value[n] # Undef
        PROVE  Conforms(n, value[n])'
    <3>1. n \in Names /\ n \in Defined(value) \ touched
      BY <2>3 DEF Defined
    <3> QED BY <2>2, <3>1, ConformsKept DEF ConfInv, ConfApplied
  <2>4. ~At("idle")' /\ ~Working'
    BY <2>2 DEF At, Working
  <2> QED BY <2>2, <2>3, <2>4 DEF ConfInv, ConfApplied, Progress
<1>3. CASE NextDefine
  <2> DEFINE n == First(listener.todo)
  <2>1. listener \in Loading /\ listener.todo # {} /\ listener.todo \subseteq Names
        /\ listener.todo \subseteq Defined(listener.new)
        /\ ~At("idle") /\ At("next") /\ ~Working
    BY <1>3, ListenerTypes DEF NextDefine, TypeInv, LoadShape, At, Working
  <2>2. n \in listener.todo /\ n \in Names
    BY <2>1, FirstIsMember
  <2> HIDE DEF n
  <2>3. UNCHANGED <<logger, value, touched>> /\ m_loggers \subseteq m_loggers'
    BY <1>3 DEF NextDefine, Move
  <2>4. /\ listener'.new = listener.new /\ listener'.todo = listener.todo \ {n} /\ ~At("idle")'
        /\ \/ Same(n) /\ ~Working'
           \/ Cur' = n /\ Working' /\ At("level")'
    BY <2>1, <1>3 DEF NextDefine, Move, Loading, At, Working, Cur, n
  <2>5. ASSUME NEW m \in Defined(listener.new) \ touched
        PROVE  /\ m \in listener.todo /\ value[m] # Undef => Conforms(m, value[m])'
               /\ m \notin listener.todo => Conforms(m, listener.new[m])'
               /\ m = n /\ Same(n) => Conforms(m, listener.new[m])'
    <3>1. m \in Names /\ listener.new[m] # Undef
      BY DEF Defined
    <3>2. /\ m \in listener.todo /\ value[m] # Undef => Conforms(m, value[m])
          /\ m \notin listener.todo => Conforms(m, listener.new[m])
      BY <2>1 DEF ConfInv
    <3>3. m = n /\ Same(n) => Conforms(m, listener.new[m])
      BY <2>2, <3>1, <3>2 DEF Same
    <3> QED BY <2>3, <2>4, <3>1, <3>2, <3>3 DEF Conforms
  <2>6. Progress'
    BY <2>4 DEF Progress, Working, At
  <2> QED BY <2>2, <2>3, <2>4, <2>5, <2>6 DEF ConfInv, ConfApplied
<1>4. CASE RemoveLevel \/ RemoveClear \/ RemoveDone
  <2> DEFINE n == First(listener.gone)
  <2>1. /\ listener \in Loading /\ listener.gone \subseteq Names
        /\ listener.gone \subseteq Gone
        /\ ~At("idle") /\ ~Working
    BY <1>4, ListenerTypes DEF RemoveLevel, RemoveClear, RemoveDone, TypeInv, LoadShape, At, Working
  <2>2. /\ UNCHANGED value /\ m_loggers \subseteq m_loggers'
        /\ listener'.new = listener.new /\ listener'.todo = listener.todo
        /\ ~At("idle")' /\ ~Working'
    BY <1>4, <2>1 DEF RemoveLevel, RemoveClear, RemoveDone, Move, Loading, At, Working
  <2>3. n \in Gone \/ UNCHANGED <<logger, touched>>
    BY <1>4, <2>1, FirstIsMember DEF RemoveLevel, RemoveClear, RemoveDone, TypeInv, LoadShape, At
  <2>4. /\ \A m \in Names \ {n} : logger'[m] = logger[m]
        /\ touched \ {n} = touched' \ {n}
    BY <1>1, <1>4 DEF RemoveLevel, RemoveClear, RemoveDone
  <2>5. ASSUME NEW m \in Defined(listener.new) \ touched'
        PROVE  /\ m \in listener.todo /\ value[m] # Undef => Conforms(m, value[m])'
               /\ m \notin listener.todo => Conforms(m, listener.new[m])'
    <3>1. m \in Names
      BY DEF Defined
    <3>2. m \in Defined(listener.new) \ touched /\ logger'[m] = logger[m]
      BY <2>3, <2>4, <3>1 DEF Gone
    <3> QED BY <2>1, <2>2, <3>1, <3>2, ConformsKept DEF ConfInv
  <2> QED BY <2>2, <2>5 DEF ConfInv, ConfApplied, Progress
<1>5. CASE Assign
  <2>1. /\ ~At("idle") /\ ~Working /\ listener.todo = {}
        /\ value' = listener.new /\ UNCHANGED <<m_loggers, logger, touched>>
        /\ At("idle")' /\ ~Working'
    BY <1>5 DEF Assign, At, Working, Idle
  <2>2. ASSUME NEW n \in Defined(listener.new) \ touched
        PROVE  Conforms(n, value[n])'
    <3>1. n \in Names /\ Conforms(n, listener.new[n])
      BY <2>1 DEF ConfInv, Defined
    <3> QED BY <2>1, <3>1 DEF Conforms
  <2> QED BY <2>1, <2>2 DEF ConfInv, ConfApplied, Progress
<1> QED BY <1>2, <1>3, <1>4, <1>5

\* A step that leaves the load alone, and every logger that it does not mark
\* as touched.
LEMMA ConfElse ==
  ASSUME ConfInv, UNCHANGED <<value, listener>>, m_loggers \subseteq m_loggers',
         touched \subseteq touched', TypeInv,
         \A n \in Names \ touched' : logger'[n] = logger[n]
  PROVE  ConfInv'
<1>1. Working' = Working /\ Cur' = Cur /\ Def' = Def /\ \A label : At(label)' = At(label)
  BY DEF Working, Cur, Def, At
<1>2. ASSUME NEW n \in Names \ touched', NEW d, Conforms(n, d)
      PROVE  Conforms(n, d)'
  BY <1>2, ConformsKept
<1>3. ConfApplied'
  BY <1>1, <1>2 DEF ConfInv, ConfApplied, Defined
<1>4. Progress'
  <2> SUFFICES ASSUME Working, Cur \notin touched' PROVE Progress'
    BY <1>1 DEF Progress
  <2>1. Cur \in Names
    BY ListenerTypes DEF TypeInv, Working, At
  <2> QED BY <1>1, <2>1 DEF ConfInv, Progress
<1> QED BY <1>1, <1>2, <1>3, <1>4 DEF ConfInv, Defined

\* What the steps outside the load do to the loggers.
LEMMA Outside ==
  ASSUME TypeInv,
         \/ \E t \in Threads, n \in Names, level \in Levels : Event(t, n, level)
         \/ \E t \in Threads : LogStep(t)
         \/ \E n \in Names : UserCall(n)
         \/ UNCHANGED vars
  PROVE  /\ UNCHANGED setVars /\ m_loggers \subseteq m_loggers' /\ touched \subseteq touched'
         /\ \A n \in Names \ touched' : logger'[n] = logger[n]
         /\ \A n \in Names : Locked(n)' => Locked(n) \/ logger[n].appenders = <<>>
<1>1. CASE \E n \in Names : UserCall(n)
  <2>1. logger \in [Names -> Loggers]
    BY DEF TypeInv, LoggersOK
  <2>2. PICK n \in Names : UserCall(n)
    BY <1>1
  <2>3. logger' = [logger EXCEPT ![n] = logger'[n]] /\ touched' = touched \cup {n}
        /\ UNCHANGED <<m_loggers, setVars, logVars>>
    BY <2>2, UserCallWorks DEF TypeInv, UserCall
  <2>4. \A m \in Names : Locked(m)' = Locked(m)
    BY <2>3 DEF logVars, Locked
  <2>5. \A m \in Names \ touched' : logger'[m] = logger[m]
    BY <2>1, <2>3
  <2> QED BY <2>3, <2>4, <2>5
<1>2. CASE UNCHANGED vars
  BY <1>2 DEF vars, logVars, Locked
<1> QED BY <1>1, <1>2, LogSteps DEF TypeInv

\* Every step keeps what the load has applied.
LEMMA ConfStep == TypeInv /\ ConfInv /\ [Next]_vars => ConfInv'
<1> SUFFICES ASSUME TypeInv, ConfInv, [Next]_vars PROVE ConfInv'
  OBVIOUS
<1>1. CASE \/ \E t \in Threads, n \in Names, level \in Levels : Event(t, n, level)
           \/ \E t \in Threads : LogStep(t)
           \/ \E n \in Names : UserCall(n)
           \/ UNCHANGED vars
  BY <1>1, Outside, ConfElse DEF setVars
<1> QED BY <1>1, ConfApply, ConfAppend, ConfDone, ConfLoad DEF Next, ListenerStep

\* DefinitionsApplied: once the listener has returned, every logger that the
\* program left alone is as the value of "logs" defines it, whatever events,
\* calls and loads went before (LogIniter, log.cc).
THEOREM DefinitionsApplied == Spec => []ConfApplied
<1>1. Init => ConfInv
  BY DEF Init, ConfInv, ConfApplied, Progress, Working, At, Idle, Defined, NoDefines
<1>2. ConfInv => ConfApplied
  BY DEF ConfInv
<1> QED
  BY <1>1, <1>2, TypeInit, TypeStep, ConfStep, PTL DEF Spec

----------------------------------------------------------------------------
(* A logger that is no longer named stays silent.                          *)

IsSilent(n) == logger[n].level = Silent /\ logger[n].appenders = <<>>

\* Some definition that the listener has visited was new or changed.
SomeChanged ==
    \E m \in Defined(listener.new) \ listener.todo : listener.new[m] # value[m]

\* Every visit of a new or changed definition silences the loggers that the
\* new value no longer names.
SilentInv ==
    /\ removed \cap Defined(value) = {}
    /\ \A n \in removed \ touched :
          At("idle") \/ n \notin Defined(listener.new) => IsSilent(n)
    /\ At("next") /\ SomeChanged => \A n \in Gone \ touched : IsSilent(n)
    /\ At("remove") \/ At("removing") =>
          \A n \in Gone \ (listener.gone \cup touched) : IsSilent(n)
    /\ At("removing") /\ First(listener.gone) \notin touched =>
          logger[First(listener.gone)].level = Silent

\* The listener's calls on the logger that it applies a definition to.
LEMMA SilentApply ==
  ASSUME TypeInv, SilentInv,
         ApplyLevel \/ ApplyFormatter \/ ApplyClear \/ ApplyAppender \/ ApplyDone
  PROVE  SilentInv'
<1>1. ~At("idle") /\ ~At("next") /\ listener \in Loading /\ Cur \in Names
      /\ ~At("remove") /\ ~At("removing")
  BY ListenerTypes DEF TypeInv, ApplyLevel, ApplyFormatter, ApplyClear, ApplyAppender, ApplyDone, At
<1>2. logger \in [Names -> Loggers] /\ Cur \in Defined(listener.new)
  BY <1>1 DEF TypeInv, LoggersOK, LoadShape
<1>3. /\ UNCHANGED <<value, removed>> /\ listener'.new = listener.new
      /\ \A n \in Names \ {Cur} : logger'[n] = logger[n]
      /\ touched \ {Cur} = touched' \ {Cur}
      /\ ~At("idle")' /\ ~At("next")' /\ ~At("removing")'
      /\ At("remove")' => listener'.gone = Gone
  BY <1>1, <1>2 DEF ApplyLevel, ApplyFormatter, ApplyClear, ApplyAppender, ApplyDone, Move, Loading, At
<1>4. removed \subseteq Names
  BY DEF TypeInv, TypeOK
<1>5. Gone' = Gone
  BY <1>3 DEF Gone
<1> QED BY <1>1, <1>2, <1>3, <1>4, <1>5 DEF SilentInv, IsSilent

\* The start of a load, the choice of a definition, the end of the loop over
\* the old ones, and the end of a load.
LEMMA SilentLoad ==
  ASSUME TypeInv, SilentInv, \/ \E new \in Configs : SetValue(new)
                             \/ NextDefine \/ RemoveDone \/ Assign
  PROVE  SilentInv'
<1>1. UNCHANGED <<logger, touched>>
  BY DEF SetValue, NextDefine, RemoveDone, Assign
<1>2. CASE \E new \in Configs : SetValue(new)
  <2>1. PICK new \in Configs : SetValue(new)
    BY <1>2
  <2>2. /\ listener' = [at |-> "next", new |-> new, todo |-> Defined(new), cur |-> Root, k |-> 1,
                        gone |-> {}]
        /\ UNCHANGED <<value, removed>> /\ At("idle")
    BY <2>1 DEF SetValue, Move
  <2>3. ~SomeChanged'
    BY <2>2 DEF SomeChanged
  <2> QED BY <1>1, <2>2, <2>3 DEF SilentInv, IsSilent, At
<1>3. CASE NextDefine
  <2> DEFINE n == First(listener.todo)
  <2>1. listener \in Loading /\ listener.todo # {} /\ listener.todo \subseteq Names
        /\ At("next") /\ listener.todo \subseteq Defined(listener.new)
    BY <1>3, ListenerTypes DEF NextDefine, TypeInv, LoadShape, At
  <2>2. n \in listener.todo
    BY <2>1, FirstIsMember
  <2> HIDE DEF n
  <2>3. /\ UNCHANGED <<value, removed>> /\ listener'.new = listener.new
        /\ listener'.todo = listener.todo \ {n}
        /\ \/ At("next")' /\ Same(n)
           \/ At("level")'
    BY <2>1, <1>3 DEF NextDefine, Move, Loading, At, n
  <2>4. At("next")' /\ SomeChanged' => SomeChanged
    BY <2>3 DEF SomeChanged, Same, At
  <2> QED BY <1>1, <2>1, <2>3, <2>4 DEF SilentInv, IsSilent, At, Gone
<1>4. CASE RemoveDone
  <2>1. listener' = [listener EXCEPT !.at = "next"] /\ listener \in Loading /\ At("remove")
        /\ UNCHANGED <<value, removed>> /\ listener.gone = {}
    BY <1>4, ListenerTypes DEF RemoveDone, Move, TypeInv, At
  <2> QED BY <1>1, <2>1 DEF SilentInv, IsSilent, At, Gone, Loading
<1>5. CASE Assign
  <2>1. /\ At("next") /\ listener.todo = {} /\ At("idle")' /\ listener' = Idle
        /\ value' = listener.new /\ removed' = (removed \cup Dismissed) \ Defined(listener.new)
    BY <1>5 DEF Assign, At, Idle
  <2>2. listener.new \in Configs /\ value \in Configs \cup {NoDefines}
    BY <2>1, ListenerTypes DEF TypeInv, TypeOK, At
  <2>3. ASSUME NEW n \in Dismissed PROVE n \in Gone /\ SomeChanged
    BY <2>1, <2>2 DEF Dismissed, Gone, SomeChanged, Defined
  <2>4. \A n \in removed' \ touched : IsSilent(n)
    BY <2>1, <2>3 DEF SilentInv, At
  <2> QED BY <1>1, <2>1, <2>4 DEF SilentInv, IsSilent, At, Idle
<1> QED BY <1>2, <1>3, <1>4, <1>5

\* The removal of a logger, which takes two calls.
LEMMA SilentRemove ==
  ASSUME TypeInv, SilentInv, RemoveLevel \/ RemoveClear
  PROVE  SilentInv'
<1> DEFINE n == First(listener.gone)
<1>1. /\ listener \in Loading /\ listener.gone # {} /\ listener.gone \subseteq Names
      /\ listener.gone \subseteq Gone
  BY ListenerTypes DEF RemoveLevel, RemoveClear, TypeInv, LoadShape, At
<1>2. n \in listener.gone /\ n \in Names /\ n \in Gone
  BY <1>1, FirstIsMember
<1>3. logger \in [Names -> Loggers] /\ removed \subseteq Names
  BY DEF TypeInv, LoggersOK, TypeOK
<1>4. /\ UNCHANGED <<value, removed>> /\ \A m \in Names \ {n} : logger'[m] = logger[m]
      /\ touched \ {n} = touched' \ {n} /\ listener'.new = listener.new
  BY <1>1, <1>3 DEF RemoveLevel, RemoveClear, Move, Loading
<1>5. Gone' = Gone /\ Gone \subseteq Names /\ n \notin removed /\ n \notin Defined(listener.new)
  BY <1>2, <1>4 DEF Gone, SilentInv, Defined
<1>6. /\ removed' \cap Defined(value') = {}
      /\ \A m \in removed' \ touched' :
           At("idle")' \/ m \notin Defined(listener'.new) => IsSilent(m)'
  BY <1>1, <1>3, <1>4, <1>5 DEF SilentInv, IsSilent, RemoveLevel, RemoveClear, Move, Loading, At
<1>7. CASE RemoveLevel
  <2>1. listener' = [listener EXCEPT !.at = "removing"] /\ logger'[n].level = Silent /\ At("remove")
    BY <1>2, <1>3, <1>7 DEF RemoveLevel, Move, SetLevel, Loggers
  <2> HIDE DEF n
  <2>2. \A m \in Gone' \ (listener'.gone \cup touched') : IsSilent(m)'
    BY <1>1, <1>2, <1>4, <1>5, <2>1 DEF SilentInv, IsSilent, Loading
  <2>3. logger'[First(listener'.gone)].level = Silent
    BY <1>1, <2>1 DEF Loading, n
  <2> QED BY <1>1, <1>6, <2>1, <2>2, <2>3 DEF SilentInv, At, Loading
<1>8. CASE RemoveClear
  <2>1. /\ listener' = [listener EXCEPT !.at = "remove", !.gone = @ \ {n}] /\ At("removing")
        /\ UNCHANGED touched
        /\ logger'[n].level = logger[n].level /\ logger'[n].appenders = <<>>
    BY <1>2, <1>3, <1>8 DEF RemoveClear, Move, ClearAppenders, Loggers
  <2>2. n \notin touched => logger'[n].level = Silent /\ logger'[n].appenders = <<>>
    BY <2>1 DEF SilentInv
  <2> HIDE DEF n
  <2>3. \A m \in Gone' \ (listener'.gone \cup touched') : IsSilent(m)'
    BY <1>1, <1>2, <1>4, <1>5, <2>1, <2>2 DEF SilentInv, IsSilent, Loading
  <2> QED BY <1>1, <1>6, <2>1, <2>3 DEF SilentInv, At, Loading
<1> QED BY <1>7, <1>8

\* Every step keeps the removed loggers silent.
LEMMA SilentStep == TypeInv /\ SilentInv /\ [Next]_vars => SilentInv'
<1> SUFFICES ASSUME TypeInv, SilentInv, [Next]_vars PROVE SilentInv'
  OBVIOUS
<1>1. CASE \/ \E t \in Threads, n \in Names, level \in Levels : Event(t, n, level)
           \/ \E t \in Threads : LogStep(t)
           \/ \E n \in Names : UserCall(n)
           \/ UNCHANGED vars
  <2>1. /\ UNCHANGED setVars /\ touched \subseteq touched'
        /\ \A n \in Names \ touched' : logger'[n] = logger[n]
    BY <1>1, Outside
  <2>2. Gone' = Gone /\ Gone \subseteq Names /\ removed \subseteq Names /\ SomeChanged' = SomeChanged
        /\ \A label : At(label)' = At(label)
    BY <2>1 DEF Gone, Defined, TypeInv, TypeOK, SomeChanged, setVars, At
  <2>3. At("removing") => First(listener.gone) \in Names
    BY ListenerTypes, FirstIsMember DEF TypeInv, LoadShape, At
  <2> QED BY <2>1, <2>2, <2>3 DEF SilentInv, IsSilent, setVars
<1> QED BY <1>1, SilentApply, SilentLoad, SilentRemove DEF Next, ListenerStep

\* RemovedStaySilent: a load that defines or changes some logger silences
\* every logger that it no longer names, until it is defined or called again
\* (LogIniter, log.cc).
THEOREM RemovedStaySilent == Spec => []RemovedSilent
<1>1. Init => SilentInv
  BY DEF Init, SilentInv, At, Idle
<1>2. SilentInv => RemovedSilent
  BY DEF SilentInv, RemovedSilent, IsSilent
<1> QED
  BY <1>1, <1>2, TypeInit, TypeStep, SilentStep, PTL DEF Spec

----------------------------------------------------------------------------
(* A logger that keeps its definition is not disturbed.                    *)

\* A logger that has got the appenders of its definition is not waited for.
LockInv ==
    /\ Undisturbed
    /\ ~At("idle") =>
         \A n \in Defined(listener.new) \ (listener.todo \cup touched) :
            ~(Working /\ n = Cur) /\ listener.new[n].appenders # <<>> => ~Locked(n)
    /\ At("add") /\ listener.k > 1 /\ Cur \notin touched => ~Locked(Cur)

\* A logger that keeps a definition with appenders has appenders.
LEMMA KeptHasAppenders ==
  ASSUME TypeInv, ConfInv, NEW n \in Names, Kept(n)
  PROVE  logger[n].appenders # <<>>
<1>1. value[n] \in Defines /\ value[n].appenders # <<>> /\ n \in Defined(value)
  BY ConfigTypes DEF Kept, TypeInv, TypeOK, Defined
<1>2. Conforms(n, value[n])
  <2>1. CASE At("idle")
    BY <1>1, <2>1 DEF Kept, ConfInv, ConfApplied
  <2>2. CASE ~At("idle")
    <3>1. listener.new[n] = value[n] /\ n \in Defined(listener.new) \ touched
      BY <1>1, <2>2 DEF Kept, Defined
    <3>2. ~(Working /\ n = Cur)
      BY <2>2, <3>1 DEF TypeInv, LoadShape, Working, At
    <3> QED BY <2>2, <1>1, <3>1, <3>2 DEF ConfInv, Defined
  <2> QED BY <2>1, <2>2
<1>3. DOMAIN Built(value[n], logger[n].formatter) # {}
  <2>1. value[n].appenders \in Seq(AppenderDefs)
    BY <1>1 DEF Defines
  <2>2. Len(value[n].appenders) \in Nat \ {0}
    BY <1>1, <2>1, EmptySeq, LenProperties
  <2>3. 1 \in 1..Len(value[n].appenders)
    BY <2>2
  <2> QED BY <1>1, <2>3, BuiltWorks
<1>4. DOMAIN <<>> = {}
  OBVIOUS
<1> QED BY <1>2, <1>3, <1>4 DEF Conforms

\* So does a visited one whose new definition has some.
LEMMA VisitedHasAppenders ==
  ASSUME TypeInv, ConfInv, ~At("idle"), NEW n \in Defined(listener.new) \ (listener.todo \cup touched),
         ~(Working /\ n = Cur), listener.new[n].appenders # <<>>
  PROVE  logger[n].appenders # <<>>
<1>1. listener.new[n] \in Defines /\ Conforms(n, listener.new[n])
  BY ConfigTypes, ListenerTypes DEF TypeInv, ConfInv
<1>2. DOMAIN Built(listener.new[n], logger[n].formatter) # {}
  <2>1. listener.new[n].appenders \in Seq(AppenderDefs)
    BY <1>1 DEF Defines
  <2>2. Len(listener.new[n].appenders) \in Nat \ {0}
    BY <2>1, EmptySeq, LenProperties
  <2>3. 1 \in 1..Len(listener.new[n].appenders)
    BY <2>2
  <2> QED BY <1>1, <2>3, BuiltWorks
<1>3. DOMAIN <<>> = {}
  OBVIOUS
<1> QED BY <1>1, <1>2, <1>3 DEF Conforms

\* The logger that the listener has added an appender to has one.
LEMMA AddedHasAppenders ==
  ASSUME TypeInv, ConfInv, At("add"), listener.k > 1, Cur \notin touched
  PROVE  logger[Cur].appenders # <<>>
<1>1. Len(logger[Cur].appenders) = listener.k - 1 /\ listener.k \in Nat
  BY ListenerTypes DEF ConfInv, Progress, Working, At, TypeInv
<1>2. Len(<<>>) = 0
  OBVIOUS
<1>3. listener.k - 1 # 0
  BY <1>1
<1> QED BY <1>1, <1>2, <1>3

\* The steps outside the load take no mutex of a logger with appenders.
LEMMA LockOutside ==
  ASSUME TypeInv, ConfInv, LockInv,
         \/ \E t \in Threads, n \in Names, level \in Levels : Event(t, n, level)
         \/ \E t \in Threads : LogStep(t)
         \/ \E n \in Names : UserCall(n)
         \/ UNCHANGED vars
  PROVE  LockInv'
<1>1. /\ UNCHANGED <<value, listener>> /\ touched \subseteq touched'
      /\ \A n \in Names : Locked(n)' => Locked(n) \/ logger[n].appenders = <<>>
  BY Outside DEF setVars
<1>2. Working' = Working /\ Cur' = Cur /\ \A label : At(label)' = At(label)
  BY <1>1 DEF Working, Cur, At
<1>3. ASSUME NEW n \in Names, Kept(n)' PROVE Kept(n)
  BY <1>1, <1>3 DEF Kept, At
<1>4. Undisturbed'
  BY <1>1, <1>3, KeptHasAppenders DEF LockInv, Undisturbed
<1>5. ASSUME ~At("idle"), NEW n \in Defined(listener.new) \ (listener.todo \cup touched'),
             ~(Working /\ n = Cur), listener.new[n].appenders # <<>>
      PROVE  ~Locked(n)'
  <2>1. n \in Names /\ n \notin touched
    BY <1>1, <1>5 DEF Defined
  <2> QED BY <1>1, <1>5, <2>1, VisitedHasAppenders DEF LockInv
<1>6. ASSUME At("add"), listener.k > 1, Cur \notin touched' PROVE ~Locked(Cur)'
  <2>1. Cur \in Names /\ Cur \notin touched /\ ~Locked(Cur)
    BY <1>1, <1>6, ListenerTypes DEF TypeInv, At, LockInv
  <2>2. logger[Cur].appenders # <<>>
    BY <1>6, <2>1, AddedHasAppenders
  <2>3. \A n \in Names : n = Cur => ~Locked(n)'
    BY <1>1, <2>1, <2>2
  <2> QED BY <1>2, <2>1, <2>3
<1> QED BY <1>1, <1>2, <1>4, <1>5, <1>6 DEF LockInv

\* The steps of the load take no mutex for longer than a call.
LEMMA LockLoad ==
  ASSUME TypeInv, LockInv, (\E new \in Configs : SetValue(new)) \/ ListenerStep
  PROVE  LockInv'
<1>1. UNCHANGED th /\ \A n \in Names : Locked(n)' = Locked(n)
  BY DEF SetValue, ListenerStep, NextDefine, ApplyLevel, ApplyFormatter, ApplyClear, ApplyAppender,
     ApplyDone, RemoveLevel, RemoveClear, RemoveDone, Assign, Move, logVars, Locked
<1>2. CASE \E new \in Configs : SetValue(new)
  <2>1. PICK new \in Configs : SetValue(new)
    BY <1>2
  <2>2. /\ listener' = [at |-> "next", new |-> new, todo |-> Defined(new), cur |-> Root, k |-> 1,
                        gone |-> {}]
        /\ UNCHANGED <<value, touched>> /\ At("idle") /\ ~At("add")'
    BY <2>1 DEF SetValue, Move, At
  <2>3. Undisturbed'
    BY <1>1, <2>2 DEF LockInv, Undisturbed, Kept
  <2> QED BY <2>2, <2>3 DEF LockInv
<1>3. CASE ApplyLevel \/ ApplyFormatter \/ ApplyClear \/ ApplyAppender
  <2>1. /\ ~At("idle") /\ ~At("next") /\ listener \in Loading /\ Cur \in Names /\ Working
        /\ listener.k \in Nat \ {0}
    BY <1>3, ListenerTypes DEF TypeInv, ApplyLevel, ApplyFormatter, ApplyClear, ApplyAppender, At, Working
  <2>2. /\ UNCHANGED value /\ listener'.new = listener.new /\ listener'.todo = listener.todo
        /\ Cur' = Cur /\ Working' /\ ~At("idle")'
        /\ touched' \ {Cur} = touched \ {Cur}
        /\ (At("add") /\ listener.k > 1)' => ~Locked(Cur)
    BY <1>3, <2>1 DEF ApplyLevel, ApplyFormatter, ApplyClear, ApplyAppender, Move, Loading, At, Cur, Working
  <2>3. value[Cur] # listener.new[Cur]
    BY <2>1 DEF TypeInv, LoadShape
  <2>4. \A n \in Names : Kept(n)' => Kept(n)
    BY <2>1, <2>2, <2>3 DEF Kept
  <2>5. Undisturbed'
    BY <1>1, <2>4 DEF LockInv, Undisturbed
  <2>6. \A n \in Defined(listener.new) : n \in Names
    BY DEF Defined
  <2>7. \A n \in Names : n = Cur => Locked(n)' = Locked(n)
    BY <1>1
  <2>8. Locked(Cur)' = Locked(Cur)
    BY <2>1, <2>2, <2>7
  <2> QED BY <1>1, <2>1, <2>2, <2>5, <2>6, <2>8 DEF LockInv
<1>4. CASE ApplyDone
  <2>1. /\ ~At("idle") /\ ~At("next") /\ At("add") /\ listener \in Loading /\ Cur \in Names /\ Working
        /\ listener.k \in Nat \ {0} /\ listener.k > Len(Def.appenders)
        /\ Def \in Defines
    BY <1>4, ListenerTypes, DefTypes DEF TypeInv, ApplyDone, At, Working
  <2>2. /\ UNCHANGED <<value, touched>> /\ listener'.new = listener.new
        /\ listener'.todo = listener.todo /\ ~Working' /\ ~At("idle")' /\ ~At("add")'
    BY <1>4, <2>1 DEF ApplyDone, Move, Loading, At, Working
  <2>3. Undisturbed'
    BY <1>1, <2>1, <2>2 DEF LockInv, Undisturbed, Kept
  <2>4. Def.appenders # <<>> /\ Cur \notin touched => ~Locked(Cur)
    <3>1. Def.appenders \in Seq(AppenderDefs)
      BY <2>1 DEF Defines
    <3>2. Def.appenders # <<>> => Len(Def.appenders) \in Nat \ {0}
      BY <3>1, EmptySeq, LenProperties
    <3>3. Def.appenders # <<>> => listener.k > 1
      BY <3>2, <2>1
    <3> QED BY <3>3, <2>1 DEF LockInv
  <2>5. ASSUME NEW n \in Defined(listener.new) \ (listener.todo \cup touched),
               listener.new[n].appenders # <<>>
        PROVE  ~Locked(n)'
    <3>1. n \in Names
      BY DEF Defined
    <3>2. ~Locked(n)
      BY <2>1, <2>4, <2>5 DEF LockInv, Def
    <3> QED BY <1>1, <3>1, <3>2
  <2> QED BY <2>2, <2>3, <2>5 DEF LockInv
<1>5. CASE NextDefine
  <2> DEFINE n == First(listener.todo)
  <2>1. listener \in Loading /\ listener.todo # {} /\ listener.todo \subseteq Names
        /\ At("next") /\ listener.todo \subseteq Defined(listener.new) /\ ~Working /\ ~At("idle")
    BY <1>5, ListenerTypes DEF NextDefine, TypeInv, LoadShape, At, Working
  <2>2. n \in listener.todo
    BY <2>1, FirstIsMember
  <2> HIDE DEF n
  <2>3. /\ UNCHANGED <<value, touched>> /\ listener'.new = listener.new
        /\ listener'.todo = listener.todo \ {n} /\ ~At("idle")' /\ ~At("add")'
        /\ \/ ~Working' /\ Same(n)
           \/ Working' /\ Cur' = n
    BY <2>1, <1>5 DEF NextDefine, Move, Loading, At, Working, Cur, n
  <2>4. Undisturbed'
    BY <1>1, <2>1, <2>3 DEF LockInv, Undisturbed, Kept
  <2>5. ASSUME NEW m \in Defined(listener.new) \ ((listener.todo \ {n}) \cup touched),
               listener.new[m].appenders # <<>>, m # n \/ Same(n)
        PROVE  ~Locked(m)'
    <3>1. m \in Names /\ listener.new[m] # Undef
      BY DEF Defined
    <3>2. CASE m # n
      BY <1>1, <2>1, <2>5, <3>1, <3>2 DEF LockInv
    <3>3. CASE m = n
      <4>1. Kept(m)
        BY <2>1, <2>5, <3>1, <3>3 DEF Kept, Same
      <4> QED BY <1>1, <3>1, <4>1 DEF LockInv, Undisturbed
    <3> QED BY <3>2, <3>3
  <2> QED BY <2>3, <2>4, <2>5 DEF LockInv
<1>6. CASE RemoveLevel \/ RemoveClear \/ RemoveDone
  <2> DEFINE n == First(listener.gone)
  <2>1. /\ listener \in Loading /\ listener.gone \subseteq Names /\ listener.gone \subseteq Gone
        /\ ~At("idle") /\ ~At("add") /\ ~Working
    BY <1>6, ListenerTypes DEF RemoveLevel, RemoveClear, RemoveDone, TypeInv, LoadShape, At, Working
  <2>2. /\ UNCHANGED value /\ listener'.new = listener.new /\ listener'.todo = listener.todo
        /\ ~At("idle")' /\ ~At("add")' /\ ~Working'
    BY <1>6, <2>1 DEF RemoveLevel, RemoveClear, RemoveDone, Move, Loading, At, Working
  <2>3. touched' = touched \/ (touched' = touched \ {n} /\ n \in Gone)
    BY <1>6, <2>1, FirstIsMember DEF RemoveLevel, RemoveClear, RemoveDone
  <2> HIDE DEF n
  <2>4. \A m \in Gone : m \notin Defined(listener.new) /\ value[m] # listener.new[m]
    BY DEF Gone, Defined
  <2>5. \A m \in Names : Kept(m)' => Kept(m)
    BY <2>1, <2>2, <2>3, <2>4 DEF Kept
  <2>6. Undisturbed'
    BY <1>1, <2>5 DEF LockInv, Undisturbed
  <2>7. \A m \in Defined(listener.new) : m \in Names
    BY DEF Defined
  <2> QED BY <1>1, <2>1, <2>2, <2>3, <2>4, <2>6, <2>7 DEF LockInv
<1>7. CASE Assign
  <2>1. /\ At("next") /\ ~At("idle") /\ ~Working /\ listener.todo = {} /\ listener' = Idle
        /\ value' = listener.new /\ UNCHANGED touched
    BY <1>7 DEF Assign, At, Working
  <2>2. ASSUME NEW n \in Names, Kept(n)' PROVE ~Locked(n)'
    <3>1. n \in Defined(listener.new) \ touched /\ listener.new[n].appenders # <<>>
      BY <2>1, <2>2 DEF Kept, Defined
    <3> QED BY <1>1, <2>1, <3>1 DEF LockInv
  <2> QED BY <2>1, <2>2 DEF LockInv, Undisturbed, At, Idle
<1> QED BY <1>2, <1>3, <1>4, <1>5, <1>6, <1>7 DEF ListenerStep

\* KeptUndisturbed: while a logger keeps a definition with appenders none of
\* its events is diverted to the root, through any number of loads around it
\* (Logger::log() and LogIniter, log.cc).
THEOREM KeptUndisturbed == Spec => []Undisturbed
<1>1. Init => ConfInv /\ LockInv
  BY DEF Init, ConfInv, ConfApplied, Progress, LockInv, Undisturbed, Locked, Working, At, Idle,
     Defined, NoDefines
<1>2. TypeInv /\ ConfInv /\ LockInv /\ [Next]_vars => LockInv'
  BY LockOutside, LockLoad DEF Next
<1>3. LockInv => Undisturbed
  BY DEF LockInv
<1> QED
  BY <1>1, <1>2, <1>3, TypeInit, TypeStep, ConfStep, PTL DEF Spec

----------------------------------------------------------------------------
(* What a logger writes as YAML makes it again.                            *)

\* The k-th of the numbers from 1 to n.
LEMMA NthNumber ==
  ASSUME NEW n \in Nat, NEW k \in 1..n
  PROVE  Nth(1..n, k) = k
<1>1. ASSUME NEW x \in 1..n
      PROVE  Cardinality({y \in 1..n : y <= x}) = x
  <2>1. {y \in 1..n : y <= x} = 1..x
    OBVIOUS
  <2>2. Cardinality(1..x) = x
    BY FS_Interval
  <2> QED BY <2>1, <2>2
<1>2. \A x \in 1..n : Cardinality({y \in 1..n : y <= x}) = k <=> x = k
  BY <1>1
<1> QED BY <1>2, Zenon DEF Nth

\* LogLevel::FromString() reads what ToString() writes.
LEMMA LevelReads ==
  ASSUME NEW level \in 0..FATAL
  PROVE  LogLevel_FromString(LogLevel_ToString(level)) = level
<1>0. DOMAIN LevelNames = 1..5 /\ DOMAIN lower = 1..5
  BY DEF LevelNames, lower
<1>1. /\ LevelNames[1] = "DEBUG" /\ LevelNames[2] = "INFO" /\ LevelNames[3] = "WARN"
      /\ LevelNames[4] = "ERROR" /\ LevelNames[5] = "FATAL"
      /\ lower[1] = "debug" /\ lower[2] = "info" /\ lower[3] = "warn"
      /\ lower[4] = "error" /\ lower[5] = "fatal"
  BY DEF LevelNames, lower
<1> DEFINE str == LogLevel_ToString(level)
<1>3. str = IF level \in 1..5 THEN LevelNames[level] ELSE "UNKNOW"
  <2>1. level \in DOMAIN LevelNames <=> level \in 1..5
    BY <1>0
  <2> QED BY <2>1, Zenon DEF LogLevel_ToString
<1>4. LogLevel_FromString(str) = IF \E l \in 1..5 : str \in {LevelNames[l], lower[l]}
                                 THEN CHOOSE l \in 1..5 : str \in {LevelNames[l], lower[l]}
                                 ELSE UNKNOW
  BY <1>0, Zenon DEF LogLevel_FromString
<1> HIDE DEF str
<1>2. \A l \in 1..5 : l = 1 \/ l = 2 \/ l = 3 \/ l = 4 \/ l = 5
  OBVIOUS
<1>5. CASE level = 0
  <2>1. str = "UNKNOW"
    BY <1>3, <1>5
  <2>2. ~\E l \in 1..5 : str \in {LevelNames[l], lower[l]}
    BY <1>1, <1>2, <2>1
  <2>3. LogLevel_FromString(str) = UNKNOW
    BY <1>4, <2>2, Zenon
  <2>4. LogLevel_FromString(str) = level
    BY <1>5, <2>3 DEF UNKNOW
  <2> QED BY <2>1, <2>4 DEF str
<1>6. CASE level \in 1..5
  <2>1. str = LevelNames[level]
    BY <1>3, <1>6, Zenon
  <2>3. \A l \in 1..5 : str \in {LevelNames[l], lower[l]} <=> l = level
    BY <1>1, <1>2, <1>6, <2>1
  <2>4. (CHOOSE l \in 1..5 : str \in {LevelNames[l], lower[l]}) = level
    BY <1>6, <2>3, Zenon
  <2>5. LogLevel_FromString(str) = level
    BY <1>4, <1>6, <2>3, <2>4, Zenon
  <2> QED BY <2>5 DEF str
<1> QED BY <1>5, <1>6 DEF FATAL

\* What the listener makes of the definition of an appender, given the
\* pattern of the logger.
Rebuilt(b, pattern) ==
    IF Usable(b.formatter) THEN Made(b) ELSE [Made(b) EXCEPT !.formatter = pattern]

\* The text of an appender makes it again, but for its level.
LEMMA AppenderReads ==
  ASSUME NEW a \in Appenders, Proper(a), NEW pattern, ~a.own => a.formatter = pattern,
         a.own => a.formatter # Blank
  PROVE  /\ Wanted(AppenderToYaml(a))
         /\ Rebuilt(AppenderFrom(AppenderToYaml(a)), pattern) = [a EXCEPT !.level = UNKNOW]
<1> DEFINE y == AppenderToYaml(a)
           b == AppenderFrom(y)
<1>1. /\ a.type \in {File, Stdout} /\ a.file \in Strings /\ a.own \in BOOLEAN /\ a.formatter \in STRING
      /\ a = [type |-> a.type, file |-> a.file, level |-> a.level, own |-> a.own, formatter |-> a.formatter]
  BY DEF Appenders
<1>2. Undef \notin Strings /\ a.formatter # Undef
  BY <1>1, LogAssumption DEF Strings
<1>3. File # Stdout
  BY DEF File, Stdout
<1>4. /\ y.type = a.type
      /\ y.file = IF a.type = File THEN a.file ELSE Undef
      /\ y.formatter = IF a.own THEN a.formatter ELSE Undef
  BY DEF AppenderToYaml
<1> HIDE DEF y
<1>5. Wanted(y)
  BY <1>1, <1>2, <1>4 DEF Wanted
<1>6. /\ b.type = a.type /\ b.level = UNKNOW
      /\ b.formatter = IF a.own THEN a.formatter ELSE Blank
      /\ b.file = a.file
  BY <1>1, <1>2, <1>4 DEF AppenderFrom, Or, Proper
<1>7. Usable(b.formatter) <=> a.own
  BY <1>1, <1>6 DEF Usable, Proper
<1> HIDE DEF b
<1>8. Made(b) = [type |-> a.type, file |-> a.file, level |-> UNKNOW, own |-> a.own, formatter |-> b.formatter]
  <2>1. (IF b.type = File THEN b.file ELSE Blank) = a.file
    BY <1>6 DEF Proper
  <2>2. Usable(b.formatter) = a.own
    BY <1>1, <1>7 DEF Usable
  <2> QED BY <1>6, <2>1, <2>2, Zenon DEF Made, Appender
<1>9. Rebuilt(b, pattern) =
        [type |-> a.type, file |-> a.file, level |-> UNKNOW, own |-> a.own, formatter |-> a.formatter]
  BY <1>1, <1>6, <1>7, <1>8 DEF Rebuilt
<1>10. [a EXCEPT !.level = UNKNOW] =
        [type |-> a.type, file |-> a.file, level |-> UNKNOW, own |-> a.own, formatter |-> a.formatter]
  BY <1>1
<1> QED BY <1>5, <1>9, <1>10 DEF y, b

\* LoggersReload: the text of Logger::toYamlString() of any logger, after any
\* calls and loads, is read as a definition of which the listener makes the
\* same logger again (log.cc, toYamlString() and the two LexicalCasts).
THEOREM LoggersReload == Spec => []DumpReloads
<1>1. ASSUME TypeInv
      PROVE  DumpReloads
  <2> SUFFICES ASSUME NEW n \in Names, logger[n].level <= FATAL, NoBlank(logger[n])
               PROVE  LET d == LogDefineFrom(LoggerToYaml(n, logger[n])) IN
                      /\ d.level = logger[n].level
                      /\ d.formatter = logger[n].formatter /\ Usable(d.formatter)
                      /\ Built(d, d.formatter) =
                           [x \in DOMAIN logger[n].appenders |->
                              [logger[n].appenders[x] EXCEPT !.level = UNKNOW]]
    BY DEF DumpReloads
  <2> DEFINE l == logger[n]
             as == l.appenders
             size == Len(as)
             y == LoggerToYaml(n, l)
             ys == [x \in DOMAIN as |-> AppenderToYaml(as[x])]
             d == LogDefineFrom(y)
  <2>1. /\ l \in Loggers /\ Sound(l) /\ as \in Seq(Appenders) /\ l.level \in 0..FATAL
        /\ l.formatter \in STRING
    BY <1>1 DEF TypeInv, LoggersOK, Loggers, FATAL
  <2>2. DOMAIN as = 1..size /\ size \in Nat /\ \A x \in 1..size : as[x] \in Appenders
    BY <2>1, LenProperties, ElementOfSeq
  <2>3. ASSUME NEW x \in 1..size
        PROVE  /\ Wanted(AppenderToYaml(as[x]))
               /\ Rebuilt(AppenderFrom(AppenderToYaml(as[x])), l.formatter) =
                    [as[x] EXCEPT !.level = UNKNOW]
    <3>1. /\ as[x] \in Appenders /\ Proper(as[x])
          /\ ~as[x].own => as[x].formatter = l.formatter
          /\ as[x].own => as[x].formatter # Blank
      BY <2>1, <2>2 DEF Sound, NoBlank
    <3> HIDE DEF as, l
    <3> QED BY <3>1, AppenderReads, Zenon
  <2>4. /\ y.name = n /\ y.level = LogLevel_ToString(l.level) /\ y.formatter = l.formatter
        /\ y.appenders = ys
    BY DEF LoggerToYaml
  <2>5. Pushed(ys) = 1..size /\ Cardinality(1..size) = size
    <3>1. Cardinality(1..size) = size
      BY <2>2, FS_Interval
    <3> QED BY <2>2, <2>3, <3>1 DEF Pushed
  <2> HIDE DEF y
  <2>6. y.name # Undef /\ y.level # Undef /\ y.formatter # Undef
    BY <2>1, <2>4, LogAssumption DEF Strings
  <2>7. d = [name |-> y.name, level |-> LogLevel_FromString(y.level), formatter |-> y.formatter,
             appenders |-> [k \in 1..size |-> AppenderFrom(ys[Nth(1..size, k)])]]
    BY <2>4, <2>5, <2>6 DEF LogDefineFrom, Or
  <2>8. d.level = l.level /\ d.formatter = l.formatter /\ Usable(d.formatter)
    <3>1. LogLevel_FromString(y.level) = l.level
      BY <2>1, <2>4, LevelReads
    <3>2. Usable(l.formatter)
      BY <2>1 DEF Usable, Sound, NoBlank
    <3> QED BY <2>4, <2>7, <3>1, <3>2
  <2>9. ASSUME NEW k \in 1..size
        PROVE  d.appenders[k] = AppenderFrom(AppenderToYaml(as[k]))
    <3>1. Nth(1..size, k) = k
      BY <2>2, NthNumber
    <3> QED BY <2>2, <2>7, <3>1
  <2>10. DOMAIN d.appenders = 1..size
    BY <2>7
  <2> HIDE DEF d, l
  <2>11. Built(d, d.formatter) = [x \in 1..size |-> Rebuilt(d.appenders[x], d.formatter)]
    BY <2>10, Zenon DEF Built, Rebuilt
  <2>12. \A x \in 1..size : Rebuilt(d.appenders[x], d.formatter) = [as[x] EXCEPT !.level = UNKNOW]
    BY <2>3, <2>8, <2>9
  <2>13. Built(d, d.formatter) = [x \in DOMAIN as |-> [as[x] EXCEPT !.level = UNKNOW]]
    BY <2>2, <2>11, <2>12
  <2> QED BY <2>8, <2>13 DEF d, l, y
<1> QED
  BY <1>1, TypeInit, TypeStep, PTL DEF Spec
=============================================================================
