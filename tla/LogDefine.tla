----------------------------- MODULE LogDefine -----------------------------
(***************************************************************************)
(* What the log configuration of src/awcotn/log.{h,cc} is made of: levels, *)
(* the LogDefine that a YAML map becomes, and the YAML map that a LogDefine *)
(* or a logger becomes.  A YAML map is a record whose missing keys hold    *)
(* Undef; its "appenders" are a sequence, empty when there is none.        *)
(***************************************************************************)
EXTENDS Naturals, Sequences, FiniteSets

CONSTANTS Undef,      \* a key that a YAML map does not have
          Throw       \* a conversion that throws

UNKNOW == 0
FATAL == 5
INFO == 2
DEBUG == 1
Silent == 100        \* the level the listener gives a removed logger

LevelNames == <<"DEBUG", "INFO", "WARN", "ERROR", "FATAL">>
lower == <<"debug", "info", "warn", "error", "fatal">>

LogLevel_ToString(level) == IF level \in DOMAIN LevelNames THEN LevelNames[level] ELSE "UNKNOW"

LogLevel_FromString_Lower(str) ==                                        \* mutant
    IF \E l \in DOMAIN lower : str = lower[l]
    THEN CHOOSE l \in DOMAIN lower : str = lower[l] ELSE UNKNOW
LogLevel_FromString(str) ==
    IF \E l \in DOMAIN lower : str \in {LevelNames[l], lower[l]}
    THEN CHOOSE l \in DOMAIN lower : str \in {LevelNames[l], lower[l]} ELSE UNKNOW

\* No file, no pattern, no level.
Blank == ""
Strings == {Blank} \cup STRING
Or(key, default) == IF key = Undef THEN default ELSE key

----------------------------------------------------------------------------
(* LexicalCast<std::string, LogDefine>.                                    *)

File == "FileLogAppender"
Stdout == "StdoutLogAppender"

\* An appender without a type, of an unknown type, or a file appender
\* without a file is skipped.
Wanted(a) == a.type = Stdout \/ (a.type = File /\ a.file # Undef)

AppenderFrom(a) ==
    [type |-> a.type, level |-> UNKNOW, formatter |-> Or(a.formatter, Blank),
     file |-> IF a.type = File THEN a.file ELSE Blank]

\* The appenders that are pushed, and the one pushed as the k-th.
Pushed(as) == {x \in DOMAIN as : Wanted(as[x])}
Nth(S, k) == CHOOSE x \in S : Cardinality({y \in S : y <= x}) = k

LogDefineFrom(n) ==
    IF n.name = Undef THEN Throw
    ELSE LET as == n.appenders IN
         [name |-> n.name, level |-> LogLevel_FromString(Or(n.level, Blank)),
          formatter |-> Or(n.formatter, Blank),
          appenders |-> [k \in 1..Cardinality(Pushed(as)) |->
                           AppenderFrom(as[Nth(Pushed(as), k)])]]

----------------------------------------------------------------------------
(* LexicalCast<LogDefine, std::string>.                                    *)

NonEmpty(str) == IF str = Blank THEN Undef ELSE str
KnownLevel(level) == IF level = UNKNOW THEN Undef ELSE LogLevel_ToString(level)

AppenderTo(a) ==
    [type |-> a.type, file |-> IF a.type = File THEN a.file ELSE Undef,
     level |-> KnownLevel(a.level), formatter |-> NonEmpty(a.formatter)]

LogDefineTo(d) ==
    [name |-> d.name, level |-> KnownLevel(d.level),
     formatter |-> NonEmpty(d.formatter),
     appenders |-> [x \in DOMAIN d.appenders |-> AppenderTo(d.appenders[x])]]

----------------------------------------------------------------------------
(* toYamlString() of the appenders and of Logger: a is an appender with    *)
(* m_hasFormatter in own, l a logger.                                      *)

AppenderToYaml_All(a) ==                                        \* mutant
    [type |-> a.type, file |-> IF a.type = File THEN a.file ELSE Undef,
     level |-> KnownLevel(a.level), formatter |-> a.formatter]
AppenderToYaml(a) ==
    [type |-> a.type, file |-> IF a.type = File THEN a.file ELSE Undef,
     level |-> KnownLevel(a.level),
     formatter |-> IF a.own THEN a.formatter ELSE Undef]

LoggerToYaml(name, l) ==
    [name |-> name, level |-> LogLevel_ToString(l.level), formatter |-> l.formatter,
     appenders |-> [x \in DOMAIN l.appenders |-> AppenderToYaml(l.appenders[x])]]
=============================================================================
