------------------------------- MODULE MCLog -------------------------------
(* Three loggers, two logging threads, and configurations that add, keep,  *)
(* change and remove loggers: with an unknown appender type, an invalid    *)
(* pattern, a missing file, and a root logger without appenders.           *)
EXTENDS Log

MCNames == {"root", "a", "b"}
MCRank == [n \in MCNames |-> CASE n = "a" -> 1 [] n = "b" -> 2 [] n = "root" -> 3]

Map(name, level, formatter, appenders) ==
    LogDefineFrom([name |-> name, level |-> level, formatter |-> formatter,
                   appenders |-> appenders])
AppMap(type, file, formatter) ==
    [type |-> type, file |-> file, level |-> "ERROR", formatter |-> formatter]

A == Map("a", "debug", Undef, <<AppMap(File, "a.txt", Undef), AppMap(Stdout, Undef, "p")>>)
B == Map("b", Undef, "p", <<AppMap(Stdout, Undef, "bad"), AppMap("Syslog", Undef, Undef)>>)
B2 == Map("b", "FATAL", "bad", <<AppMap(File, Undef, Undef)>>)
R == Map("root", "FATAL", Undef, <<>>)

Logs(a, b, r) ==
    [n \in MCNames |-> CASE n = "a" -> a [] n = "b" -> b [] n = "root" -> r]
MCConfigs == {Logs(A, B, Undef), Logs(A, B2, R), Logs(Undef, B, Undef)}
=============================================================================
