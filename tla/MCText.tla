------------------------------- MODULE MCText -------------------------------
(* The parser on all short patterns and on all short sequences of pieces,  *)
(* and the conversions of every container; a behaviour does one of them.   *)
EXTENDS LogFormatter, LexicalCast

MCLetters == {"m", "d", "x", "T", "H"}
Alphabet == {"m", "x", "%", "{", "}", " "}
MCFields == [class \in {FormatItems[n] : n \in DOMAIN FormatItems} |-> class]

Piece(t, w, k) == [text |-> t, writes |-> w, known |-> k]
MCPieces ==
    {Piece(<<" ">>, <<" ">>, TRUE), Piece(<<"[", "x", "]">>, <<"[", "x", "]">>, TRUE),
     Piece(<<"%", "m">>, <<"MessageFormatItem">>, TRUE),
     Piece(<<"%", "T">>, <<"\t">>, TRUE),
     Piece(<<"%", "d">>, <<"DateTimeFormatItem">> \o <<DefaultTime>>, TRUE),
     Piece(<<"%", "d", "{", "%", "H", "}">>, <<"DateTimeFormatItem", "%", "H">>, TRUE),
     Piece(<<"%", "x">>, <<"<<error_format %", "x", ">>">>, FALSE),
     Piece(<<"%", "m", "m">>, <<"<<error_format %", "m", "m", ">>">>, FALSE)}

MCPatterns ==
    UNION {[1..k -> Alphabet] : k \in 0..5} \cup
    {FlattenSeq([k \in DOMAIN ps |-> ps[k].text]) : ps \in PieceSeqs}

----------------------------------------------------------------------------
\* "a: b" as a text is a map; as the content of a scalar it needs quotes.
Special == "a: b"
Quoted == "'a: b'"
MCTexts == {"1", "2", "w", "", "~", Special, Quoted}
MCNodes == {"scalar 1", "scalar 2", "scalar w", "null", "map a b", "scalar a: b"}
MCLoad == [t \in MCTexts |->
             CASE t = "1" -> "scalar 1" [] t = "2" -> "scalar 2" [] t = "w" -> "scalar w"
               [] t \in {"", "~"} -> "null" [] t = Special -> "map a b"
               [] t = Quoted -> "scalar a: b"]
MCEmit == [n \in MCNodes |-> CHOOSE t \in MCTexts \ {""} : MCLoad[t] = n]

MCElemFrom == [T \in {"int", "string"} |->
                 [t \in MCTexts |->
                    IF T = "string" THEN t
                    ELSE CASE t = "1" -> 1 [] t = "2" -> 2 [] OTHER -> Throw]]
MCElemTo == [T \in {"int", "string"} |->
               IF T = "string" THEN [t \in MCTexts |-> t]
               ELSE [e \in {1, 2} |-> IF e = 1 THEN "1" ELSE "2"]]

MCTypes == ((Lists \cup Sets \cup Maps) \X Scalars) \cup {Logs}

Short(S) == UNION {[1..k -> S] : k \in 0..2}
SeqDocs == {[kind |-> "seq", of |-> s] : s \in Short(MCNodes)}
MapDocs == {[kind |-> "map", of |-> s] : s \in Short({"k", "l"} \X MCNodes)}
FlatDocs == {[kind |-> k, of |-> <<>>] : k \in {"null", "scalar"}}

AppMap(ty, file, level, formatter) ==
    [type |-> ty, file |-> file, level |-> level, formatter |-> formatter]
AppDocs == {AppMap(File, "f", "ERROR", Undef), AppMap(File, Undef, Undef, "%m"),
            AppMap(Stdout, Undef, Undef, "%m"), AppMap(Undef, Undef, Undef, Undef),
            AppMap("Syslog", Undef, Undef, Undef)}
LoggerDocs == [name: {Undef, "a", "b"}, level: {"info", "loud"}, formatter: {Undef, "%m"},
            appenders: {<<>>} \cup {<<a, b>> : a, b \in AppDocs}]
LogDocs == {[kind |-> "seq", of |-> s] :
              s \in {<<>>} \cup {<<l>> : l \in LoggerDocs}
                    \cup {<<l, k>> : l \in LoggerDocs, k \in {m \in LoggerDocs : m.appenders = <<>>}}}

\* Of "logs", documents of at most two loggers.
MCDocuments == [ty \in MCTypes |->
    IF ty = Logs THEN LogDocs
    ELSE FlatDocs \cup SeqDocs \cup
         (IF ty[1] \in {"map", "unordered_map"} THEN MapDocs ELSE {})]

Warned == [type |-> Stdout, level |-> 3, formatter |-> "", file |-> "f"]
MCDefaults == [ty \in MCTypes |->
    IF ty = Logs THEN {{}, {[name |-> "a", level |-> DEBUG, formatter |-> "", appenders |-> <<Warned>>]}}
    ELSE IF ty[1] \in {"vector", "list"} THEN Short(Elems(ty[2]))
    ELSE IF ty[1] \in {"set", "unordered_set"} THEN {S \in SUBSET Elems(ty[2]) : Cardinality(S) <= 3}
    ELSE UNION {[K -> Elems(ty[2])] : K \in SUBSET {"k", "l"}}]

----------------------------------------------------------------------------
\* A parser and a conversion that have ended.
FormatEnded ==
    /\ m_pattern = <<>> /\ i = 1 /\ nstr = <<>> /\ vec = <<>> /\ m_error = FALSE
    /\ m_items = [made |-> TRUE, seq |-> <<>>]
CastEnded == type = Logs /\ value = Throw /\ text = NoValue /\ again = NoValue

Init == (FormatInit /\ CastEnded) \/ (CastInit /\ FormatEnded)
Next == \/ FormatNext /\ UNCHANGED castVars
        \/ CastNext /\ UNCHANGED formatVars
Spec == Init /\ [][Next]_<<formatVars, castVars>>
=============================================================================
