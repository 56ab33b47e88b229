---------------------------- MODULE LexicalCast ----------------------------
(***************************************************************************)
(* The conversions of src/awcotn/config.h between configuration values and *)
(* YAML text, and those of log.cc for "logs".                              *)
(*                                                                         *)
(* A text is the YAML document it stands for: [kind, of] with the nodes of *)
(* a sequence or the <<key, node>> pairs of a map.  yaml-cpp turns the     *)
(* text of an element into a node (Load) and writes a node as text (Emit): *)
(* an empty text is the null node, which is written "~", and a scalar that *)
(* needs quotes is written with them.  Element casts are functions, too.   *)
(***************************************************************************)
EXTENDS LogDefine, SequencesExt, FiniteSets

CONSTANTS Texts, Load, Emit,     \* yaml-cpp on single nodes
          ElemFrom, ElemTo,      \* LexicalCast of T, by the name of T
          Types,                 \* <<container, T>>
          Documents,             \* what a file may hold for a variable
          Defaults,              \* values the program gives, by type
          NoValue

VARIABLES type, value, text, again
castVars == <<type, value, text, again>>

----------------------------------------------------------------------------
(* The elements of a node, one after the other; one that throws ends all.  *)

\* node.size() is 0 for a scalar and for null.
Nodes(d) == IF d.kind = "seq" THEN d.of ELSE <<>>
Elements(T, nodes) == [x \in DOMAIN nodes |-> ElemFrom[T][Emit[nodes[x]]]]
OrThrow(elements, result) == IF Throw \in ToSet(elements) THEN Throw ELSE result

VectorFrom(T, d) == LET e == Elements(T, Nodes(d)) IN OrThrow(e, e)
ListFrom(T, d) == LET e == Elements(T, Nodes(d)) IN OrThrow(e, e)
SetFrom(T, d) == LET e == Elements(T, Nodes(d)) IN OrThrow(e, ToSet(e))
USetFrom(T, d) == LET e == Elements(T, Nodes(d)) IN OrThrow(e, ToSet(e))

\* The iterator over a sequence has no keys: Scalar() throws.  insert()
\* keeps the first of two equal keys.
Pairs(d) == IF d.kind = "map" THEN d.of ELSE <<>>
FirstOf(pairs, k) == CHOOSE x \in DOMAIN pairs :
                        pairs[x][1] = k /\ \A y \in 1..(x - 1) : pairs[y][1] # k
ByKey(T, pairs) ==
    LET e == [x \in DOMAIN pairs |-> ElemFrom[T][Emit[pairs[x][2]]]] IN
    OrThrow(e, [k \in {pairs[x][1] : x \in DOMAIN pairs} |-> e[FirstOf(pairs, k)]])

MapFrom(T, d) == IF Nodes(d) # <<>> THEN Throw ELSE ByKey(T, Pairs(d))
UMapFrom(T, d) == IF Nodes(d) # <<>> THEN Throw ELSE ByKey(T, Pairs(d))

----------------------------------------------------------------------------
(* The texts a value may be written as: sets and maps in any order.        *)

Sequence(nodes) == [kind |-> "seq", of |-> nodes]
NodeOf(T, e) == Load[ElemTo[T][e]]
NodesOf(T, s) == [x \in DOMAIN s |-> NodeOf(T, s[x])]

\* An empty vector leaves the node undefined in kind: null.
VectorTo(T, v) == {IF v = <<>> THEN [kind |-> "null", of |-> <<>>] ELSE Sequence(NodesOf(T, v))}
ListTo(T, v) == {Sequence(NodesOf(T, v))}
SetTo(T, v) == {Sequence(NodesOf(T, s)) : s \in SetToSeqs(v)}
USetTo(T, v) == {Sequence(NodesOf(T, s)) : s \in SetToSeqs(v)}

MapOf(T, v) == {[kind |-> "map", of |-> [x \in DOMAIN s |-> <<s[x], NodeOf(T, v[s[x]])>>]] :
                  s \in SetToSeqs(DOMAIN v)}
MapTo(T, v) == MapOf(T, v)
UMapTo(T, v) == MapOf(T, v)

----------------------------------------------------------------------------
(* set<LogDefine>: the elements are YAML maps.                             *)

LogsFrom(d) == LET e == [x \in DOMAIN Nodes(d) |-> LogDefineFrom(Nodes(d)[x])]
                   first(n) == CHOOSE x \in DOMAIN e :
                                 e[x].name = n /\ \A y \in 1..(x - 1) : e[y].name # n
               IN OrThrow(e, {e[first(n)] : n \in {e[x].name : x \in DOMAIN e}})
LogsTo(v) == {Sequence([x \in DOMAIN s |-> LogDefineTo(s[x])]) : s \in SetToSeqs(v)}

----------------------------------------------------------------------------
FromStr(ty, d) ==
    LET T == ty[2] IN
    CASE ty[1] = "vector" -> VectorFrom(T, d)
      [] ty[1] = "list" -> ListFrom(T, d)
      [] ty[1] = "set" -> IF T = "LogDefine" THEN LogsFrom(d) ELSE SetFrom(T, d)
      [] ty[1] = "unordered_set" -> USetFrom(T, d)
      [] ty[1] = "map" -> MapFrom(T, d)
      [] ty[1] = "unordered_map" -> UMapFrom(T, d)
ToStr(ty, v) ==
    LET T == ty[2] IN
    CASE ty[1] = "vector" -> VectorTo(T, v)
      [] ty[1] = "list" -> ListTo(T, v)
      [] ty[1] = "set" -> IF T = "LogDefine" THEN LogsTo(v) ELSE SetTo(T, v)
      [] ty[1] = "unordered_set" -> USetTo(T, v)
      [] ty[1] = "map" -> MapTo(T, v)
      [] ty[1] = "unordered_map" -> UMapTo(T, v)

----------------------------------------------------------------------------
(* What is assumed of yaml-cpp, of the casts of elements, and of the       *)
(* values and the files there are.                                         *)

\* The text of null.
Tilde == "~"

\* What a file cannot hold: an empty string in a container, which comes back
\* as "~", and the level of an appender, which is never read, nor a file that
\* an appender of the console was given.
Bare(a) == [a EXCEPT !.level = UNKNOW, !.file = IF a.type = File THEN a.file ELSE Blank]
Kept(T, e) ==
    CASE T = "int" -> e
      [] T = "string" -> IF e = Blank THEN Tilde ELSE e
      [] T = "LogDefine" ->
           [e EXCEPT !.appenders = [x \in DOMAIN e.appenders |-> Bare(e.appenders[x])]]

Scalars == {"int", "string"}
Lists == {"vector", "list"}
Sets == {"set", "unordered_set"}
Maps == {"map", "unordered_map"}
Logs == <<"set", "LogDefine">>

\* The elements: what nodes are read as, and the empty string.
Elems(T) == ({ElemFrom[T][Emit[n]] : n \in DOMAIN Emit} \ {Throw})
            \cup (IF T = "string" THEN {Blank} ELSE {})

\* yaml-cpp reads back the node it wrote; null is written as "~".  An int is
\* read back from the text it was written as, a string is that text.
ElementAssumption ==
    /\ DOMAIN Load = Texts /\ \A n \in DOMAIN Emit : Emit[n] \in Texts /\ Load[Emit[n]] = n
    /\ Blank \in Texts /\ Load[Blank] \in DOMAIN Emit /\ Emit[Load[Blank]] = Tilde
    /\ \A t \in Texts : ElemFrom["string"][t] = t /\ ElemTo["string"][t] = t /\ t # Throw
    /\ \A e \in Elems("int") : ElemFrom["int"][Emit[Load[ElemTo["int"][e]]]] = e

\* Definitions of loggers, and the maps of a file.
AppenderDefs == [type: {File, Stdout}, file: Strings, level: 0..FATAL, formatter: Strings]
Defines == [name: Strings, level: 0..FATAL, formatter: Strings, appenders: Seq(AppenderDefs)]
Keys == Strings \cup {Undef}
AppenderMaps == [type: Keys, file: Keys, level: Keys, formatter: Keys]
LogMaps == [name: Keys, level: Keys, formatter: Keys, appenders: Seq(AppenderMaps)]

\* Values and documents of a type.  A set<LogDefine> has one of each name.
IsValue(ty, v) ==
    LET E == Elems(ty[2]) IN
    /\ ty[1] \in Lists => v \in Seq(E)
    /\ ty[1] \in Sets => IsFiniteSet(v)
    /\ ty[1] \in Sets /\ ty # Logs => v \subseteq E
    /\ ty = Logs => v \subseteq Defines /\ \A d, e \in v : d.name = e.name => d = e
    /\ ty[1] \in Maps => IsFiniteSet(DOMAIN v) /\ v \in [DOMAIN v -> E]
IsDocument(ty, d) ==
    /\ ty # Logs => Nodes(d) \in Seq(DOMAIN Emit)
    /\ ty = Logs => Nodes(d) \in Seq(LogMaps)
    /\ ty[1] \in Maps => Pairs(d) \in Seq(STRING \X DOMAIN Emit)

ASSUME LexicalCastAssumption ==
    /\ ElementAssumption
    /\ Types \subseteq ((Lists \cup Sets \cup Maps) \X Scalars) \cup {Logs}
    /\ \A ty \in Types : /\ \A v \in Defaults[ty] : IsValue(ty, v)
                         /\ \A d \in Documents[ty] : IsDocument(ty, d)
    /\ Undef \notin Strings \cup {LogLevel_ToString(x) : x \in 0..FATAL}
    /\ Throw \notin Defines

----------------------------------------------------------------------------
\* A variable with a value of the program's, or with a file to read.
CastInit ==
    /\ type \in Types
    /\ again = NoValue
    /\ \/ value \in Defaults[type] /\ text = NoValue
       \/ value = NoValue /\ text \in Documents[type]

\* fromString() of the file, toString(), and fromString() of that.
Read == /\ value = NoValue /\ text # NoValue
        /\ value' = FromStr(type, text)
        /\ text' = NoValue
        /\ UNCHANGED <<type, again>>
Write == /\ value \notin {NoValue, Throw} /\ text = NoValue
         /\ text' \in ToStr(type, value)
         /\ UNCHANGED <<type, value, again>>
ReadBack == /\ value # NoValue /\ text # NoValue /\ again = NoValue
            /\ again' = FromStr(type, text)
            /\ UNCHANGED <<type, value, text>>
CastNext == Read \/ Write \/ ReadBack
CastSpec == CastInit /\ [][CastNext]_castVars

----------------------------------------------------------------------------
(* Properties.                                                             *)

KeptValue(ty, v) ==
    CASE ty[1] \in {"set", "unordered_set"} -> {Kept(ty[2], e) : e \in v}
      [] OTHER -> [k \in DOMAIN v |-> Kept(ty[2], v[k])]

\* Every value, from a file or from the program, is what its text is read
\* back as, but for what a file cannot hold: for every container, in
\* whatever order a set or a map is written.
RoundTrip == again # NoValue => again = KeptValue(type, value)
=============================================================================
