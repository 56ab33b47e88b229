---------------------------- MODULE LogFormatter ----------------------------
(***************************************************************************)
(* LogFormatter of src/awcotn/log.cc: init(), which parses a pattern into  *)
(* items, and format(), which lets the items write an event.  A pattern is *)
(* a sequence of characters; an iteration of the loop of init() is a step. *)
(***************************************************************************)
EXTENDS Integers, Sequences, SequencesExt

CONSTANTS Patterns,     \* what LogFormatter() is called with
          Letters,      \* isalpha()
          EventFields,  \* what an event says, by the class of an item
          Pieces,       \* pieces of patterns: text, what it should write, and
          MaxPieces     \* whether it is a known one; how many are put together

\* s_format_items
FormatItems ==
    [m |-> "MessageFormatItem", p |-> "LevelFormatItem", r |-> "ElapseFormatItem",
     c |-> "NameFormatItem", t |-> "ThreadFormatItem", n |-> "NewLineFormatItem",
     d |-> "DateTimeFormatItem", f |-> "FilenameFormatItem", l |-> "LineFormatItem",
     T |-> "TabFormatItem", F |-> "FiberFormatItem", N |-> "ThreadNameFormatItem"]

\* What items start with, what stands around their formats, what errors are
\* written as.
Mark == "%"
Open == "{"
Close == "}"
PatternError == "<<pattern_error>>"
FormatError == "<<error_format %"
ErrorEnd == ">>"

VARIABLES m_pattern,
          i,        \* the next character, from 1
          nstr,     \* text that is not in vec yet
          vec,      \* the parts: text, or the name and the format of an item
          m_items,  \* what they became, and whether init() has returned
          m_error

formatVars == <<m_pattern, i, nstr, vec, m_items, m_error>>

Pending == [made |-> FALSE, seq |-> <<>>]

FormatInit ==
    /\ m_pattern \in Patterns
    /\ i = 1 /\ nstr = <<>> /\ vec = <<>> /\ m_items = Pending /\ m_error = FALSE

----------------------------------------------------------------------------
Size == Len(m_pattern)
Is(n, c) == n <= Size /\ m_pattern[n] = c
Text(str) == [str |-> str, fmt |-> <<>>, type |-> 0]
Item(str, fmt) == [str |-> str, fmt |-> fmt, type |-> 1]
Error == Text(<<PatternError>>)

\* The first position from n on where one of S is, or the one past the end.
Scan(n, S) == CHOOSE k \in n..(Size + 1) :
                 /\ k > Size \/ m_pattern[k] \in S
                 /\ \A j \in n..(k - 1) : m_pattern[j] \notin S

\* A name is letters, and also '}'.
NameChars == Letters \cup {Close}
NameEnd_ToBrace ==                                              \* mutant
    CHOOSE k \in (i + 1)..(Size + 1) :
       /\ k > Size \/ m_pattern[k] = Open
       /\ \A j \in (i + 1)..(k - 1) : m_pattern[j] # Open
NameEnd == CHOOSE k \in (i + 1)..(Size + 1) :
              /\ k > Size \/ m_pattern[k] \notin NameChars
              /\ \A j \in (i + 1)..(k - 1) : m_pattern[j] \in NameChars
Name == SubSeq(m_pattern, i + 1, NameEnd - 1)
FmtEnd == Scan(NameEnd + 1, {Close})

Flushed_Dropped == vec                                          \* mutant
Flushed == IF nstr = <<>> THEN vec ELSE Append(vec, Text(nstr))

Literal ==
    /\ i <= Size /\ ~Is(i, Mark)
    /\ nstr' = Append(nstr, m_pattern[i]) /\ i' = i + 1
    /\ UNCHANGED <<m_pattern, vec, m_items, m_error>>

\* "%%": a '%' goes to the text, and the second one is looked at again.
Percent ==
    /\ Is(i, Mark) /\ Is(i + 1, Mark)
    /\ nstr' = Append(nstr, Mark) /\ i' = i + 1
    /\ UNCHANGED <<m_pattern, vec, m_items, m_error>>

AtItem == Is(i, Mark) /\ ~Is(i + 1, Mark)
Braced == Is(NameEnd, Open)

PushItem(fmt, next) ==
    /\ vec' = Append(Flushed, Item(Name, fmt))
    /\ nstr' = <<>> /\ i' = next
    /\ UNCHANGED <<m_pattern, m_items, m_error>>

PlainItem == AtItem /\ ~Braced /\ PushItem(<<>>, NameEnd)

ItemWithFormat ==
    /\ AtItem /\ Braced /\ FmtEnd <= Size
    /\ PushItem(SubSeq(m_pattern, NameEnd + 1, FmtEnd - 1), FmtEnd + 1)

\* No '}': an error, and the text after the '%' is taken as it is.
Unclosed ==
    /\ AtItem /\ Braced /\ FmtEnd > Size
    /\ vec' = Append(vec, Error) /\ m_error' = TRUE /\ i' = i + 1
    /\ UNCHANGED <<m_pattern, nstr, m_items>>

\* The loop over vec.  An item of a name that s_format_items does not have
\* becomes text and an error.
KnownName(str) == Len(str) = 1 /\ str[1] \in DOMAIN FormatItems

Construct(v) ==
    IF v.type = 0 THEN [class |-> "StringFormatItem", arg |-> v.str]
    ELSE IF KnownName(v.str) THEN [class |-> FormatItems[v.str[1]], arg |-> v.fmt]
    ELSE [class |-> "StringFormatItem", arg |-> <<FormatError>> \o v.str \o <<ErrorEnd>>]

Finish ==
    /\ i > Size /\ ~m_items.made
    /\ m_items' = [made |-> TRUE, seq |-> [k \in DOMAIN Flushed |-> Construct(Flushed[k])]]
    /\ vec' = Flushed /\ nstr' = <<>>
    /\ m_error' = (m_error \/ \E v \in ToSet(Flushed) : v.type = 1 /\ ~KnownName(v.str))
    /\ UNCHANGED <<m_pattern, i>>

FormatNext == Literal \/ Percent \/ PlainItem \/ ItemWithFormat \/ Unclosed \/ Finish
FormatSpec == FormatInit /\ [][FormatNext]_formatVars

----------------------------------------------------------------------------
(* format(): each item writes its own part of the event.  A DateTime item  *)
(* without a format uses the default one.                                  *)

NewLine == "\n"
Tab == "\t"
DefaultTime == "%Y-%m-%d %H:%M:%S"

Written(item) ==
    CASE item.class = "StringFormatItem" -> item.arg
      [] item.class = "DateTimeFormatItem" ->
           <<EventFields[item.class]>> \o (IF item.arg = <<>> THEN <<DefaultTime>> ELSE item.arg)
      [] item.class = "NewLineFormatItem" -> <<NewLine>>
      [] item.class = "TabFormatItem" -> <<Tab>>
      [] OTHER -> <<EventFields[item.class]>>

Format == FlattenSeq([k \in DOMAIN m_items.seq |-> Written(m_items.seq[k])])

----------------------------------------------------------------------------
(* Properties.                                                             *)

\* What a part of a pattern looked like in the pattern.
Spelled(v) ==
    IF v.type = 0 THEN v.str
    ELSE <<Mark>> \o v.str \o (IF v.fmt = <<>> THEN <<>> ELSE <<Open>> \o v.fmt \o <<Close>>)

EmptyBraces == \E k \in 1..(Size - 1) : Is(k, Open) /\ Is(k + 1, Close)

\* Until an error is found nothing of the pattern is lost, doubled or moved:
\* the parts and the pending text spell what has been read so far.
NothingDropped ==
    ~m_error /\ ~EmptyBraces =>
       FlattenSeq([k \in DOMAIN vec |-> Spelled(vec[k])]) \o nstr = SubSeq(m_pattern, 1, i - 1)

----------------------------------------------------------------------------
(* Patterns by pieces.                                                     *)

\* A text that no item before it takes for its name or its format, and an
\* item with the name that ends at n, with or without a format.
IsText(p) ==
    /\ p.text # <<>> /\ Mark \notin ToSet(p.text) /\ p.text[1] \notin NameChars \cup {Open}
    /\ p.writes = p.text /\ p.known
IsItem(p, n) ==
    LET size == Len(p.text)
        name == SubSeq(p.text, 2, n)
        fmt == SubSeq(p.text, n + 2, size - 1) IN
    /\ p.text[1] = Mark /\ \A k \in 2..n : p.text[k] \in NameChars
    /\ n < size => /\ n + 2 <= size /\ p.text[n + 1] = Open /\ p.text[size] = Close
                   /\ \A k \in (n + 2)..(size - 1) : p.text[k] # Close
    /\ p.writes = Written(Construct(Item(name, fmt))) /\ p.known = KnownName(name)

ASSUME FormatAssumption ==
    /\ Patterns \subseteq Seq(STRING)
    /\ Letters \subseteq STRING /\ Letters \cap {Mark, Open} = {}
    /\ EventFields \in [{FormatItems[n] : n \in DOMAIN FormatItems} -> STRING]
    /\ MaxPieces \in Nat
    /\ Pieces \subseteq [text: Seq(STRING), writes: Seq(STRING), known: BOOLEAN]
    /\ \A p \in Pieces : IsText(p) \/ \E n \in 2..Len(p.text) : IsItem(p, n)

PieceSeqs == UNION {[1..k -> Pieces] : k \in 0..MaxPieces}

\* A pattern put together from texts, items and items with a format writes
\* what the pieces stand for, one after the other, and init() reports an
\* error exactly when one of the pieces is unknown.
RendersAsWritten ==
    m_items.made =>
       \A ps \in PieceSeqs : m_pattern = FlattenSeq([k \in DOMAIN ps |-> ps[k].text]) =>
          /\ m_error = (\E k \in DOMAIN ps : ~ps[k].known)
          /\ Format = FlattenSeq([k \in DOMAIN ps |-> ps[k].writes])
=============================================================================
