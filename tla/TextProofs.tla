----------------------------- MODULE TextProofs -----------------------------
(***************************************************************************)
(* Proofs about LogFormatter and LexicalCast, for every pattern, every     *)
(* alphabet and every container.                                           *)
(***************************************************************************)
EXTENDS LogFormatter, LexicalCast,
        SequenceTheorems, FiniteSetTheorems, WellFoundedInduction, TLAPS

(***************************************************************************)
(* FlattenSeq, by induction over the length: the library's order on Nat    *)
(* gives the least element of a set of numbers, and so what holds for all. *)
(***************************************************************************)

\* A set of numbers that is not empty has a least one.  (Induction, in a form
\* that takes a set and no operator.)
LEMMA LeastNumber ==
  ASSUME NEW S \in SUBSET Nat, S # {}
  PROVE  \E m \in S : \A k \in S : m <= k
<1>1. PICK x \in S : \A y \in S : ~(<<y, x>> \in OpToRel(<, Nat))
  BY NatLessThanWellFounded, WFMin
<1>2. \A y \in S : ~(y < x)
  BY <1>1 DEF OpToRel
<1>3. S \subseteq Nat
  OBVIOUS
<1> HIDE <1>1
<1> QED
  BY <1>2, <1>3

\* What holds of 0, and of n + 1 when it does of n, holds of every number.
LEMMA EveryNumber ==
  ASSUME NEW S, 0 \in S, \A n \in Nat : n \in S => n + 1 \in S
  PROVE  Nat \subseteq S
<1> SUFFICES ASSUME NEW n \in Nat, n \notin S PROVE FALSE
  OBVIOUS
<1> DEFINE T == {k \in Nat : k \notin S}
<1>1. PICK m \in T : \A k \in T : m <= k
  <2>1. T \in SUBSET Nat /\ T # {}
    OBVIOUS
  <2> HIDE DEF T
  <2> QED
    BY <2>1, LeastNumber
<1>2. m # 0 /\ m - 1 \in Nat /\ m - 1 \in S
  BY <1>1
<1> QED
  BY <1>1, <1>2

\* The function whose last value FlattenSeq(s) is, and its value at j.
Joined(f, s, j) == IF j = 1 THEN s[j] ELSE f[j - 1] \o s[j]

Flattens(f, s, n) == f = [j \in 1..n |-> Joined(f, s, j)]

\* Its values, one by one ...
LEMMA FlattensValues ==
  ASSUME NEW f, NEW s, NEW n \in Nat, Flattens(f, s, n)
  PROVE  /\ f = [j \in 1..n |-> f[j]]
         /\ \A j \in 1..n : f[j] = Joined(f, s, j)
<1>1. \A j \in 1..n : f[j] = Joined(f, s, j)
  BY Zenon DEF Flattens
<1>2. [j \in 1..n |-> f[j]] = [j \in 1..n |-> Joined(f, s, j)]
  BY <1>1, Zenon
<1> QED
  BY <1>1, <1>2, Zenon DEF Flattens

\* ... make it.
LEMMA ValuesFlatten ==
  ASSUME NEW f, NEW s, NEW n \in Nat, f = [j \in 1..n |-> f[j]],
         \A j \in 1..n : f[j] = Joined(f, s, j)
  PROVE  Flattens(f, s, n)
<1>1. [j \in 1..n |-> f[j]] = [j \in 1..n |-> Joined(f, s, j)]
  BY Zenon
<1> QED
  BY <1>1, Zenon DEF Flattens

\* A value depends on the one before it only.
LEMMA JoinedSame ==
  ASSUME NEW f, NEW g, NEW s, NEW t, NEW j \in Nat, s[j] = t[j],
         j # 1 => f[j - 1] = g[j - 1]
  PROVE  Joined(f, s, j) = Joined(g, t, j)
<1>1. CASE j = 1
  BY <1>1, Zenon DEF Joined
<1>2. CASE j # 1
  BY <1>2, Zenon DEF Joined
<1> QED
  BY <1>1, <1>2

\* The first text.
LEMMA JoinedFirst ==
  ASSUME NEW f, NEW s
  PROVE  Joined(f, s, 1) = s[1]
BY Zenon DEF Joined

\* What is joined up to one more text.
LEMMA JoinedNext ==
  ASSUME NEW f, NEW s, NEW n \in Nat \ {0}
  PROVE  Joined(f, s, n + 1) = f[n] \o s[n + 1]
<1>1. n + 1 # 1 /\ (n + 1) - 1 = n
  OBVIOUS
<1> QED
  BY <1>1, Zenon DEF Joined

\* There is one ...
LEMMA FlatteningExists ==
  ASSUME NEW C, NEW s \in Seq(Seq(C))
  PROVE  \A n \in 0..Len(s) : \E f \in [1..n -> Seq(C)] : Flattens(f, s, n)
<1> DEFINE S == {n \in Nat : n <= Len(s) => \E f \in [1..n -> Seq(C)] : Flattens(f, s, n)}
<1>1. 0 \in S
  <2>1. \E f \in [1..0 -> Seq(C)] : Flattens(f, s, 0)
    <3>1. [j \in 1..0 |-> <<>>] \in [1..0 -> Seq(C)]
      OBVIOUS
    <3>2. Flattens([j \in 1..0 |-> <<>>], s, 0)
      BY DEF Flattens
    <3> QED
      BY <3>1, <3>2
  <2> QED
    BY <2>1
<1>2. ASSUME NEW n \in Nat, n \in S, n + 1 <= Len(s)
      PROVE  \E f \in [1..(n + 1) -> Seq(C)] : Flattens(f, s, n + 1)
  <2>1. PICK f \in [1..n -> Seq(C)] : Flattens(f, s, n)
    BY <1>2
  <2>2. s[n + 1] \in Seq(C)
    BY <1>2, LenProperties, ElementOfSeq
  <2> DEFINE last == Joined(f, s, n + 1)
             g == [j \in 1..(n + 1) |-> IF j = n + 1 THEN last ELSE f[j]]
  <2>3. last \in Seq(C)
    <3>1. CASE n = 0
      BY <2>2, <3>1, JoinedFirst
    <3>2. CASE n # 0
      <4>1. last = f[n] \o s[n + 1]
        BY <3>2, JoinedNext
      <4>2. f[n] \in Seq(C)
        BY <2>1, <3>2
      <4> QED
        BY <2>2, <4>1, <4>2, ConcatProperties
    <3> QED
      BY <3>1, <3>2
  <2> HIDE DEF last
  <2>4. g \in [1..(n + 1) -> Seq(C)]
    BY <2>1, <2>3
  <2>5. /\ \A j \in 1..n : g[j] = f[j]
        /\ g[n + 1] = last
        /\ g = [j \in 1..(n + 1) |-> g[j]]
    BY <1>2
  <2> HIDE DEF g
  <2>6. \A j \in 1..n : f[j] = Joined(f, s, j)
    BY <2>1, <1>2, FlattensValues
  <2>7. ASSUME NEW j \in 1..(n + 1)
        PROVE  g[j] = Joined(g, s, j)
    <3>1. j \in Nat /\ (j # 1 => f[j - 1] = g[j - 1])
      <4>1. j \in Nat /\ (j # 1 => j - 1 \in 1..n)
        BY <1>2
      <4>2. \A k \in 1..n : f[k] = g[k]
        BY <2>5
      <4> QED
        BY <4>1, <4>2, Zenon
    <3>2. Joined(f, s, j) = Joined(g, s, j)
      BY <3>1, JoinedSame
    <3>3. CASE j = n + 1
      BY <3>2, <3>3, <2>5 DEF last
    <3>4. CASE j # n + 1
      <4>1. j \in 1..n
        BY <1>2, <3>4
      <4>2. g[j] = f[j] /\ f[j] = Joined(f, s, j)
        BY <2>5, <2>6, <4>1
      <4> QED
        BY <3>2, <4>2
    <3> QED
      BY <3>3, <3>4
  <2>8. Flattens(g, s, n + 1)
    <3>1. n + 1 \in Nat
      OBVIOUS
    <3> QED
      BY <2>5, <2>7, <3>1, ValuesFlatten, Zenon
  <2> QED
    BY <2>4, <2>8
<1>3. \A n \in Nat : n \in S => n + 1 \in S
  BY <1>2
<1>4. Nat \subseteq S
  <2> HIDE DEF S
  <2> QED
    BY <1>1, <1>3, EveryNumber
<1> QED
  BY <1>4, LenProperties

\* ... and no other, for the same values.
LEMMA FlatteningSame ==
  ASSUME NEW s, NEW t, NEW n \in Nat, NEW f, NEW g,
         Flattens(f, s, n), Flattens(g, t, n), \A j \in 1..n : s[j] = t[j]
  PROVE  f = g
<1> DEFINE S == {j \in Nat : j \in 1..n => f[j] = g[j]}
<1>0. \A j \in 1..n : f[j] = Joined(f, s, j) /\ g[j] = Joined(g, t, j)
  BY FlattensValues
<1>1. 0 \in S
  OBVIOUS
<1>2. ASSUME NEW j \in Nat, j \in S, j + 1 \in 1..n
      PROVE  f[j + 1] = g[j + 1]
  <2>1. j + 1 \in Nat /\ (j + 1 # 1 => f[(j + 1) - 1] = g[(j + 1) - 1])
    BY <1>2
  <2>2. Joined(f, s, j + 1) = Joined(g, t, j + 1)
    BY <1>2, <2>1, JoinedSame
  <2> QED
    BY <1>0, <1>2, <2>2
<1>3. Nat \subseteq S
  <2>1. \A j \in Nat : j \in S => j + 1 \in S
    BY <1>2
  <2> HIDE DEF S
  <2> QED
    BY <1>1, <2>1, EveryNumber
<1>4. \A j \in 1..n : f[j] = g[j]
  BY <1>3
<1>5. f = [j \in 1..n |-> f[j]] /\ g = [j \in 1..n |-> g[j]]
  BY FlattensValues
<1>6. [j \in 1..n |-> f[j]] = [j \in 1..n |-> g[j]]
  BY <1>4
<1> QED
  BY <1>5, <1>6

\* FlattenSeq is its last value.
LEMMA FlattenLast ==
  ASSUME NEW s, Len(s) \in Nat \ {0}, NEW f, Flattens(f, s, Len(s))
  PROVE  FlattenSeq(s) = f[Len(s)]
<1> DEFINE flatten == CHOOSE g : Flattens(g, s, Len(s))
<1>1. FlattenSeq(s) = flatten[Len(s)]
  BY DEF FlattenSeq, Flattens, Joined
<1>2. Flattens(flatten, s, Len(s))
  OBVIOUS
<1>3. flatten = f
  <2> HIDE DEF flatten
  <2> QED
    BY <1>2, FlatteningSame
<1> QED
  BY <1>1, <1>3

\* What FlattenSeq is made of.
LEMMA FlattenEmpty == FlattenSeq(<<>>) = <<>>
BY DEF FlattenSeq

\* One more text at the end of those that are put together.
LEMMA FlattenAppend ==
  ASSUME NEW C, NEW s \in Seq(Seq(C)), NEW x \in Seq(C)
  PROVE  /\ FlattenSeq(s) \in Seq(C)
         /\ FlattenSeq(Append(s, x)) = FlattenSeq(s) \o x
<1> DEFINE n == Len(s)
           t == Append(s, x)
<1>1. /\ n \in Nat /\ t \in Seq(Seq(C)) /\ Len(t) = n + 1 /\ t[n + 1] = x
      /\ \A j \in 1..n : t[j] = s[j]
  BY AppendProperties, LenProperties
<1>2. PICK f \in [1..n -> Seq(C)] : Flattens(f, s, n)
  <2>1. \A m \in 0..Len(s) : \E f \in [1..m -> Seq(C)] : Flattens(f, s, m)
    BY FlatteningExists
  <2>2. Len(s) \in 0..Len(s)
    BY <1>1
  <2> QED
    BY <2>1, <2>2, Zenon
<1>3. PICK g \in [1..(n + 1) -> Seq(C)] : Flattens(g, t, n + 1)
  <2> HIDE DEF n, t
  <2> QED
    BY <1>1, FlatteningExists
<1> HIDE DEF t, n
<1>4. \A j \in 1..(n + 1) : g[j] = Joined(g, t, j)
  BY <1>1, <1>3, FlattensValues
<1>5. \A j \in 1..n : f[j] = g[j]
  <2> DEFINE h == [j \in 1..n |-> g[j]]
  <2>1. \A j \in 1..n : h[j] = g[j]
    OBVIOUS
  <2>2. h = [j \in 1..n |-> h[j]]
    OBVIOUS
  <2> HIDE DEF h
  <2>3. ASSUME NEW j \in 1..n
        PROVE  h[j] = Joined(h, t, j)
    <3>1. j # 1 => h[j - 1] = g[j - 1]
      <4>1. j # 1 => j - 1 \in 1..n
        BY <1>1
      <4> QED
        BY <2>1, <4>1
    <3>2. Joined(h, t, j) = Joined(g, t, j)
      <4>1. CASE j = 1
        BY <4>1, Zenon DEF Joined
      <4>2. CASE j # 1
        BY <3>1, <4>2, Zenon DEF Joined
      <4> QED
        BY <4>1, <4>2
    <3> QED
      BY <1>1, <1>4, <2>1, <3>2
  <2>4. Flattens(h, t, n)
    BY <1>1, <2>2, <2>3, ValuesFlatten
  <2>5. f = h
    BY <1>1, <1>2, <2>4, FlatteningSame
  <2> QED
    BY <2>1, <2>5
<1>6. FlattenSeq(t) = g[n + 1]
  BY <1>1, <1>3, FlattenLast
<1>7. CASE n = 0
  <2>1. s = <<>> /\ FlattenSeq(s) = <<>>
    BY <1>7, EmptySeq, FlattenEmpty DEF n
  <2>2. g[1] = x
    BY <1>1, <1>4, <1>7, JoinedFirst
  <2>3. <<>> \o x = x /\ <<>> \in Seq(C)
    BY ConcatEmptySeq, EmptySeq
  <2>4. FlattenSeq(t) = x
    BY <1>6, <1>7, <2>2
  <2> QED
    BY <2>1, <2>3, <2>4 DEF t
<1>8. CASE n # 0
  <2>1. FlattenSeq(s) = f[n]
    BY <1>1, <1>2, <1>8, FlattenLast DEF n
  <2>2. g[n + 1] = g[n] \o t[n + 1]
    <3>1. n + 1 \in 1..(n + 1) /\ n \in Nat \ {0}
      BY <1>1, <1>8
    <3>2. Joined(g, t, n + 1) = g[n] \o t[n + 1]
      BY <3>1, JoinedNext
    <3> QED
      BY <1>4, <3>1, <3>2, Zenon
  <2>3. f[n] = g[n] /\ f[n] \in Seq(C)
    BY <1>1, <1>2, <1>5, <1>8
  <2>4. FlattenSeq(t) = FlattenSeq(s) \o x
    BY <1>1, <1>6, <2>1, <2>2, <2>3, Zenon
  <2> QED
    BY <2>1, <2>3, <2>4 DEF t
<1> QED
  BY <1>7, <1>8

----------------------------------------------------------------------------
\* What F makes of the elements of s, put together.
Mapped(F, s) == FlattenSeq([k \in DOMAIN s |-> F[s[k]]])

\* Of no elements it makes nothing.
LEMMA MappedEmpty == \A F : Mapped(F, <<>>) = <<>>
<1>1. \A F : [k \in DOMAIN <<>> |-> F[<<>>[k]]] = <<>>
  OBVIOUS
<1> QED
  BY <1>1, FlattenEmpty DEF Mapped

\* Concatenation, by a name of its own: the provers look into \o.
Cat(s, t) == s \o t

\* Concatenation stays within an alphabet; nothing adds nothing.
LEMMA CatProperties ==
  ASSUME NEW C, NEW s \in Seq(C), NEW t \in Seq(C)
  PROVE  /\ Cat(s, t) \in Seq(C)
         /\ Cat(s, <<>>) = s /\ Cat(<<>>, s) = s
BY ConcatProperties, ConcatEmptySeq DEF Cat

\* It does not matter what is put together first.
LEMMA CatAssociative ==
  ASSUME NEW C, NEW s \in Seq(C), NEW t \in Seq(C), NEW u \in Seq(C)
  PROVE  Cat(Cat(s, t), u) = Cat(s, Cat(t, u))
BY ConcatAssociative DEF Cat

\* An element at the end ...
LEMMA MappedAppend ==
  ASSUME NEW C, NEW D, NEW F \in [D -> Seq(C)], NEW v \in Seq(D), NEW x \in D
  PROVE  /\ Mapped(F, v) \in Seq(C)
         /\ Mapped(F, Append(v, x)) = Cat(Mapped(F, v), F[x])
<1> DEFINE s == [k \in DOMAIN v |-> F[v[k]]]
           w == Append(v, x)
           t == [k \in DOMAIN w |-> F[w[k]]]
<1>1. s \in Seq(Seq(C))
  <2>1. DOMAIN v = 1..Len(v) /\ Len(v) \in Nat
    BY LenProperties
  <2>2. \A k \in 1..Len(v) : F[v[k]] \in Seq(C)
    BY ElementOfSeq
  <2> QED
    BY <2>1, <2>2
<1>2. F[x] \in Seq(C)
  OBVIOUS
<1>3. t = Append(s, F[x])
  <2>1. /\ w \in Seq(D) /\ Len(w) = Len(v) + 1 /\ w[Len(v) + 1] = x
        /\ \A k \in 1..Len(v) : w[k] = v[k]
    BY AppendProperties
  <2> HIDE DEF w
  <2>2. /\ DOMAIN w = 1..(Len(v) + 1) /\ DOMAIN v = 1..Len(v) /\ Len(v) \in Nat
    BY <2>1, LenProperties
  <2>3. Len(s) = Len(v)
    BY <2>2
  <2>4. t \in Seq(Seq(C)) /\ Len(t) = Len(v) + 1
    BY <2>1, <2>2, ElementOfSeq
  <2>5. /\ Append(s, F[x]) \in Seq(Seq(C))
        /\ Len(Append(s, F[x])) = Len(v) + 1
        /\ \A k \in 1..Len(v) : Append(s, F[x])[k] = s[k]
        /\ Append(s, F[x])[Len(v) + 1] = F[x]
    BY <1>1, <1>2, <2>3, AppendProperties
  <2>6. \A k \in 1..Len(v) : t[k] = s[k]
    BY <2>1, <2>2
  <2>7. t[Len(v) + 1] = F[x]
    BY <2>1, <2>2
  <2> HIDE DEF s, t
  <2>8. \A k \in 1..Len(t) : t[k] = Append(s, F[x])[k]
    BY <2>2, <2>4, <2>5, <2>6, <2>7
  <2> QED
    BY <2>4, <2>5, <2>8, SeqEqual
<1> QED
  <2> HIDE DEF s, t
  <2>1. FlattenSeq(s) \in Seq(C) /\ FlattenSeq(t) = FlattenSeq(s) \o F[x]
    BY <1>1, <1>2, <1>3, FlattenAppend
  <2> QED
    BY <2>1 DEF s, t, Mapped, Cat

\* The same for every sequence, as the induction needs it.
LEMMA MappedSteps ==
  ASSUME NEW C, NEW D, NEW F \in [D -> Seq(C)]
  PROVE  \A w \in Seq(D), e \in D : /\ Mapped(F, w) \in Seq(C)
                                  /\ Mapped(F, Append(w, e)) = Cat(Mapped(F, w), F[e])
BY MappedAppend

\* ... and at the start, by induction over the length of s.
LEMMA MappedFirst ==
  ASSUME NEW C, NEW D, NEW F \in [D -> Seq(C)]
  PROVE  \A s \in Seq(D) : s # <<>> => Mapped(F, s) = Cat(F[Head(s)], Mapped(F, Tail(s)))
<1>0. \A w \in Seq(D), e \in D : /\ Mapped(F, w) \in Seq(C)
                                /\ Mapped(F, Append(w, e)) = Cat(Mapped(F, w), F[e])
  BY MappedSteps
<1> DEFINE Holds(u) == Mapped(F, u) = Cat(F[Head(u)], Mapped(F, Tail(u)))
           S == {n \in Nat : \A u \in Seq(D) : u # <<>> /\ Len(u) = n => Holds(u)}
<1>1. 0 \in S
  BY EmptySeq
<1>2. ASSUME NEW n \in Nat, n \in S, NEW u \in Seq(D), u # <<>>, Len(u) = n + 1
      PROVE  Holds(u)
  <2>1. PICK v \in Seq(D), e \in D : u = Append(v, e)
    BY <1>2, SequenceEmptyOrAppend
  <2>2. Len(v) = n
    BY <1>2, <2>1, AppendProperties, LenProperties
  <2>3. F[e] \in Seq(C) /\ Mapped(F, v) \in Seq(C) /\ Mapped(F, u) = Cat(Mapped(F, v), F[e])
    <3>1. Mapped(F, v) \in Seq(C) /\ Mapped(F, Append(v, e)) = Cat(Mapped(F, v), F[e])
      BY <1>0
    <3>2. F[e] \in Seq(C)
      OBVIOUS
    <3> QED
      BY <2>1, <3>1, <3>2, Zenon
  <2>4. CASE v = <<>>
    <3>1. Head(u) = e /\ Tail(u) = <<>>
      BY <2>1, <2>4, HeadTailAppend
    <3>2. Mapped(F, <<>>) = <<>>
      BY MappedEmpty
    <3>3. Cat(<<>>, F[e]) = F[e] /\ Cat(F[e], <<>>) = F[e]
      BY <2>3, CatProperties
    <3> QED
      BY <2>3, <2>4, <3>1, <3>2, <3>3
  <2>5. CASE v # <<>>
    <3>1. Head(u) = Head(v) /\ Tail(u) = Append(Tail(v), e)
      BY <2>1, <2>5, HeadTailAppend
    <3>2. Head(v) \in D /\ Tail(v) \in Seq(D)
      BY <2>5, HeadTailProperties
    <3>3. Mapped(F, v) = Cat(F[Head(v)], Mapped(F, Tail(v)))
      BY <1>2, <2>2, <2>5
    <3>4. /\ Mapped(F, Tail(v)) \in Seq(C)
          /\ Mapped(F, Tail(u)) = Cat(Mapped(F, Tail(v)), F[e])
      <4>1. /\ Mapped(F, Tail(v)) \in Seq(C)
            /\ Mapped(F, Append(Tail(v), e)) = Cat(Mapped(F, Tail(v)), F[e])
        BY <1>0, <3>2
      <4> QED
        BY <3>1, <4>1, Zenon
    <3>5. F[Head(v)] \in Seq(C)
      BY <3>2
    <3>6. Cat(Cat(F[Head(v)], Mapped(F, Tail(v))), F[e]) = Cat(F[Head(v)], Cat(Mapped(F, Tail(v)), F[e]))
      BY <2>3, <3>4, <3>5, CatAssociative
    <3> QED
      BY <2>3, <3>1, <3>3, <3>4, <3>6, Zenon
  <2> QED
    BY <2>4, <2>5
<1>3. Nat \subseteq S
  <2>1. ASSUME NEW n \in Nat, n \in S
        PROVE  n + 1 \in S
    <3>1. \A u \in Seq(D) : u # <<>> /\ Len(u) = n + 1 => Holds(u)
      BY <1>2, <2>1, Zenon
    <3> QED
      BY <3>1
  <2> HIDE DEF S
  <2> QED
    BY <1>1, <2>1, EveryNumber
<1> QED
  BY <1>3, LenProperties

(***************************************************************************)
(* LogFormatter: nothing of a pattern is lost.                             *)
(***************************************************************************)

Chars == STRING \cup {Mark, Open, Close, NewLine, Tab, DefaultTime,
                       PatternError, FormatError, ErrorEnd}
Str == Seq(Chars)
Parts == [str: Str, fmt: Str, type: {0, 1}]

\* What the parts of a pattern spell.
Spelling(v) == FlattenSeq([k \in DOMAIN v |-> Spelled(v[k])])

\* The types of the parser, without its items.
ParserTypes ==
    /\ m_pattern \in Str /\ Size \in Nat /\ i \in Nat /\ i \in 1..(Size + 1)
    /\ nstr \in Str /\ vec \in Seq(Parts) /\ m_error \in BOOLEAN

\* A sequence that starts with an element.
LEMMA StartsWith ==
  ASSUME NEW C, NEW x \in C
  PROVE  <<x>> \in Seq(C)
OBVIOUS

\* Texts put together.
LEMMA TextsAssociate ==
  \A s, t, u \in Str : /\ s \o t \in Str
                      /\ s \o <<>> = s /\ <<>> \o s = s
BY ConcatAssociative, ConcatProperties, ConcatEmptySeq DEF Str

\* Three texts, put together from either end.
LEMMA Reassociated ==
  ASSUME NEW s \in Str, NEW t \in Str, NEW u \in Str
  PROVE  (s \o t) \o u = s \o (t \o u)
BY ConcatAssociative DEF Str

\* A '%' on its own is a text.
LEMMA MarkIsText == <<Mark>> \in Str
BY StartsWith DEF Chars, Str

\* A part of a text is a text.
LEMMA SubText ==
  ASSUME NEW s \in Str, NEW a \in Nat \ {0}, NEW b \in Nat, b <= Len(s)
  PROVE  SubSeq(s, a, b) \in Str
<1>1. \A j \in a..b : s[j] \in Chars
  BY ElementOfSeq, LenProperties DEF Str
<1> QED
  BY <1>1, SubSeqProperties DEF Str

\* A part spells a text.
LEMMA SpelledType ==
  ASSUME NEW v \in Parts
  PROVE  Spelled(v) \in Str
<1>1. <<Mark>> \in Str /\ <<Open>> \in Str /\ <<Close>> \in Str /\ <<>> \in Str
  <2>1. \A c \in Chars : <<c>> \in Str
    BY StartsWith DEF Str
  <2>3. Mark \in Chars /\ Open \in Chars /\ Close \in Chars
    BY DEF Chars
  <2>2. <<>> \in Str
    BY EmptySeq DEF Str
  <2> QED
    BY <2>1, <2>2, <2>3
<1>2. v.str \in Str /\ v.fmt \in Str
  BY DEF Parts
<1>3. <<Mark>> \o v.str \in Str
  BY <1>1, <1>2, ConcatProperties DEF Str
<1>4. (<<Open>> \o v.fmt) \o <<Close>> \in Str
  BY <1>1, <1>2, ConcatProperties DEF Str
<1>5. (<<Mark>> \o v.str) \o (IF v.fmt = <<>> THEN <<>> ELSE (<<Open>> \o v.fmt) \o <<Close>>) \in Str
  <2>1. (IF v.fmt = <<>> THEN <<>> ELSE (<<Open>> \o v.fmt) \o <<Close>>) \in Str
    BY <1>1, <1>4, Zenon
  <2> QED
    BY <1>3, <2>1, ConcatProperties DEF Str
<1> QED
  BY <1>2, <1>5, Zenon DEF Spelled

\* What the parts spell, one by one.
LEMMA SpellingMapped ==
  ASSUME NEW v \in Seq(Parts)
  PROVE  Spelling(v) = Mapped([p \in Parts |-> Spelled(p)], v)
<1>1. \A k \in DOMAIN v : v[k] \in Parts
  BY ElementOfSeq, LenProperties
<1>2. [k \in DOMAIN v |-> Spelled(v[k])] = [k \in DOMAIN v |-> [p \in Parts |-> Spelled(p)][v[k]]]
  BY <1>1
<1> QED
  BY <1>2, Zenon DEF Spelling, Mapped

\* One more part spells its own text behind the others.
LEMMA SpellingAppend ==
  ASSUME NEW v \in Seq(Parts), NEW x \in Parts
  PROVE  /\ Spelling(v) \in Str
         /\ Spelling(Append(v, x)) = Spelling(v) \o Spelled(x)
<1> DEFINE F == [p \in Parts |-> Spelled(p)]
<1>0. F \in [Parts -> Seq(Chars)]
  BY SpelledType DEF Str
<1>1. F[x] = Spelled(x)
  OBVIOUS
<1>2. Append(v, x) \in Seq(Parts)
  BY AppendProperties
<1> HIDE DEF F
<1>3. Mapped(F, v) \in Seq(Chars) /\ Mapped(F, Append(v, x)) = Cat(Mapped(F, v), F[x])
  BY <1>0, MappedAppend
<1>4. Spelling(v) = Mapped(F, v) /\ Spelling(Append(v, x)) = Mapped(F, Append(v, x))
  BY <1>2, SpellingMapped DEF F
<1> QED
  BY <1>1, <1>3, <1>4 DEF Cat, Str

\* Parts spell a text.
LEMMA SpellingType ==
  ASSUME NEW v \in Seq(Parts)
  PROVE  Spelling(v) \in Str
<1>1. Text(<<>>) \in Parts
  BY EmptySeq DEF Parts, Text, Str
<1> QED
  BY <1>1, SpellingAppend

\* The text so far is one more part, if it is not empty.
LEMMA SpellingFlushed ==
  ASSUME ParserTypes
  PROVE  /\ Flushed \in Seq(Parts)
         /\ Spelling(Flushed) = Spelling(vec) \o nstr
<1>1. Text(nstr) \in Parts /\ Spelled(Text(nstr)) = nstr
  BY DEF ParserTypes, Parts, Text, Spelled, Str
<1>2. Spelling(vec) \in Str
  BY <1>1, SpellingAppend DEF ParserTypes
<1>3. CASE nstr = <<>>
  BY <1>2, <1>3, ConcatEmptySeq DEF Flushed, ParserTypes, Str
<1>4. CASE nstr # <<>>
  <2>1. Append(vec, Text(nstr)) \in Seq(Parts)
    BY <1>1, AppendProperties DEF ParserTypes
  <2>2. Spelling(Append(vec, Text(nstr))) = Spelling(vec) \o nstr
    BY <1>1, SpellingAppend DEF ParserTypes
  <2> QED
    BY <1>4, <2>1, <2>2 DEF Flushed
<1> QED
  BY <1>3, <1>4

----------------------------------------------------------------------------
\* A scan from n that ends where E says, or past the end of s, ends at the
\* first such place.
LEMMA FirstFrom ==
  ASSUME NEW N \in Nat, NEW E, NEW n \in 1..(N + 1)
  PROVE  \E k \in n..(N + 1) : (k > N \/ k \in E) /\ \A j \in n..(k - 1) : j \notin E
<1> DEFINE S == {k \in Nat : k \in n..(N + 1) /\ (k > N \/ k \in E)}
<1>1. S \in SUBSET Nat /\ N + 1 \in S
  OBVIOUS
<1>2. PICK m \in S : \A k \in S : m <= k
  <2> HIDE DEF S
  <2> QED
    BY <1>1, LeastNumber
<1>3. \A j \in n..(m - 1) : j \notin E
  BY <1>2
<1> QED
  BY <1>2, <1>3

\* Where the name of an item ends.
LEMMA NameEnds ==
  ASSUME ParserTypes, i <= Size
  PROVE  /\ NameEnd \in (i + 1)..(Size + 1)
         /\ NameEnd > Size \/ m_pattern[NameEnd] \notin NameChars
         /\ \A j \in (i + 1)..(NameEnd - 1) : m_pattern[j] \in NameChars
<1> DEFINE E == {k \in Nat : m_pattern[k] \notin NameChars}
<1>1. Size \in Nat /\ i + 1 \in 1..(Size + 1)
  BY DEF ParserTypes
<1>2. \E k \in (i + 1)..(Size + 1) : (k > Size \/ k \in E) /\ \A j \in (i + 1)..(k - 1) : j \notin E
  <2> HIDE DEF E
  <2> QED
    BY <1>1, FirstFrom
<1>3. \E k \in (i + 1)..(Size + 1) : /\ k > Size \/ m_pattern[k] \notin NameChars
                                   /\ \A j \in (i + 1)..(k - 1) : m_pattern[j] \in NameChars
  BY <1>1, <1>2
<1> QED
  BY <1>3, Zenon DEF NameEnd

\* Where its format does.
LEMMA FormatEnds ==
  ASSUME ParserTypes, i <= Size, Braced
  PROVE  /\ NameEnd \in (i + 1)..Size /\ m_pattern[NameEnd] = Open
         /\ FmtEnd \in (NameEnd + 1)..(Size + 1)
         /\ FmtEnd > Size \/ m_pattern[FmtEnd] = Close
         /\ \A j \in (NameEnd + 1)..(FmtEnd - 1) : m_pattern[j] # Close
<1>1. Size \in Nat /\ NameEnd \in (i + 1)..Size /\ m_pattern[NameEnd] = Open
  <2>1. Size \in Nat /\ i \in Nat
    BY Zenon DEF ParserTypes
  <2>2. NameEnd \in (i + 1)..(Size + 1)
    BY Zenon, NameEnds
  <2>3. NameEnd <= Size /\ m_pattern[NameEnd] = Open
    BY Zenon DEF Braced, Is
  <2> QED
    BY <2>1, <2>2, <2>3
<1> DEFINE n == NameEnd + 1
           E == {k \in Nat : m_pattern[k] \in {Close}}
<1>2. n \in 1..(Size + 1)
  <2>1. i \in Nat
    BY Zenon DEF ParserTypes
  <2> QED
    BY <1>1, <2>1
<1> HIDE DEF n
<1>3. \E k \in n..(Size + 1) : (k > Size \/ k \in E) /\ \A j \in n..(k - 1) : j \notin E
  <2> HIDE DEF E
  <2> QED
    BY <1>1, <1>2, FirstFrom
<1>4. \E k \in n..(Size + 1) : /\ k > Size \/ m_pattern[k] \in {Close}
                             /\ \A j \in n..(k - 1) : m_pattern[j] \notin {Close}
  <2>1. PICK k \in n..(Size + 1) : (k > Size \/ k \in E) /\ \A j \in n..(k - 1) : j \notin E
    BY <1>3
  <2>2. \A j \in n..(k - 1) : j \in Nat
    <3>1. n \in Nat /\ k \in Nat
      BY <1>1, <1>2
    <3> QED
      BY <3>1
  <2>3. k > Size \/ m_pattern[k] \in {Close}
    BY <2>1
  <2>4. \A j \in n..(k - 1) : m_pattern[j] \notin {Close}
    BY <2>1, <2>2
  <2> QED
    BY <2>1, <2>3, <2>4
<1>5. /\ Scan(n, {Close}) \in n..(Size + 1)
      /\ Scan(n, {Close}) > Size \/ m_pattern[Scan(n, {Close})] \in {Close}
      /\ \A j \in n..(Scan(n, {Close}) - 1) : m_pattern[j] \notin {Close}
  BY <1>4, Zenon DEF Scan
<1> QED
  BY <1>1, <1>5 DEF n, FmtEnd

----------------------------------------------------------------------------
\* What is inductive: with the types, until an error is found the parts and
\* the text spell what was read.
ReadSoFar == Spelling(vec) \o nstr = SubSeq(m_pattern, 1, i - 1)
SpellInv == ParserTypes /\ (~m_error /\ ~EmptyBraces => ReadSoFar)

\* Before init() reads a character, it has read none.
LEMMA SpellInvInit == FormatInit => SpellInv
<1> SUFFICES ASSUME FormatInit PROVE SpellInv
  OBVIOUS
<1>1. m_pattern \in Str
  <2>1. m_pattern \in Seq(STRING)
    BY FormatAssumption DEF FormatInit
  <2>2. STRING \subseteq Chars
    BY DEF Chars
  <2> QED
    BY <2>1, <2>2, SeqMonotonic DEF Str
<1>2. Size \in Nat
  BY <1>1, LenProperties DEF Size, Str
<1>3. i = 1 /\ nstr = <<>> /\ vec = <<>> /\ m_error = FALSE
  BY DEF FormatInit
<1>4. ParserTypes
  <2>1. <<>> \in Str /\ <<>> \in Seq(Parts)
    BY EmptySeq DEF Str
  <2>2. i \in Nat /\ i \in 1..(Size + 1)
    BY <1>2, <1>3
  <2> QED
    BY <1>1, <1>2, <1>3, <2>1, <2>2 DEF ParserTypes
<1>5. ReadSoFar
  <2>1. [k \in DOMAIN vec |-> Spelled(vec[k])] = <<>>
    BY <1>3
  <2>2. Spelling(vec) = <<>>
    BY <2>1, FlattenEmpty DEF Spelling
  <2>3. SubSeq(m_pattern, 1, i - 1) = <<>>
    BY <1>3, SubSeqEmpty
  <2>4. <<>> \o <<>> = <<>>
    BY EmptySeq, ConcatEmptySeq
  <2> QED
    BY <1>3, <2>2, <2>3, <2>4 DEF ReadSoFar
<1> QED
  BY <1>4, <1>5 DEF SpellInv

\* A character of the pattern goes to the text.
LEMMA CharacterRead ==
  ASSUME SpellInv, i <= Size, nstr' = Append(nstr, m_pattern[i]), i' = i + 1,
         UNCHANGED <<m_pattern, vec, m_error>>
  PROVE  SpellInv'
<1>1. ParserTypes
  BY DEF SpellInv
<1>2. /\ m_pattern \in Str /\ Size \in Nat /\ i \in 1..Size /\ nstr \in Str /\ vec \in Seq(Parts)
      /\ m_pattern' = m_pattern /\ vec' = vec /\ m_error' = m_error
      /\ Size' = Size /\ EmptyBraces' = EmptyBraces /\ i - 1 \in Nat
  BY <1>1 DEF ParserTypes, Size, EmptyBraces, Is
<1>3. m_pattern[i] \in Chars
  BY <1>2, ElementOfSeq DEF Str, Size
<1>4. /\ nstr' \in Str
      /\ nstr' = nstr \o <<m_pattern[i]>>
  BY <1>2, <1>3, AppendProperties, AppendIsConcat DEF Str
<1>5. ParserTypes'
  <2>1. i' \in Nat /\ i' \in 1..(Size + 1)
    BY <1>2
  <2> QED
    BY <1>1, <1>2, <1>4, <2>1 DEF ParserTypes
<1>6. ASSUME ReadSoFar
      PROVE  ReadSoFar'
  <2>1. SubSeq(m_pattern, 1, i) = SubSeq(m_pattern, 1, i - 1) \o <<m_pattern[i]>>
    <3>1. 1 \in 1..Len(m_pattern) /\ i \in 1..Len(m_pattern)
      BY <1>2 DEF Size
    <3> QED
      BY <1>2, <3>1, SubSeqRecursiveSecond DEF Str
  <2>2. (Spelling(vec) \o nstr) \o <<m_pattern[i]>> = Spelling(vec) \o (nstr \o <<m_pattern[i]>>)
    <3>1. Spelling(vec) \in Str
      BY <1>2, SpellingType
    <3>2. <<m_pattern[i]>> \in Str
      BY <1>3, StartsWith DEF Str
    <3> QED
      BY <1>2, <3>1, <3>2, Reassociated
  <2>3. i' - 1 = i
    BY <1>2
  <2> QED
    BY <1>2, <1>4, <1>6, <2>1, <2>2, <2>3, Zenon DEF ReadSoFar
<1> QED
  BY <1>2, <1>5, <1>6 DEF SpellInv

\* A part that ends before next is what the pattern says there.
LEMMA PartRead ==
  ASSUME SpellInv, NEW fmt \in Str, NEW next \in (i + 1)..(Size + 1), i <= Size,
         PushItem(fmt, next), Name \in Str,
         ~EmptyBraces => Spelled(Item(Name, fmt)) = SubSeq(m_pattern, i, next - 1)
  PROVE  SpellInv'
<1>1. ParserTypes
  BY DEF SpellInv
<1>2. /\ m_pattern \in Str /\ Size \in Nat /\ i \in 1..Size /\ nstr \in Str /\ vec \in Seq(Parts)
      /\ m_pattern' = m_pattern /\ m_error' = m_error /\ nstr' = <<>> /\ i' = next
      /\ Size' = Size /\ EmptyBraces' = EmptyBraces /\ i - 1 \in Nat
      /\ vec' = Append(Flushed, Item(Name, fmt)) /\ m_error \in BOOLEAN
  BY <1>1 DEF ParserTypes, PushItem, Size, EmptyBraces, Is
<1>3. Item(Name, fmt) \in Parts
  BY DEF Item, Parts
<1>4. /\ Flushed \in Seq(Parts) /\ Spelling(Flushed) = Spelling(vec) \o nstr
      /\ vec' \in Seq(Parts) /\ Spelling(vec') = Spelling(Flushed) \o Spelled(Item(Name, fmt))
      /\ Spelling(vec') \in Str
  <2>1. Flushed \in Seq(Parts) /\ Spelling(Flushed) = Spelling(vec) \o nstr
    BY <1>1, SpellingFlushed
  <2>2. vec' \in Seq(Parts)
    BY <1>2, <1>3, <2>1, AppendProperties
  <2>3. Spelling(Append(Flushed, Item(Name, fmt))) = Spelling(Flushed) \o Spelled(Item(Name, fmt))
    BY <1>3, <2>1, SpellingAppend
  <2> QED
    BY <1>2, <2>1, <2>2, <2>3, SpellingType
<1>5. ParserTypes'
  <2>1. i' \in Nat /\ i' \in 1..(Size + 1)
    BY <1>2
  <2>2. <<>> \in Str
    BY EmptySeq DEF Str
  <2> QED
    BY <1>2, <1>4, <2>1, <2>2 DEF ParserTypes
<1>6. ASSUME ReadSoFar, ~EmptyBraces
      PROVE  ReadSoFar'
  <2>1. SubSeq(m_pattern, 1, i - 1) \o SubSeq(m_pattern, i, next - 1) = SubSeq(m_pattern, 1, next - 1)
    <3>1. /\ 1 \in 1..(Len(m_pattern) + 1) /\ i - 1 \in 0..Len(m_pattern)
          /\ next - 1 \in (i - 1)..Len(m_pattern) /\ (i - 1) + 1 = i
      BY <1>2 DEF Size
    <3> QED
      BY <1>2, <3>1, ConcatAdjacentSubSeq DEF Str
  <2>2. Spelling(vec') \o <<>> = Spelling(vec')
    BY <1>4, ConcatEmptySeq DEF Str
  <2> QED
    BY <1>2, <1>4, <1>6, <2>1, <2>2, Zenon DEF ReadSoFar
<1> QED
  BY <1>2, <1>5, <1>6 DEF SpellInv

\* What the pattern says from an item on.
LEMMA ItemSpelled ==
  ASSUME ParserTypes, AtItem
  PROVE  /\ i <= Size /\ m_pattern[i] = Mark
         /\ NameEnd \in (i + 1)..(Size + 1) /\ Name \in Str
         /\ SubSeq(m_pattern, i, NameEnd - 1) = <<Mark>> \o Name
<1>1. i <= Size /\ m_pattern[i] = Mark
  BY DEF AtItem, Is
<1>2. /\ m_pattern \in Str /\ Size \in Nat /\ i \in 1..Size /\ Size = Len(m_pattern)
      /\ NameEnd \in (i + 1)..(Size + 1)
  BY <1>1, NameEnds DEF ParserTypes, Size
<1>3. Name \in Str
  <2>1. i + 1 \in Int /\ NameEnd - 1 \in Int /\ \A j \in (i + 1)..(NameEnd - 1) : j \in 1..Len(m_pattern)
    BY <1>2
  <2>2. \A j \in (i + 1)..(NameEnd - 1) : m_pattern[j] \in Chars
    BY <1>2, <2>1, ElementOfSeq DEF Str
  <2> QED
    BY <2>1, <2>2, SubSeqProperties DEF Name, Str
<1>4. SubSeq(m_pattern, i, NameEnd - 1) = <<m_pattern[i]>> \o SubSeq(m_pattern, i + 1, NameEnd - 1)
  <2>1. i \in 1..Len(m_pattern) /\ NameEnd - 1 \in i..Len(m_pattern)
    BY <1>2
  <2> QED
    BY <1>2, <2>1, SubSeqRecursiveFirst DEF Str
<1> QED
  BY <1>1, <1>2, <1>3, <1>4 DEF Name

\* An item without a format.
LEMMA PlainItemRead ==
  ASSUME SpellInv, PlainItem
  PROVE  SpellInv'
<1>1. ParserTypes /\ AtItem /\ PushItem(<<>>, NameEnd)
  BY DEF SpellInv, PlainItem
<1>2. /\ i <= Size /\ NameEnd \in (i + 1)..(Size + 1) /\ Name \in Str
      /\ SubSeq(m_pattern, i, NameEnd - 1) = <<Mark>> \o Name
  BY <1>1, ItemSpelled
<1>3. <<>> \in Str
  BY EmptySeq DEF Str
<1>4. Spelled(Item(Name, <<>>)) = <<Mark>> \o Name
  <2>1. Spelled(Item(Name, <<>>)) = <<Mark>> \o Name \o <<>>
    BY DEF Spelled, Item
  <2>2. <<Mark>> \o Name \in Str
    BY <1>2, TextsAssociate, MarkIsText
  <2> QED
    BY <2>1, <2>2, TextsAssociate
<1> QED
  BY <1>1, <1>2, <1>3, <1>4, PartRead

\* An item with one.  Two braces with nothing between them are the one thing
\* that the parts do not tell from no braces.
LEMMA ItemWithFormatRead ==
  ASSUME SpellInv, ItemWithFormat
  PROVE  SpellInv'
<1> DEFINE fmt == SubSeq(m_pattern, NameEnd + 1, FmtEnd - 1)
<1>1. ParserTypes /\ AtItem /\ Braced /\ FmtEnd <= Size /\ PushItem(fmt, FmtEnd + 1)
  BY DEF SpellInv, ItemWithFormat
<1>2. /\ i <= Size /\ NameEnd \in (i + 1)..Size /\ m_pattern[NameEnd] = Open /\ Name \in Str
      /\ FmtEnd \in (NameEnd + 1)..Size /\ m_pattern[FmtEnd] = Close
      /\ SubSeq(m_pattern, i, NameEnd - 1) = <<Mark>> \o Name
      /\ m_pattern \in Str /\ Size \in Nat /\ i \in 1..Size /\ Size = Len(m_pattern)
  <2>1. i <= Size /\ Name \in Str /\ SubSeq(m_pattern, i, NameEnd - 1) = <<Mark>> \o Name
    BY <1>1, ItemSpelled
  <2>2. /\ NameEnd \in (i + 1)..Size /\ m_pattern[NameEnd] = Open
        /\ FmtEnd \in (NameEnd + 1)..(Size + 1)
        /\ FmtEnd > Size \/ m_pattern[FmtEnd] = Close
    BY <1>1, <2>1, FormatEnds
  <2>3. m_pattern \in Str /\ Size \in Nat /\ i \in Nat /\ i \in 1..(Size + 1) /\ Size = Len(m_pattern)
    BY <1>1 DEF ParserTypes, Size
  <2> QED
    BY <1>1, <2>1, <2>2, <2>3
<1>3. fmt \in Str
  <2>1. NameEnd + 1 \in Nat \ {0} /\ FmtEnd - 1 \in Nat /\ FmtEnd - 1 <= Len(m_pattern)
    BY <1>2
  <2> QED
    BY <1>2, <2>1, SubText
<1> HIDE DEF fmt
<1>4. ASSUME ~EmptyBraces
      PROVE  Spelled(Item(Name, fmt)) = SubSeq(m_pattern, i, FmtEnd)
  <2>1. fmt # <<>>
    <3>1. FmtEnd # NameEnd + 1
      <4>1. ASSUME FmtEnd = NameEnd + 1 PROVE EmptyBraces
        <5>1. NameEnd \in 1..(Size - 1)
          BY <1>2, <4>1
        <5>2. Is(NameEnd, Open) /\ Is(NameEnd + 1, Close)
          BY <1>2, <4>1 DEF Is
        <5> QED
          BY <5>1, <5>2 DEF EmptyBraces
      <4> QED
        BY <1>4, <4>1
    <3>2. NameEnd + 1 <= FmtEnd - 1
      BY <1>2, <3>1
    <3>3. Len(fmt) # 0
      <4>1. NameEnd + 1 \in Int /\ FmtEnd - 1 \in Int
        BY <1>2
      <4>2. \A j \in (NameEnd + 1)..(FmtEnd - 1) : m_pattern[j] \in Chars
        BY <1>2, ElementOfSeq DEF Str
      <4>3. Len(fmt) = (FmtEnd - 1) - (NameEnd + 1) + 1
        BY <3>2, <4>1, <4>2, SubSeqProperties DEF fmt
      <4> QED
        BY <1>2, <3>2, <4>3
    <3> QED
      BY <3>3, EmptySeq
  <2>2. Spelled(Item(Name, fmt)) = (<<Mark>> \o Name) \o ((<<Open>> \o fmt) \o <<Close>>)
    <3>1. /\ Item(Name, fmt).type # 0
          /\ Item(Name, fmt).str = Name /\ Item(Name, fmt).fmt = fmt
      BY DEF Item
    <3> QED
      BY <2>1, <3>1, Zenon DEF Spelled
  <2>3. (<<Open>> \o fmt) \o <<Close>> = SubSeq(m_pattern, NameEnd, FmtEnd)
    <3>1. NameEnd \in 1..Len(m_pattern) /\ FmtEnd \in NameEnd..Len(m_pattern)
          /\ FmtEnd - 1 \in NameEnd..Len(m_pattern)
      BY <1>2
    <3>2. SubSeq(m_pattern, NameEnd, FmtEnd) = SubSeq(m_pattern, NameEnd, FmtEnd - 1) \o <<m_pattern[FmtEnd]>>
      BY <1>2, <3>1, SubSeqRecursiveSecond DEF Str
    <3>3. SubSeq(m_pattern, NameEnd, FmtEnd - 1) = <<m_pattern[NameEnd]>> \o fmt
      BY <1>2, <3>1, SubSeqRecursiveFirst DEF Str, fmt
    <3> QED
      BY <1>2, <3>2, <3>3, Zenon
  <2>4. SubSeq(m_pattern, i, NameEnd - 1) \o SubSeq(m_pattern, NameEnd, FmtEnd) = SubSeq(m_pattern, i, FmtEnd)
    <3>1. /\ i \in 1..(Len(m_pattern) + 1) /\ NameEnd - 1 \in (i - 1)..Len(m_pattern)
          /\ FmtEnd \in (NameEnd - 1)..Len(m_pattern) /\ (NameEnd - 1) + 1 = NameEnd
      BY <1>2
    <3> QED
      BY <1>2, <3>1, ConcatAdjacentSubSeq DEF Str
  <2> QED
    BY <1>2, <2>2, <2>3, <2>4, Zenon
<1>5. FmtEnd + 1 \in (i + 1)..(Size + 1) /\ (FmtEnd + 1) - 1 = FmtEnd
  BY <1>2
<1> QED
  BY <1>1, <1>2, <1>3, <1>4, <1>5, PartRead

\* Every step of init() keeps the invariant.
LEMMA SpellInvNext == SpellInv /\ [FormatNext]_formatVars => SpellInv'
<1> SUFFICES ASSUME SpellInv, [FormatNext]_formatVars PROVE SpellInv'
  OBVIOUS
<1>1. CASE Literal
  BY <1>1, CharacterRead DEF Literal
<1>2. CASE Percent
  <2>1. i <= Size /\ m_pattern[i] = Mark
    BY <1>2 DEF Percent, Is
  <2> QED
    BY <1>2, <2>1, CharacterRead DEF Percent
<1>3. CASE PlainItem
  BY <1>3, PlainItemRead
<1>4. CASE ItemWithFormat
  BY <1>4, ItemWithFormatRead
<1>5. CASE Unclosed
  <2>1. /\ ParserTypes /\ i <= Size
        /\ vec' = Append(vec, Error) /\ m_error' = TRUE /\ i' = i + 1
        /\ m_pattern' = m_pattern /\ nstr' = nstr
    BY <1>5 DEF SpellInv, Unclosed, AtItem, Is
  <2>2. Error \in Parts
    <3>1. <<PatternError>> \in Str /\ <<>> \in Str
      BY StartsWith, EmptySeq DEF Str, Chars
    <3> QED
      BY <3>1 DEF Error, Text, Parts
  <2>3. vec' \in Seq(Parts)
    BY <2>1, <2>2, AppendProperties DEF ParserTypes
  <2>4. Size' = Size /\ i' \in Nat /\ i' \in 1..(Size + 1)
    BY <2>1 DEF ParserTypes, Size
  <2> QED
    BY <2>1, <2>3, <2>4 DEF ParserTypes, SpellInv
<1>6. CASE Finish
  <2>1. /\ ParserTypes /\ vec' = Flushed /\ nstr' = <<>> /\ m_pattern' = m_pattern /\ i' = i
        /\ m_error' = (m_error \/ \E v \in ToSet(Flushed) : v.type = 1 /\ ~KnownName(v.str))
    BY <1>6 DEF SpellInv, Finish
  <2>2. m_error' \in BOOLEAN /\ (~m_error' => ~m_error)
    BY <2>1, Zenon DEF ParserTypes
  <2>3. Size' = Size /\ EmptyBraces' = EmptyBraces
    BY <2>1 DEF Size, EmptyBraces, Is
  <2>4. Flushed \in Seq(Parts) /\ Spelling(Flushed) = Spelling(vec) \o nstr
    BY <2>1, SpellingFlushed
  <2>5. ParserTypes'
    BY <2>1, <2>2, <2>3, <2>4, EmptySeq DEF ParserTypes, Str
  <2>6. Spelling(vec') \o nstr' = Spelling(vec) \o nstr
    <3>1. Spelling(Flushed) \o <<>> = Spelling(Flushed)
      BY <2>4, SpellingType, TextsAssociate
    <3> QED
      BY <2>1, <2>4, <3>1, Zenon
  <2> QED
    BY <2>1, <2>2, <2>3, <2>5, <2>6, Zenon DEF SpellInv, ReadSoFar
<1>7. CASE UNCHANGED formatVars
  BY <1>7 DEF formatVars, SpellInv, ParserTypes, ReadSoFar, Size, EmptyBraces, Is
<1> QED
  BY <1>1, <1>2, <1>3, <1>4, <1>5, <1>6, <1>7 DEF FormatNext

\* Until init() finds an error nothing of a pattern is lost, doubled or moved,
\* for every pattern over every alphabet.
THEOREM PatternKept == FormatSpec => []NothingDropped
<1>1. SpellInv => NothingDropped
  BY Zenon DEF SpellInv, ReadSoFar, Spelling, NothingDropped
<1> QED
  BY <1>1, SpellInvInit, SpellInvNext, PTL DEF FormatSpec

(***************************************************************************)
(* LogFormatter: a pattern put together from pieces writes what they do.   *)
(***************************************************************************)

\* What a part writes, and what a piece says and writes.
Render == [v \in Parts |-> Written(Construct(v))]
PieceText == [p \in Pieces |-> p.text]
PieceWrites == [p \in Pieces |-> p.writes]

Rendering(v) == Mapped(Render, v)
TextOf(ps) == Mapped(PieceText, ps)
WritesOf(ps) == Mapped(PieceWrites, ps)
UnknownPart(v) == \E k \in DOMAIN v : v[k].type = 1 /\ ~KnownName(v[k].str)
UnknownPiece(ps) == \E k \in DOMAIN ps : ~ps[k].known

\* Texts under Cat.
LEMMA TextsConcatenate ==
  ASSUME NEW s \in Str, NEW t \in Str
  PROVE  /\ Cat(s, t) \in Str
         /\ Cat(s, <<>>) = s /\ Cat(<<>>, s) = s
BY CatProperties DEF Str

\* And three of them.
LEMMA TextsReassociated ==
  ASSUME NEW s \in Str, NEW t \in Str, NEW u \in Str
  PROVE  Cat(Cat(s, t), u) = Cat(s, Cat(t, u))
BY CatAssociative DEF Str

\* A character is a text.
LEMMA OneCharacter ==
  ASSUME NEW c \in Chars
  PROVE  <<c>> \in Str
BY StartsWith DEF Str

\* '%' and '{' are in no name.
LEMMA NotInNames == Mark \notin NameChars /\ Open \notin NameChars /\ Mark # Open
<1>1. Mark # Open /\ Mark # Close /\ Open # Close
  BY Zenon DEF Mark, Open, Close
<1>2. Mark \notin Letters /\ Open \notin Letters
  BY FormatAssumption
<1> QED
  BY <1>1, <1>2 DEF NameChars

\* A part writes a text.
LEMMA RenderType == Render \in [Parts -> Str]
<1> SUFFICES ASSUME NEW v \in Parts PROVE Written(Construct(v)) \in Str
  BY DEF Render
<1>1. v.str \in Str /\ v.fmt \in Str /\ v.type \in {0, 1}
  BY DEF Parts
<1>2. \A s \in Str : Written([class |-> "StringFormatItem", arg |-> s]) \in Str
  BY DEF Written
<1>3. CASE v.type = 0
  BY <1>1, <1>2, <1>3 DEF Construct
<1>4. CASE v.type # 0 /\ ~KnownName(v.str)
  <2>1. FormatError \in Chars /\ ErrorEnd \in Chars
    BY DEF Chars
  <2>2. (<<FormatError>> \o v.str) \o <<ErrorEnd>> \in Str
    BY <1>1, <2>1, OneCharacter, TextsConcatenate DEF Cat
  <2>3. Construct(v) = [class |-> "StringFormatItem", arg |-> (<<FormatError>> \o v.str) \o <<ErrorEnd>>]
    BY <1>4, Zenon DEF Construct
  <2> QED
    BY <1>2, <2>2, <2>3, Zenon
<1>5. CASE v.type # 0 /\ KnownName(v.str)
  <2> DEFINE classes == {FormatItems[n] : n \in DOMAIN FormatItems}
             item == [class |-> FormatItems[v.str[1]], arg |-> v.fmt]
  <2>1. item.class \in classes /\ item.arg \in Str /\ Construct(v) = item
    <3>1. v.str[1] \in DOMAIN FormatItems
      BY <1>5 DEF KnownName
    <3> HIDE DEF classes
    <3>2. FormatItems[v.str[1]] \in classes
      BY <3>1, Zenon DEF classes
    <3> QED
      BY <1>1, <1>5, <3>2 DEF Construct
  <2>2. EventFields[item.class] \in STRING
    <3>1. EventFields \in [classes -> STRING]
      BY FormatAssumption
    <3> HIDE DEF classes, item
    <3> QED
      BY <2>1, <3>1
  <2> HIDE DEF item, classes
  <2>3. <<EventFields[item.class]>> \in Str
    <3>1. EventFields[item.class] \in Chars
      BY <2>2 DEF Chars
    <3> QED
      BY <3>1, OneCharacter
  <2>4. <<DefaultTime>> \in Str /\ <<NewLine>> \in Str /\ <<Tab>> \in Str
    <3>1. DefaultTime \in Chars /\ NewLine \in Chars /\ Tab \in Chars
      BY DEF Chars
    <3> QED
      BY <3>1, OneCharacter
  <2>5. Cat(<<EventFields[item.class]>>, IF item.arg = <<>> THEN <<DefaultTime>> ELSE item.arg) \in Str
    <3>1. (IF item.arg = <<>> THEN <<DefaultTime>> ELSE item.arg) \in Str
      BY <2>1, <2>4, Zenon
    <3> QED
      BY <2>3, <3>1, TextsConcatenate
  <2>6. Written(item) \in Str
    BY <2>1, <2>3, <2>4, <2>5 DEF Written, Cat
  <2> QED
    BY <2>1, <2>6
<1> QED
  BY <1>3, <1>4, <1>5

\* One more part writes one more text.
LEMMA RenderingAppend ==
  ASSUME NEW v \in Seq(Parts), NEW x \in Parts
  PROVE  /\ Rendering(v) \in Str
         /\ Rendering(Append(v, x)) = Cat(Rendering(v), Render[x])
         /\ UnknownPart(Append(v, x)) <=> UnknownPart(v) \/ (x.type = 1 /\ ~KnownName(x.str))
<1>1. Render \in [Parts -> Seq(Chars)]
  BY RenderType DEF Str
<1>2. Rendering(v) \in Seq(Chars) /\ Rendering(Append(v, x)) = Cat(Rendering(v), Render[x])
  BY <1>1, MappedAppend DEF Rendering
<1> DEFINE w == Append(v, x)
<1>3. /\ DOMAIN w = 1..(Len(v) + 1) /\ DOMAIN v = 1..Len(v) /\ Len(v) \in Nat
      /\ w[Len(v) + 1] = x /\ \A k \in 1..Len(v) : w[k] = v[k]
  BY AppendProperties, LenProperties
<1> HIDE DEF w
<1>4. UnknownPart(w) <=> UnknownPart(v) \/ (x.type = 1 /\ ~KnownName(x.str))
  BY <1>3 DEF UnknownPart
<1> QED
  BY <1>2, <1>4 DEF w, Str

\* The text so far writes itself.
LEMMA RenderingFlushed ==
  ASSUME ParserTypes
  PROVE  /\ Flushed \in Seq(Parts) /\ Rendering(vec) \in Str /\ Rendering(Flushed) \in Str
         /\ Rendering(Flushed) = Cat(Rendering(vec), nstr)
         /\ UnknownPart(Flushed) <=> UnknownPart(vec)
<1>1. /\ nstr \in Str /\ vec \in Seq(Parts) /\ Text(nstr) \in Parts
      /\ Text(nstr).type = 0 /\ Text(nstr).str = nstr
  BY EmptySeq DEF ParserTypes, Parts, Text, Str
<1>2. Render[Text(nstr)] = nstr
  <2>1. Construct(Text(nstr)) = [class |-> "StringFormatItem", arg |-> nstr]
    BY <1>1, Zenon DEF Construct
  <2>2. Written([class |-> "StringFormatItem", arg |-> nstr]) = nstr
    BY DEF Written
  <2> QED
    BY <1>1, <2>1, <2>2 DEF Render
<1>3. Rendering(vec) \in Str
  BY <1>1, RenderingAppend
<1>4. CASE nstr = <<>>
  BY <1>1, <1>3, <1>4, TextsConcatenate DEF Flushed
<1>5. CASE nstr # <<>>
  <2>1. Append(vec, Text(nstr)) \in Seq(Parts)
    BY <1>1, AppendProperties
  <2>2. /\ Rendering(Append(vec, Text(nstr))) = Cat(Rendering(vec), nstr)
        /\ UnknownPart(Append(vec, Text(nstr))) <=> UnknownPart(vec)
    BY <1>1, <1>2, RenderingAppend
  <2> QED
    BY <1>1, <1>3, <1>5, <2>1, <2>2, TextsConcatenate DEF Flushed
<1> QED
  BY <1>4, <1>5

----------------------------------------------------------------------------
\* A piece says something, and no name or format goes on into it.
LEMMA PieceStarts ==
  ASSUME NEW p \in Pieces
  PROVE  /\ p.text \in Str /\ p.writes \in Str /\ p.text # <<>> /\ Len(p.text) \in Nat \ {0}
         /\ p.text[1] # Open /\ p.text[1] \notin NameChars
         /\ IsText(p) \/ \E n \in 2..Len(p.text) : IsItem(p, n)
<1>1. /\ p.text \in Seq(STRING) /\ p.writes \in Seq(STRING)
      /\ IsText(p) \/ \E n \in 2..Len(p.text) : IsItem(p, n)
  BY FormatAssumption
<1>2. p.text \in Str /\ p.writes \in Str
  <2>1. STRING \subseteq Chars
    BY DEF Chars
  <2> QED
    BY <1>1, <2>1, SeqMonotonic DEF Str
<1>3. p.text # <<>> /\ Len(p.text) \in Nat \ {0}
  <2>1. CASE IsText(p)
    BY <1>1, <2>1, EmptySeq DEF IsText
  <2>2. CASE \E n \in 2..Len(p.text) : IsItem(p, n)
    BY <1>1, <2>2, EmptySeq, LenProperties
  <2> QED
    BY <1>1, <2>1, <2>2
<1>4. p.text[1] # Open /\ p.text[1] \notin NameChars
  <2>1. CASE IsText(p)
    BY <2>1 DEF IsText
  <2>2. CASE \E n \in 2..Len(p.text) : IsItem(p, n)
    <3>1. p.text[1] = Mark
      BY <2>2, Zenon DEF IsItem
    <3> QED
      BY <3>1, NotInNames
  <2> QED
    BY <1>1, <2>1, <2>2
<1> QED
  BY <1>1, <1>2, <1>3, <1>4

\* The pieces, and the first of them.
LEMMA PiecesType ==
  ASSUME NEW ps \in Seq(Pieces)
  PROVE  TextOf(ps) \in Str /\ WritesOf(ps) \in Str
<1>1. PieceText \in [Pieces -> Seq(Chars)] /\ PieceWrites \in [Pieces -> Seq(Chars)]
  BY PieceStarts DEF PieceText, PieceWrites, Str
<1>2. CASE ps = <<>>
  <2>1. Mapped(PieceText, <<>>) = <<>> /\ Mapped(PieceWrites, <<>>) = <<>>
    BY MappedEmpty
  <2> QED
    BY <1>2, <2>1, EmptySeq DEF TextOf, WritesOf, Str
<1>3. CASE ps # <<>>
  <2>1. Head(ps) \in Pieces
    BY <1>3, HeadTailProperties
  <2>2. Mapped(PieceText, ps) \in Seq(Chars)
    BY <1>1, <2>1, MappedSteps
  <2>3. Mapped(PieceWrites, ps) \in Seq(Chars)
    BY <1>1, <2>1, MappedSteps
  <2> QED
    BY <2>2, <2>3 DEF TextOf, WritesOf, Str
<1> QED
  BY <1>2, <1>3

\* Text and output of pieces are those of the first and of the rest.
LEMMA PiecesFirst ==
  ASSUME NEW ps \in Seq(Pieces), ps # <<>>
  PROVE  /\ Head(ps) \in Pieces /\ Tail(ps) \in Seq(Pieces)
         /\ TextOf(ps) = Cat(Head(ps).text, TextOf(Tail(ps)))
         /\ WritesOf(ps) = Cat(Head(ps).writes, WritesOf(Tail(ps)))
         /\ UnknownPiece(ps) <=> ~Head(ps).known \/ UnknownPiece(Tail(ps))
<1>0. PieceText \in [Pieces -> Seq(Chars)]
  BY PieceStarts DEF PieceText, Str
<1>1. PieceWrites \in [Pieces -> Seq(Chars)]
  BY PieceStarts DEF PieceWrites, Str
<1>2. Head(ps) \in Pieces /\ Tail(ps) \in Seq(Pieces)
  BY HeadTailProperties
<1>3. PieceText[Head(ps)] = Head(ps).text /\ PieceWrites[Head(ps)] = Head(ps).writes
  BY <1>2 DEF PieceText, PieceWrites
<1>4. Mapped(PieceText, ps) = Cat(PieceText[Head(ps)], Mapped(PieceText, Tail(ps)))
  BY <1>0, MappedFirst
<1>5. Mapped(PieceWrites, ps) = Cat(PieceWrites[Head(ps)], Mapped(PieceWrites, Tail(ps)))
  BY <1>1, MappedFirst
<1>6. UnknownPiece(ps) <=> ~Head(ps).known \/ UnknownPiece(Tail(ps))
  <2>1. /\ Len(ps) \in Nat \ {0} /\ DOMAIN ps = 1..Len(ps) /\ Head(ps) = ps[1]
        /\ DOMAIN Tail(ps) = 1..(Len(ps) - 1)
        /\ \A k \in 1..(Len(ps) - 1) : Tail(ps)[k] = ps[k + 1]
    BY EmptySeq, LenProperties, HeadTailProperties
  <2> DEFINE t == Tail(ps)
  <2> HIDE DEF t
  <2>2. ASSUME NEW k \in DOMAIN ps, ~ps[k].known, k # 1
        PROVE  \E j \in 1..(Len(ps) - 1) : ~t[j].known
    <3>1. k - 1 \in 1..(Len(ps) - 1) /\ (k - 1) + 1 = k
      BY <2>1, <2>2
    <3> QED
      BY <2>1, <2>2, <3>1 DEF t
  <2>3. ASSUME NEW j \in 1..(Len(ps) - 1), ~t[j].known
        PROVE  \E k \in DOMAIN ps : ~ps[k].known
    <3>1. j + 1 \in DOMAIN ps /\ t[j] = ps[j + 1]
      BY <2>1 DEF t
    <3> QED
      BY <2>3, <3>1
  <2>4. 1 \in DOMAIN ps
    BY <2>1
  <2> QED
    BY <2>1, <2>2, <2>3, <2>4, Zenon DEF UnknownPiece, t
<1> QED
  BY <1>2, <1>3, <1>4, <1>5, <1>6 DEF TextOf, WritesOf

----------------------------------------------------------------------------
\* What is left of the pattern is a text and pieces after it, and with what
\* they write that makes what ps writes.
Stands(ps, lit, qs) ==
    /\ lit \in Str /\ qs \in Seq(Pieces) /\ \A k \in 1..Len(lit) : lit[k] # Mark
    /\ SubSeq(m_pattern, i, Size) = Cat(lit, TextOf(qs))
    /\ Cat(Cat(Rendering(vec), nstr), Cat(lit, WritesOf(qs))) = WritesOf(ps)
    /\ UnknownPiece(ps) <=> UnknownPart(vec) \/ UnknownPiece(qs)

\* What is inductive, whichever the pieces are.
Renders(ps) ==
    IF m_items.made THEN /\ m_error <=> UnknownPiece(ps)
                         /\ Format = WritesOf(ps)
                    ELSE ~m_error /\ \E lit, qs : Stands(ps, lit, qs)

RenderInv ==
    /\ SpellInv /\ (m_items.made => i > Size)
    /\ \A ps \in Seq(Pieces) : m_pattern = TextOf(ps) => Renders(ps)

\* The rest of the pattern, character by character.
LEMMA RestOfPattern ==
  ASSUME ParserTypes
  PROVE  LET rest == SubSeq(m_pattern, i, Size) IN
         /\ rest \in Str /\ Len(rest) = Size - i + 1
         /\ \A k \in 1..(Size - i + 1) : rest[k] = m_pattern[i + k - 1]
<1>1. /\ m_pattern \in Str /\ Size \in Nat /\ i \in Nat /\ i \in 1..(Size + 1) /\ Size = Len(m_pattern)
  BY DEF ParserTypes, Size
<1>2. i \in Int /\ Size \in Int
  BY <1>1
<1>3. \A j \in i..Size : m_pattern[j] \in Chars
  BY <1>1, ElementOfSeq DEF Str
<1>4. /\ SubSeq(m_pattern, i, Size) \in Seq(Chars)
      /\ Len(SubSeq(m_pattern, i, Size)) = IF i <= Size THEN Size - i + 1 ELSE 0
      /\ \A k \in 1..(Size - i + 1) : SubSeq(m_pattern, i, Size)[k] = m_pattern[i + k - 1]
  BY <1>2, <1>3, SubSeqProperties
<1> QED
  BY <1>1, <1>4 DEF Str

\* A text of s and t is made of their characters.
LEMMA CatCharacters ==
  ASSUME NEW s \in Str, NEW t \in Str
  PROVE  /\ Len(s) \in Nat /\ Len(t) \in Nat /\ Len(Cat(s, t)) = Len(s) + Len(t)
         /\ \A k \in 1..Len(s) : Cat(s, t)[k] = s[k]
         /\ \A k \in 1..Len(t) : Cat(s, t)[Len(s) + k] = t[k]
<1>1. /\ Len(s) \in Nat /\ Len(t) \in Nat /\ Len(s \o t) = Len(s) + Len(t)
      /\ \A k \in 1..(Len(s) + Len(t)) : (s \o t)[k] = IF k <= Len(s) THEN s[k] ELSE t[k - Len(s)]
  BY ConcatProperties, LenProperties DEF Str
<1> DEFINE u == s \o t
<1>2. Cat(s, t) = u
  BY DEF Cat
<1> HIDE DEF u
<1>3. /\ \A k \in 1..Len(s) : u[k] = s[k]
      /\ \A k \in 1..Len(t) : u[Len(s) + k] = t[k]
  BY <1>1 DEF u
<1> QED
  BY <1>1, <1>2, <1>3 DEF u

\* Where the rest is a text s and a text t, the pattern has their characters,
\* and after s the rest is t.
LEMMA RestIs ==
  ASSUME ParserTypes, NEW s \in Str, NEW t \in Str, SubSeq(m_pattern, i, Size) = Cat(s, t)
  PROVE  /\ Len(s) \in Nat /\ Len(t) \in Nat /\ Size - i + 1 = Len(s) + Len(t)
         /\ \A k \in 1..Len(s) : m_pattern[i + k - 1] = s[k]
         /\ \A k \in 1..Len(t) : m_pattern[i + Len(s) + k - 1] = t[k]
         /\ SubSeq(m_pattern, i + Len(s), Size) = t
<1>1. /\ m_pattern \in Str /\ Size \in Nat /\ i \in Nat /\ i \in 1..(Size + 1) /\ Size = Len(m_pattern)
  BY DEF ParserTypes, Size
<1> DEFINE rest == SubSeq(m_pattern, i, Size)
           u == Cat(s, t)
<1>2. /\ Len(rest) = Size - i + 1
      /\ \A k \in 1..(Size - i + 1) : rest[k] = m_pattern[i + k - 1]
  BY RestOfPattern
<1>3. /\ Len(s) \in Nat /\ Len(t) \in Nat /\ Len(u) = Len(s) + Len(t)
      /\ \A k \in 1..Len(s) : u[k] = s[k]
      /\ \A k \in 1..Len(t) : u[Len(s) + k] = t[k]
  BY CatCharacters
<1>4. rest = u
  OBVIOUS
<1> HIDE DEF rest, u
<1>5. Size - i + 1 = Len(s) + Len(t)
  BY <1>2, <1>3, <1>4
<1>6. \A k \in 1..Len(s) : m_pattern[i + k - 1] = s[k]
  BY <1>2, <1>3, <1>4, <1>5
<1>7. ASSUME NEW k \in 1..Len(t)
      PROVE  m_pattern[i + Len(s) + k - 1] = t[k]
  <2>1. Len(s) + k \in 1..(Size - i + 1) /\ i + (Len(s) + k) - 1 = i + Len(s) + k - 1
    BY <1>1, <1>3, <1>5
  <2> QED
    BY <1>2, <1>3, <1>4, <2>1
<1>8. SubSeq(m_pattern, i + Len(s), Size) = t
  <2>1. i + Len(s) \in Int /\ Size \in Int /\ Size - (i + Len(s)) + 1 = Len(t)
    BY <1>1, <1>3, <1>5
  <2>2. \A j \in (i + Len(s))..Size : m_pattern[j] \in Chars
    <3>1. \A j \in (i + Len(s))..Size : j \in 1..Len(m_pattern)
      BY <1>1, <1>3
    <3> QED
      BY <1>1, <3>1, ElementOfSeq DEF Str
  <2> DEFINE w == SubSeq(m_pattern, i + Len(s), Size)
  <2>3. /\ w \in Seq(Chars)
        /\ Len(w) = IF i + Len(s) <= Size THEN Size - (i + Len(s)) + 1 ELSE 0
        /\ \A k \in 1..(Size - (i + Len(s)) + 1) : w[k] = m_pattern[(i + Len(s)) + k - 1]
    BY <2>1, <2>2, SubSeqProperties
  <2> HIDE DEF w
  <2>4. Len(w) = Len(t)
    BY <1>1, <1>3, <2>1, <2>3
  <2>5. \A k \in 1..Len(w) : w[k] = t[k]
    BY <1>7, <2>1, <2>3, <2>4
  <2>6. w = t
    BY <2>3, <2>4, <2>5, SeqEqual DEF Str
  <2> QED
    BY <2>6 DEF w
<1> QED
  BY <1>3, <1>5, <1>6, <1>7, <1>8

\* At a '%' a piece starts, which is an item.
LEMMA ItemAhead ==
  ASSUME ParserTypes, NEW ps, NEW lit, NEW qs, Stands(ps, lit, qs), i <= Size, m_pattern[i] = Mark
  PROVE  /\ lit = <<>> /\ qs # <<>> /\ \E n \in 2..Len(Head(qs).text) : IsItem(Head(qs), n)
         /\ SubSeq(m_pattern, i, Size) = Cat(Head(qs).text, TextOf(Tail(qs)))
<1>1. /\ lit \in Str /\ qs \in Seq(Pieces) /\ \A k \in 1..Len(lit) : lit[k] # Mark
      /\ SubSeq(m_pattern, i, Size) = Cat(lit, TextOf(qs))
  BY DEF Stands
<1>2. Size \in Nat /\ i \in Nat
  BY DEF ParserTypes
<1>3. /\ TextOf(qs) \in Str /\ Len(lit) \in Nat /\ Size - i + 1 = Len(lit) + Len(TextOf(qs))
      /\ \A k \in 1..Len(lit) : m_pattern[i + k - 1] = lit[k]
  BY <1>1, PiecesType, RestIs
<1>4. lit = <<>>
  <2>1. ASSUME Len(lit) # 0 PROVE FALSE
    <3>1. 1 \in 1..Len(lit) /\ i + 1 - 1 = i
      BY <1>2, <1>3, <2>1
    <3> QED
      BY <1>1, <1>3, <3>1
  <2> QED
    BY <1>1, <2>1, EmptySeq DEF Str
<1>5. SubSeq(m_pattern, i, Size) = TextOf(qs)
  BY <1>1, <1>3, <1>4, TextsConcatenate
<1>6. qs # <<>>
  <2>1. ASSUME qs = <<>> PROVE FALSE
    <3>1. TextOf(qs) = <<>>
      BY <2>1, MappedEmpty DEF TextOf
    <3>2. Len(lit) = 0 /\ Len(TextOf(qs)) = 0
      BY <1>4, <3>1, EmptySeq
    <3> QED
      BY <1>2, <1>3, <3>2
  <2> QED
    BY <2>1
<1>7. /\ Head(qs) \in Pieces /\ Tail(qs) \in Seq(Pieces)
      /\ TextOf(qs) = Cat(Head(qs).text, TextOf(Tail(qs)))
  BY <1>1, <1>6, PiecesFirst
<1>8. m_pattern[i] = Head(qs).text[1]
  <2>1. Head(qs).text \in Str /\ TextOf(Tail(qs)) \in Str /\ Len(Head(qs).text) \in Nat \ {0}
    BY <1>7, PieceStarts, PiecesType
  <2>2. \A k \in 1..Len(Head(qs).text) : m_pattern[i + k - 1] = Head(qs).text[k]
    BY <1>5, <1>7, <2>1, RestIs
  <2>3. 1 \in 1..Len(Head(qs).text) /\ i + 1 - 1 = i
    BY <1>2, <2>1
  <2> QED
    BY <2>2, <2>3
<1>9. ~IsText(Head(qs))
  <2>1. 1 \in DOMAIN Head(qs).text
    BY <1>7, PieceStarts, LenProperties DEF Str
  <2>2. Mark \in ToSet(Head(qs).text)
    BY <1>8, <2>1 DEF ToSet
  <2> QED
    BY <2>2 DEF IsText
<1> QED
  BY <1>4, <1>5, <1>6, <1>7, <1>9, PieceStarts

\* The name of an item ends in one place, and its format too.
LEMMA NameEndsAt ==
  ASSUME ParserTypes, i <= Size, NEW e \in Nat, i + 1 <= e, e <= Size + 1,
         e > Size \/ m_pattern[e] \notin NameChars,
         \A j \in (i + 1)..(e - 1) : m_pattern[j] \in NameChars
  PROVE  NameEnd = e
<1>1. Size \in Nat /\ i \in Nat
  BY DEF ParserTypes
<1>2. /\ NameEnd \in (i + 1)..(Size + 1)
      /\ NameEnd > Size \/ m_pattern[NameEnd] \notin NameChars
      /\ \A j \in (i + 1)..(NameEnd - 1) : m_pattern[j] \in NameChars
  BY NameEnds
<1>3. NameEnd \in Nat /\ i + 1 <= NameEnd /\ NameEnd <= Size + 1
  BY <1>1, <1>2
<1>4. CASE NameEnd < e
  <2>1. NameEnd \in (i + 1)..(e - 1) /\ NameEnd <= Size
    BY <1>1, <1>3, <1>4
  <2> QED
    BY <1>1, <1>2, <1>3, <2>1
<1>5. CASE e < NameEnd
  <2>1. e \in (i + 1)..(NameEnd - 1) /\ e <= Size
    BY <1>1, <1>3, <1>5
  <2> QED
    BY <1>1, <1>2, <1>3, <2>1
<1> QED
  BY <1>3, <1>4, <1>5

\* The first '}' behind the name ends the format.
LEMMA FormatEndsAt ==
  ASSUME ParserTypes, i <= Size, Braced, NEW e \in (NameEnd + 1)..Size, m_pattern[e] = Close,
         \A j \in (NameEnd + 1)..(e - 1) : m_pattern[j] # Close
  PROVE  FmtEnd = e
<1>1. Size \in Nat /\ i \in Nat
  BY DEF ParserTypes
<1>2. /\ NameEnd \in (i + 1)..Size
      /\ FmtEnd \in (NameEnd + 1)..(Size + 1)
      /\ FmtEnd > Size \/ m_pattern[FmtEnd] = Close
      /\ \A j \in (NameEnd + 1)..(FmtEnd - 1) : m_pattern[j] # Close
  BY FormatEnds
<1>3. FmtEnd \in Nat /\ NameEnd \in Nat /\ e \in Nat
  BY <1>1, <1>2
<1>4. CASE FmtEnd < e
  <2>1. FmtEnd \in (NameEnd + 1)..(e - 1) /\ FmtEnd <= Size
    BY <1>1, <1>2, <1>3, <1>4
  <2> QED
    BY <1>1, <1>2, <1>3, <2>1
<1>5. CASE e < FmtEnd
  <2>1. e \in (NameEnd + 1)..(FmtEnd - 1)
    BY <1>1, <1>2, <1>3, <1>5
  <2> QED
    BY <1>2, <2>1
<1> QED
  BY <1>3, <1>4, <1>5

\* init() reads an item to where its piece ends: the name ends where the next
\* character is in no name, and the format at the first '}'.
LEMMA ItemEnds ==
  ASSUME ParserTypes, i <= Size, NEW p \in Pieces, NEW t \in Str, NEW n \in 2..Len(p.text), IsItem(p, n),
         SubSeq(m_pattern, i, Size) = Cat(p.text, t),
         t # <<>> => t[1] # Open /\ t[1] \notin NameChars
  PROVE  /\ NameEnd = i + n /\ m_pattern[i + 1] # Mark /\ i + 1 <= Size
         /\ Braced <=> n < Len(p.text)
         /\ Braced => FmtEnd = i + Len(p.text) - 1 /\ FmtEnd <= Size
<1> DEFINE size == Len(p.text)
<1>1. /\ Size \in Nat /\ i \in Nat /\ size \in Nat /\ n \in 2..size /\ Len(t) \in Nat
      /\ Size - i + 1 = size + Len(t)
  <2>1. p.text \in Str /\ Size \in Nat /\ i \in Nat
    BY PieceStarts DEF ParserTypes
  <2> QED
    BY <2>1, RestIs
<1>2. ASSUME NEW j \in i..(i + size - 1)
      PROVE  m_pattern[j] = p.text[j - i + 1] /\ j <= Size
  <2>1. \A k \in 1..size : m_pattern[i + k - 1] = p.text[k]
    BY PieceStarts, RestIs
  <2>2. j - i + 1 \in 1..size /\ i + (j - i + 1) - 1 = j /\ j <= Size
    BY <1>1
  <2> QED
    BY <2>1, <2>2
<1>3. Len(t) # 0 => m_pattern[i + size] = t[1]
  <2>1. \A k \in 1..Len(t) : m_pattern[i + size + k - 1] = t[k]
    BY PieceStarts, RestIs
  <2>2. i + size + 1 - 1 = i + size
    BY <1>1
  <2>3. Len(t) # 0 => 1 \in 1..Len(t)
    BY <1>1
  <2> QED
    BY <2>1, <2>2, <2>3
<1>4. \A k \in 2..n : p.text[k] \in NameChars
  BY DEF IsItem
<1>5. n < size => n + 2 <= size /\ p.text[n + 1] = Open /\ p.text[size] = Close
  BY DEF IsItem
<1>6. n < size => \A k \in (n + 2)..(size - 1) : p.text[k] # Close
  BY DEF IsItem
<1> HIDE DEF size
<1>7. ASSUME NEW j \in (i + 1)..(i + n - 1)
      PROVE  m_pattern[j] \in NameChars
  <2>1. j \in i..(i + size - 1) /\ j - i + 1 \in 2..n
    BY <1>1
  <2> QED
    BY <1>2, <1>4, <2>1
<1>8. m_pattern[i + 1] # Mark /\ i + 1 <= Size
  <2>1. i + 1 \in (i + 1)..(i + n - 1) /\ i + 1 \in i..(i + size - 1)
    BY <1>1
  <2> QED
    BY <1>2, <1>7, <2>1, NotInNames
<1>9. CASE n < size
  <2>1. i + n <= Size /\ m_pattern[i + n] = Open
    <3>1. i + n \in i..(i + size - 1) /\ (i + n) - i + 1 = n + 1
      BY <1>1, <1>9
    <3> QED
      BY <1>2, <1>5, <1>9, <3>1
  <2>2. NameEnd = i + n
    <3>1. i + n \in Nat /\ i + 1 <= i + n /\ i + n <= Size + 1
      BY <1>1, <2>1
    <3>2. m_pattern[i + n] \notin NameChars
      BY <2>1, NotInNames
    <3> DEFINE e == i + n
    <3>3. \A j \in (i + 1)..(e - 1) : m_pattern[j] \in NameChars
      BY <1>1, <1>7
    <3>4. e \in Nat /\ i + 1 <= e /\ e <= Size + 1 /\ (e > Size \/ m_pattern[e] \notin NameChars)
      BY <3>1, <3>2
    <3> HIDE DEF e
    <3>5. NameEnd = e
      BY <3>3, <3>4, NameEndsAt
    <3> QED
      BY <3>5 DEF e
  <2>3. Braced
    BY <2>1, <2>2 DEF Braced, Is
  <2>4. i + size - 1 <= Size /\ m_pattern[i + size - 1] = Close
    <3>1. i + size - 1 \in i..(i + size - 1) /\ (i + size - 1) - i + 1 = size
      BY <1>1
    <3> QED
      BY <1>2, <1>5, <1>9, <3>1
  <2>5. FmtEnd = i + size - 1
    <3>1. i + size - 1 \in (NameEnd + 1)..Size
      BY <1>1, <1>5, <1>9, <2>2, <2>4
    <3>2. ASSUME NEW j \in (NameEnd + 1)..((i + size - 1) - 1)
          PROVE  m_pattern[j] # Close
      <4>1. j - i + 1 \in (n + 2)..(size - 1) /\ j \in i..(i + size - 1)
        BY <1>1, <2>2
      <4> QED
        BY <1>2, <1>6, <1>9, <4>1
    <3> QED
      BY <2>3, <2>4, <3>1, <3>2, FormatEndsAt
  <2> QED
    BY <1>8, <1>9, <2>2, <2>3, <2>4, <2>5 DEF size
<1>10. CASE n = size
  <2>1. i + n > Size \/ (m_pattern[i + n] # Open /\ m_pattern[i + n] \notin NameChars)
    <3>1. CASE t = <<>>
      <4>1. Len(t) = 0
        BY <3>1, EmptySeq
      <4> QED
        BY <1>1, <1>10, <4>1
    <3>2. CASE t # <<>>
      <4>1. Len(t) # 0
        BY <3>2, EmptySeq DEF Str
      <4> QED
        BY <1>3, <1>10, <3>2, <4>1
    <3> QED
      BY <3>1, <3>2
  <2>2. NameEnd = i + n
    <3>1. i + n \in Nat /\ i + 1 <= i + n /\ i + n <= Size + 1
      BY <1>1, <1>10
    <3> DEFINE e == i + n
    <3>3. \A j \in (i + 1)..(e - 1) : m_pattern[j] \in NameChars
      BY <1>1, <1>7
    <3>4. e \in Nat /\ i + 1 <= e /\ e <= Size + 1 /\ (e > Size \/ m_pattern[e] \notin NameChars)
      BY <2>1, <3>1
    <3> HIDE DEF e
    <3>5. NameEnd = e
      BY <3>3, <3>4, NameEndsAt
    <3> QED
      BY <3>5 DEF e
  <2>3. ~Braced
    <3>1. ~(NameEnd <= Size /\ m_pattern[NameEnd] = Open)
      BY <1>1, <2>1, <2>2
    <3> QED
      BY <3>1 DEF Braced, Is
  <2> QED
    BY <1>8, <1>10, <2>2, <2>3 DEF size
<1> QED
  BY <1>1, <1>9, <1>10 DEF size

----------------------------------------------------------------------------
\* What the pieces say is empty when there are none, and starts as one does.
LEMMA PiecesStart ==
  ASSUME NEW ps \in Seq(Pieces)
  PROVE  IF ps = <<>> THEN TextOf(ps) = <<>>
                      ELSE /\ TextOf(ps) # <<>>
                           /\ TextOf(ps)[1] # Open /\ TextOf(ps)[1] \notin NameChars
<1>1. CASE ps = <<>>
  BY <1>1, MappedEmpty DEF TextOf
<1>2. CASE ps # <<>>
  <2>1. /\ Head(ps) \in Pieces /\ Tail(ps) \in Seq(Pieces)
        /\ TextOf(ps) = Cat(Head(ps).text, TextOf(Tail(ps)))
    BY <1>2, PiecesFirst
  <2> DEFINE s == Head(ps).text
             t == TextOf(Tail(ps))
  <2>2. s \in Str /\ t \in Str /\ Len(s) \in Nat \ {0} /\ s[1] # Open /\ s[1] \notin NameChars
    BY <2>1, PieceStarts, PiecesType
  <2> HIDE DEF s, t
  <2>3. Len(Cat(s, t)) = Len(s) + Len(t) /\ Len(t) \in Nat /\ \A k \in 1..Len(s) : Cat(s, t)[k] = s[k]
    BY <2>2, CatCharacters
  <2>4. Cat(s, t)[1] = s[1] /\ Len(Cat(s, t)) # 0
    BY <2>2, <2>3
  <2>5. Cat(s, t) # <<>>
    BY <2>4, EmptySeq
  <2> QED
    BY <1>2, <2>1, <2>2, <2>4, <2>5 DEF s, t
<1> QED
  BY <1>1, <1>2

\* Where s says after d characters what t says, their parts are the same.
LEMMA SamePart ==
  ASSUME NEW s \in Str, NEW t \in Str, NEW d \in Nat, NEW a \in Nat \ {0}, NEW b \in Nat,
         b <= Len(t), \A k \in 1..Len(t) : s[d + k] = t[k]
  PROVE  SubSeq(s, d + a, d + b) = SubSeq(t, a, b)
<1>1. \A k \in a..b : k \in 1..Len(t) /\ t[k] \in Chars
  BY ElementOfSeq, LenProperties DEF Str
<1>2. \A j \in (d + a)..(d + b) : s[j] = t[j - d] /\ s[j] \in Chars
  <2> SUFFICES ASSUME NEW j \in (d + a)..(d + b) PROVE s[j] = t[j - d] /\ s[j] \in Chars
    OBVIOUS
  <2>1. j - d \in a..b /\ d + (j - d) = j
    OBVIOUS
  <2> QED
    BY <1>1, <2>1
<1> DEFINE u == SubSeq(s, d + a, d + b)
           w == SubSeq(t, a, b)
<1>3. /\ u \in Seq(Chars)
      /\ Len(u) = IF d + a <= d + b THEN (d + b) - (d + a) + 1 ELSE 0
      /\ \A k \in 1..((d + b) - (d + a) + 1) : u[k] = s[(d + a) + k - 1]
  <2>1. d + a \in Int /\ d + b \in Int
    OBVIOUS
  <2> QED
    BY <1>2, <2>1, SubSeqProperties
<1>4. /\ w \in Seq(Chars)
      /\ Len(w) = IF a <= b THEN b - a + 1 ELSE 0
      /\ \A k \in 1..(b - a + 1) : w[k] = t[a + k - 1]
  BY <1>1, SubSeqProperties
<1> HIDE DEF u, w
<1>5. Len(u) = Len(w)
  BY <1>3, <1>4
<1>6. ASSUME NEW k \in 1..Len(u)
      PROVE  u[k] = w[k]
  <2>1. /\ k \in 1..((d + b) - (d + a) + 1) /\ k \in 1..(b - a + 1)
        /\ (d + a) + k - 1 \in (d + a)..(d + b) /\ (d + a) + k - 1 - d = a + k - 1
    BY <1>3
  <2>2. s[(d + a) + k - 1] = t[a + k - 1]
    BY <1>2, <2>1
  <2> QED
    BY <1>3, <1>4, <2>1, <2>2
<1>7. u = w
  BY <1>3, <1>4, <1>5, <1>6, SeqEqual
<1> QED
  BY <1>7 DEF u, w

\* At first the pattern is the pieces, and nothing of them is written.
LEMMA RenderInvInit == FormatInit => RenderInv
<1> SUFFICES ASSUME FormatInit PROVE RenderInv
  OBVIOUS
<1>1. SpellInv /\ ParserTypes /\ i = 1 /\ nstr = <<>> /\ vec = <<>> /\ ~m_error /\ ~m_items.made
  BY SpellInvInit DEF SpellInv, FormatInit, Pending
<1>2. ASSUME NEW ps \in Seq(Pieces), m_pattern = TextOf(ps)
      PROVE  Stands(ps, <<>>, ps)
  <2>1. TextOf(ps) \in Str /\ WritesOf(ps) \in Str
    BY PiecesType
  <2>2. Rendering(vec) = <<>> /\ ~UnknownPart(vec)
    BY <1>1, MappedEmpty DEF Rendering, UnknownPart
  <2>3. SubSeq(m_pattern, i, Size) = m_pattern
    BY <1>1, <1>2, <2>1, SubSeqFull DEF Size, Str
  <2>4. /\ Cat(<<>>, TextOf(ps)) = TextOf(ps) /\ Cat(<<>>, WritesOf(ps)) = WritesOf(ps)
        /\ Cat(<<>>, <<>>) = <<>> /\ <<>> \in Str /\ Len(<<>>) = 0
    <3>1. <<>> \in Str /\ Len(<<>>) = 0
      BY EmptySeq DEF Str
    <3> QED
      BY <2>1, <3>1, TextsConcatenate
  <2>5. \A k \in 1..Len(<<>>) : <<>>[k] # Mark
    BY <2>4
  <2>6. SubSeq(m_pattern, i, Size) = Cat(<<>>, TextOf(ps))
    BY <1>2, <2>3, <2>4
  <2>7. Cat(Cat(Rendering(vec), nstr), Cat(<<>>, WritesOf(ps))) = WritesOf(ps)
    BY <1>1, <2>2, <2>4
  <2> QED
    BY <2>2, <2>4, <2>5, <2>6, <2>7, Zenon DEF Stands
<1> QED
  BY <1>1, <1>2 DEF RenderInv, Renders

\* A text that is left goes on by a character.
LEMMA TextGoesOn ==
  ASSUME ParserTypes, NEW ps, NEW lit, NEW qs, Stands(ps, lit, qs), lit # <<>>,
         nstr' = Append(nstr, m_pattern[i]), i' = i + 1, m_pattern' = m_pattern, vec' = vec
  PROVE  Stands(ps, Tail(lit), qs)'
<1>1. /\ lit \in Str /\ qs \in Seq(Pieces) /\ \A k \in 1..Len(lit) : lit[k] # Mark
      /\ SubSeq(m_pattern, i, Size) = Cat(lit, TextOf(qs))
      /\ Cat(Cat(Rendering(vec), nstr), Cat(lit, WritesOf(qs))) = WritesOf(ps)
      /\ UnknownPiece(ps) <=> UnknownPart(vec) \/ UnknownPiece(qs)
  BY DEF Stands
<1> DEFINE c == <<lit[1]>>
           l == Tail(lit)
<1>2. l \in Str /\ c \in Str /\ lit = Cat(c, l) /\ \A k \in 1..Len(l) : l[k] # Mark
  <2>1. /\ Len(lit) \in Nat \ {0} /\ 1 \in 1..Len(lit) /\ Len(lit) \in 1..Len(lit)
    BY <1>1, EmptySeq DEF Str
  <2>2. /\ l \in Str /\ Len(l) = Len(lit) - 1 /\ \A k \in 1..Len(l) : l[k] = lit[k + 1]
    BY <1>1, HeadTailProperties DEF Str
  <2>3. c \in Str
    BY <1>1, <2>1, ElementOfSeq, OneCharacter DEF Str
  <2>4. lit = c \o l
    <3>1. SubSeq(lit, 1, Len(lit)) = <<lit[1]>> \o SubSeq(lit, 1 + 1, Len(lit))
      BY <1>1, <2>1, SubSeqRecursiveFirst DEF Str
    <3>2. SubSeq(lit, 1, Len(lit)) = lit /\ l = SubSeq(lit, 2, Len(lit))
      BY <1>1, SubSeqFull, TailIsSubSeq DEF Str
    <3>3. 1 + 1 = 2
      OBVIOUS
    <3> QED
      BY <3>1, <3>2, <3>3, Zenon
  <2>5. ASSUME NEW k \in 1..Len(l)
        PROVE  l[k] # Mark
    <3>1. k + 1 \in 1..Len(lit)
      BY <2>1, <2>2
    <3> QED
      BY <1>1, <2>2, <3>1
  <2> QED
    BY <2>2, <2>3, <2>4, <2>5 DEF Cat
<1> HIDE DEF c, l
<1>3. TextOf(qs) \in Str /\ WritesOf(qs) \in Str /\ Rendering(vec) \in Str /\ nstr \in Str
  BY <1>1, PiecesType, RenderingFlushed DEF ParserTypes
<1>4. Cat(l, TextOf(qs)) \in Str /\ Cat(l, WritesOf(qs)) \in Str
  BY <1>2, <1>3, TextsConcatenate
<1>5. SubSeq(m_pattern, i, Size) = Cat(c, Cat(l, TextOf(qs)))
  BY <1>1, <1>2, <1>3, TextsReassociated
<1>6. Len(c) = 1 /\ c[1] = lit[1]
  BY DEF c
<1>7. SubSeq(m_pattern, i + 1, Size) = Cat(l, TextOf(qs)) /\ m_pattern[i] = lit[1]
  <2>1. /\ \A k \in 1..Len(c) : m_pattern[i + k - 1] = c[k]
        /\ SubSeq(m_pattern, i + Len(c), Size) = Cat(l, TextOf(qs))
    BY <1>2, <1>4, <1>5, RestIs
  <2>2. i \in Nat
    BY DEF ParserTypes
  <2>3. i + 1 - 1 = i /\ 1 \in 1..Len(c)
    BY <1>6, <2>2
  <2> QED
    BY <1>6, <2>1, <2>3
<1>8. nstr' = Cat(nstr, c)
  <2>1. lit[1] \in Chars
    <3>1. 1 \in 1..Len(lit)
      BY <1>1, EmptySeq DEF Str
    <3> QED
      BY <1>1, <3>1, ElementOfSeq DEF Str
  <2> QED
    BY <1>3, <1>7, <2>1, AppendIsConcat DEF Cat, Str, c
<1>9. Cat(Cat(Rendering(vec), Cat(nstr, c)), Cat(l, WritesOf(qs))) = WritesOf(ps)
  <2>1. Cat(Rendering(vec), nstr) \in Str
    BY <1>3, TextsConcatenate
  <2>2. Cat(Rendering(vec), Cat(nstr, c)) = Cat(Cat(Rendering(vec), nstr), c)
    BY <1>2, <1>3, TextsReassociated
  <2>3. Cat(Cat(Cat(Rendering(vec), nstr), c), Cat(l, WritesOf(qs)))
          = Cat(Cat(Rendering(vec), nstr), Cat(c, Cat(l, WritesOf(qs))))
    BY <1>2, <1>4, <2>1, TextsReassociated
  <2>4. Cat(c, Cat(l, WritesOf(qs))) = Cat(lit, WritesOf(qs))
    BY <1>2, <1>3, TextsReassociated
  <2> QED
    BY <1>1, <2>2, <2>3, <2>4
<1>10. Size' = Size /\ Rendering(vec)' = Rendering(vec) /\ UnknownPart(vec)' = UnknownPart(vec)
  BY DEF Size, Rendering, UnknownPart
<1> QED
  BY <1>1, <1>2, <1>7, <1>8, <1>9, <1>10 DEF Stands, l

\* Where no '%' is, a text is left: that of the next piece if none was begun.
LEMMA TextAhead ==
  ASSUME ParserTypes, NEW ps, NEW lit, NEW qs, Stands(ps, lit, qs), i <= Size, m_pattern[i] # Mark
  PROVE  \E l, rs : Stands(ps, l, rs) /\ l # <<>>
<1>1. CASE lit # <<>>
  BY <1>1
<1>2. CASE lit = <<>>
  <2>1. /\ lit \in Str /\ qs \in Seq(Pieces)
        /\ SubSeq(m_pattern, i, Size) = Cat(lit, TextOf(qs))
        /\ Cat(Cat(Rendering(vec), nstr), Cat(lit, WritesOf(qs))) = WritesOf(ps)
        /\ UnknownPiece(ps) <=> UnknownPart(vec) \/ UnknownPiece(qs)
    BY DEF Stands
  <2>2. TextOf(qs) \in Str /\ WritesOf(qs) \in Str
    BY <2>1, PiecesType
  <2>3. Cat(lit, TextOf(qs)) = TextOf(qs) /\ Cat(lit, WritesOf(qs)) = WritesOf(qs)
    BY <1>2, <2>2, TextsConcatenate
  <2>4. qs # <<>>
    <3>1. ASSUME qs = <<>> PROVE FALSE
      <4>1. TextOf(qs) = <<>> /\ SubSeq(m_pattern, i, Size) = <<>>
        BY <2>1, <2>3, <3>1, PiecesStart
      <4>2. Len(SubSeq(m_pattern, i, Size)) = Size - i + 1 /\ Len(<<>>) = 0
        BY RestOfPattern, EmptySeq
      <4>3. Size \in Nat /\ i \in Nat
        BY DEF ParserTypes
      <4> QED
        BY <4>1, <4>2, <4>3
    <3> QED
      BY <3>1
  <2> DEFINE p == Head(qs)
             rs == Tail(qs)
  <2>5. /\ p \in Pieces /\ rs \in Seq(Pieces)
        /\ TextOf(qs) = Cat(p.text, TextOf(rs)) /\ WritesOf(qs) = Cat(p.writes, WritesOf(rs))
        /\ UnknownPiece(qs) <=> ~p.known \/ UnknownPiece(rs)
    BY <2>1, <2>4, PiecesFirst
  <2> HIDE DEF p, rs
  <2>6. /\ p.text \in Str /\ p.text # <<>> /\ Len(p.text) \in Nat \ {0}
        /\ IsText(p) \/ \E n \in 2..Len(p.text) : IsItem(p, n)
    BY <2>5, PieceStarts
  <2>7. m_pattern[i] = p.text[1]
    <3>1. TextOf(rs) \in Str /\ SubSeq(m_pattern, i, Size) = Cat(p.text, TextOf(rs))
      BY <2>1, <2>3, <2>5, PiecesType
    <3>2. \A k \in 1..Len(p.text) : m_pattern[i + k - 1] = p.text[k]
      BY <2>6, <3>1, RestIs
    <3>3. 1 \in 1..Len(p.text) /\ i + 1 - 1 = i
      BY <2>6 DEF ParserTypes
    <3> QED
      BY <3>2, <3>3
  <2>8. IsText(p)
    <3>1. \A n : IsItem(p, n) => p.text[1] = Mark
      BY Zenon DEF IsItem
    <3> QED
      BY <2>6, <2>7, <3>1
  <2>9. \A k \in 1..Len(p.text) : p.text[k] # Mark
    <3>1. DOMAIN p.text = 1..Len(p.text)
      BY <2>6, LenProperties DEF Str
    <3>2. Mark \notin ToSet(p.text)
      BY <2>8 DEF IsText
    <3> QED
      BY <3>1, <3>2 DEF ToSet
  <2>10. p.writes = p.text /\ p.known
    BY <2>8 DEF IsText
  <2>11. SubSeq(m_pattern, i, Size) = Cat(p.text, TextOf(rs))
    BY <2>1, <2>3, <2>5
  <2>12. Cat(Cat(Rendering(vec), nstr), Cat(p.text, WritesOf(rs))) = WritesOf(ps)
    BY <2>1, <2>3, <2>5, <2>10
  <2>13. UnknownPiece(ps) <=> UnknownPart(vec) \/ UnknownPiece(rs)
    BY <2>1, <2>5, <2>10
  <2>14. Stands(ps, p.text, rs)
    BY <2>5, <2>6, <2>9, <2>11, <2>12, <2>13, Zenon DEF Stands
  <2> QED
    BY <2>6, <2>14
<1> QED
  BY <1>1, <1>2

\* An item that init() pushes is the next piece.
LEMMA ItemIsPiece ==
  ASSUME ParserTypes, AtItem, NEW ps, NEW lit, NEW qs, Stands(ps, lit, qs),
         PlainItem \/ ItemWithFormat \/ Unclosed
  PROVE  \E fmt \in Str :
            /\ PushItem(fmt, i + Len(Head(qs).text)) /\ Name \in Str
            /\ Written(Construct(Item(Name, fmt))) = Head(qs).writes
            /\ KnownName(Name) <=> Head(qs).known
            /\ SubSeq(m_pattern, i + Len(Head(qs).text), Size) = TextOf(Tail(qs))
<1> DEFINE p == Head(qs)
           t == TextOf(Tail(qs))
           size == Len(p.text)
<1>1. i <= Size /\ m_pattern[i] = Mark
  BY DEF AtItem, Is
<1>2. /\ qs # <<>> /\ \E n \in 2..size : IsItem(p, n)
      /\ SubSeq(m_pattern, i, Size) = Cat(p.text, t)
  BY <1>1, ItemAhead
<1>3. qs \in Seq(Pieces)
  BY DEF Stands
<1>4. p \in Pieces /\ Tail(qs) \in Seq(Pieces)
  BY <1>2, <1>3, PiecesFirst
<1>5. t \in Str /\ (t # <<>> => t[1] # Open /\ t[1] \notin NameChars)
  BY <1>4, PiecesType, PiecesStart
<1>6. PICK n \in 2..size : IsItem(p, n)
  BY <1>2
<1>7. p.text \in Str /\ size \in Nat /\ m_pattern \in Str /\ Size \in Nat /\ i \in Nat /\ i >= 1
      /\ Size = Len(m_pattern)
  BY <1>4, PieceStarts DEF ParserTypes, Size
<1> HIDE DEF p, t
<1>8. /\ NameEnd = i + n
      /\ Braced <=> n < size
      /\ Braced => FmtEnd = i + size - 1 /\ FmtEnd <= Size
  BY <1>1, <1>2, <1>4, <1>5, <1>6, ItemEnds
<1> HIDE DEF size
<1>9. SubSeq(m_pattern, i + size, Size) = t /\ Size - i + 1 = size + Len(t) /\ Len(t) \in Nat
  BY <1>2, <1>5, <1>7, RestIs DEF size
<1>10. \A k \in 1..size : m_pattern[(i - 1) + k] = p.text[k]
  <2>1. \A k \in 1..size : m_pattern[i + k - 1] = p.text[k]
    BY <1>2, <1>5, <1>7, RestIs DEF size
  <2>2. \A k \in 1..size : (i - 1) + k = i + k - 1
    BY <1>7
  <2> QED
    BY <2>1, <2>2
<1> DEFINE name == SubSeq(p.text, 2, n)
           fmt == SubSeq(p.text, n + 2, size - 1)
<1>11. Name = name /\ Name \in Str
  <2>1. SubSeq(m_pattern, (i - 1) + 2, (i - 1) + n) = SubSeq(p.text, 2, n)
    <3>1. i - 1 \in Nat /\ 2 \in Nat \ {0} /\ n \in Nat /\ n <= Len(p.text)
      BY <1>6, <1>7 DEF size
    <3> QED
      BY <1>7, <1>10, <3>1, SamePart DEF size
  <2>2. (i - 1) + 2 = i + 1 /\ (i - 1) + n = NameEnd - 1
    BY <1>6, <1>7, <1>8
  <2> QED
    BY <1>1, <2>1, <2>2, ItemSpelled DEF Name
<1>12. Written(Construct(Item(name, fmt))) = p.writes /\ (KnownName(name) <=> p.known)
  <2>1. /\ p.writes = Written(Construct(Item(name, fmt)))
        /\ p.known = KnownName(name)
    BY <1>6, Zenon DEF IsItem, size
  <2> QED
    BY <2>1, Zenon
<1>13. fmt \in Str
  <2>1. n + 2 \in Nat \ {0} /\ size - 1 \in Nat /\ size - 1 <= Len(p.text)
    BY <1>6, <1>7 DEF size
  <2> QED
    BY <1>7, <2>1, SubText
<1>14. PushItem(fmt, i + size)
  <2>1. CASE PlainItem
    <3>1. PushItem(<<>>, NameEnd) /\ ~Braced
      BY <2>1 DEF PlainItem
    <3>2. n = size
      BY <1>6, <1>7, <1>8, <3>1
    <3>3. fmt = <<>>
      <4>1. n + 2 \in Int /\ size - 1 \in Int /\ size - 1 < n + 2
        BY <1>7, <3>2
      <4> QED
        BY <4>1, SubSeqEmpty
    <3> QED
      BY <1>8, <3>1, <3>2, <3>3
  <2>2. CASE ItemWithFormat
    <3>1. /\ PushItem(SubSeq(m_pattern, NameEnd + 1, FmtEnd - 1), FmtEnd + 1)
          /\ Braced
      BY <2>2 DEF ItemWithFormat
    <3>2. SubSeq(m_pattern, (i - 1) + (n + 2), (i - 1) + (size - 1)) = fmt
      <4>1. i - 1 \in Nat /\ n + 2 \in Nat \ {0} /\ size - 1 \in Nat /\ size - 1 <= Len(p.text)
        BY <1>6, <1>7 DEF size
      <4> QED
        BY <1>7, <1>10, <4>1, SamePart DEF size
    <3>3. /\ NameEnd + 1 = (i - 1) + (n + 2) /\ FmtEnd - 1 = (i - 1) + (size - 1)
          /\ FmtEnd + 1 = i + size
      BY <1>6, <1>7, <1>8, <3>1
    <3> QED
      BY <3>1, <3>2, <3>3
  <2>3. CASE Unclosed
    <3>1. Braced /\ FmtEnd > Size
      BY <2>3 DEF Unclosed
    <3>2. FmtEnd \in Nat
      BY <1>6, <1>7, <1>8, <3>1
    <3> QED
      BY <1>7, <1>8, <3>1, <3>2
  <2> QED
    BY <2>1, <2>2, <2>3
<1> QED
  BY <1>9, <1>11, <1>12, <1>13, <1>14 DEF size, p, t

\* The pieces go on after an item.
LEMMA ItemGoesOn ==
  ASSUME ParserTypes, AtItem, NEW ps, NEW lit, NEW qs, Stands(ps, lit, qs),
         PlainItem \/ ItemWithFormat \/ Unclosed
  PROVE  Stands(ps, <<>>, Tail(qs))' /\ m_error' = m_error
<1> DEFINE p == Head(qs)
           rs == Tail(qs)
<1>1. PICK fmt \in Str :
         /\ PushItem(fmt, i + Len(p.text)) /\ Name \in Str
         /\ Written(Construct(Item(Name, fmt))) = p.writes
         /\ KnownName(Name) <=> p.known
         /\ SubSeq(m_pattern, i + Len(p.text), Size) = TextOf(rs)
  BY ItemIsPiece
<1>2. /\ lit = <<>> /\ qs # <<>>
  BY ItemAhead DEF AtItem, Is
<1>3. /\ qs \in Seq(Pieces)
      /\ Cat(Cat(Rendering(vec), nstr), Cat(lit, WritesOf(qs))) = WritesOf(ps)
      /\ UnknownPiece(ps) <=> UnknownPart(vec) \/ UnknownPiece(qs)
  BY DEF Stands
<1>4. /\ p \in Pieces /\ rs \in Seq(Pieces)
      /\ WritesOf(qs) = Cat(p.writes, WritesOf(rs))
      /\ UnknownPiece(qs) <=> ~p.known \/ UnknownPiece(rs)
  BY <1>2, <1>3, PiecesFirst
<1> HIDE DEF p, rs
<1>5. /\ vec' = Append(Flushed, Item(Name, fmt)) /\ nstr' = <<>> /\ i' = i + Len(p.text)
      /\ m_pattern' = m_pattern /\ m_error' = m_error
  BY <1>1 DEF PushItem
<1> DEFINE part == Item(Name, fmt)
<1>6. part \in Parts /\ part.type = 1 /\ part.str = Name /\ Render[part] = p.writes
  <2>1. part \in Parts /\ part.type = 1 /\ part.str = Name
    BY <1>1 DEF Item, Parts
  <2>2. Render[part] = Written(Construct(part))
    BY <2>1 DEF Render
  <2> QED
    BY <1>1, <2>1, <2>2
<1> HIDE DEF part
<1>7. /\ Flushed \in Seq(Parts) /\ Rendering(vec) \in Str /\ Rendering(Flushed) \in Str
      /\ Rendering(Flushed) = Cat(Rendering(vec), nstr)
      /\ UnknownPart(Flushed) <=> UnknownPart(vec)
  BY RenderingFlushed
<1>8. /\ Rendering(Append(Flushed, part)) = Cat(Rendering(Flushed), p.writes)
      /\ UnknownPart(Append(Flushed, part)) <=> UnknownPart(Flushed) \/ ~KnownName(Name)
  BY <1>6, <1>7, RenderingAppend
<1>9. p.writes \in Str /\ WritesOf(rs) \in Str /\ Cat(p.writes, WritesOf(rs)) \in Str
  BY <1>4, PieceStarts, PiecesType, TextsConcatenate
<1>10. Cat(Cat(Rendering(vec'), nstr'), Cat(<<>>, WritesOf(rs))) = WritesOf(ps)
  <2>1. Rendering(vec') = Cat(Rendering(Flushed), p.writes)
    BY <1>5, <1>8 DEF part
  <2>2. Cat(Rendering(Flushed), p.writes) \in Str
    BY <1>7, <1>9, TextsConcatenate
  <2>3. Cat(Rendering(vec'), nstr') = Cat(Rendering(Flushed), p.writes)
    BY <1>5, <2>1, <2>2, TextsConcatenate
  <2>4. Cat(<<>>, WritesOf(rs)) = WritesOf(rs)
    BY <1>9, TextsConcatenate
  <2>5. Cat(Cat(Rendering(Flushed), p.writes), WritesOf(rs)) = Cat(Rendering(Flushed), Cat(p.writes, WritesOf(rs)))
    BY <1>7, <1>9, TextsReassociated
  <2>6. Cat(lit, WritesOf(qs)) = Cat(p.writes, WritesOf(rs))
    BY <1>2, <1>4, <1>9, TextsConcatenate
  <2> QED
    BY <1>3, <1>7, <2>3, <2>4, <2>5, <2>6
<1>11. UnknownPiece(ps) <=> UnknownPart(vec') \/ UnknownPiece(rs)
  BY <1>1, <1>3, <1>4, <1>5, <1>7, <1>8 DEF part
<1>12. SubSeq(m_pattern', i', Size') = Cat(<<>>, TextOf(rs))
  <2>1. TextOf(rs) \in Str
    BY <1>4, PiecesType
  <2>2. Cat(<<>>, TextOf(rs)) = TextOf(rs)
    BY <2>1, TextsConcatenate
  <2>3. Size' = Size
    BY <1>5 DEF Size
  <2> QED
    BY <1>1, <1>5, <2>2, <2>3
<1>13. <<>> \in Str /\ \A k \in 1..Len(<<>>) : <<>>[k] # Mark
  BY EmptySeq DEF Str
<1>14. Stands(ps, <<>>, rs)'
  BY <1>4, <1>10, <1>11, <1>12, <1>13 DEF Stands, Rendering, UnknownPart
<1> QED
  BY <1>5, <1>14 DEF rs

\* At the end no piece is left, and the items write what the pieces do.
LEMMA FinishRenders ==
  ASSUME ParserTypes, Finish, ~m_error, NEW ps, NEW lit, NEW qs, Stands(ps, lit, qs)
  PROVE  (m_error' <=> UnknownPiece(ps)) /\ Format' = WritesOf(ps)
<1>1. /\ lit \in Str /\ qs \in Seq(Pieces)
      /\ SubSeq(m_pattern, i, Size) = Cat(lit, TextOf(qs))
      /\ Cat(Cat(Rendering(vec), nstr), Cat(lit, WritesOf(qs))) = WritesOf(ps)
      /\ UnknownPiece(ps) <=> UnknownPart(vec) \/ UnknownPiece(qs)
  BY DEF Stands
<1>2. lit = <<>> /\ qs = <<>>
  <2>1. TextOf(qs) \in Str
    BY <1>1, PiecesType
  <2>2. Len(lit) \in Nat /\ Len(TextOf(qs)) \in Nat /\ Size - i + 1 = Len(lit) + Len(TextOf(qs))
    BY <1>1, <2>1, RestIs
  <2>3. Size \in Nat /\ i \in Nat /\ i > Size
    BY DEF ParserTypes, Finish
  <2>4. Len(lit) = 0 /\ Len(TextOf(qs)) = 0
    BY <2>2, <2>3
  <2>5. lit = <<>> /\ TextOf(qs) = <<>>
    BY <1>1, <2>1, <2>4, EmptySeq DEF Str
  <2> QED
    BY <1>1, <2>5, PiecesStart
<1>3. WritesOf(qs) = <<>> /\ ~UnknownPiece(qs)
  BY <1>2, MappedEmpty DEF WritesOf, UnknownPiece
<1>4. /\ Flushed \in Seq(Parts) /\ Rendering(Flushed) \in Str
      /\ Rendering(Flushed) = Cat(Rendering(vec), nstr)
      /\ UnknownPart(Flushed) <=> UnknownPart(vec)
  BY RenderingFlushed
<1>5. WritesOf(ps) = Rendering(Flushed)
  <2>1. Cat(<<>>, <<>>) = <<>>
    BY EmptySeq, TextsConcatenate DEF Str
  <2>2. Cat(Rendering(Flushed), <<>>) = Rendering(Flushed)
    BY <1>4, TextsConcatenate
  <2> QED
    BY <1>1, <1>2, <1>3, <1>4, <2>1, <2>2
<1>6. m_error' <=> UnknownPiece(ps)
  <2>1. m_error' <=> \E v \in ToSet(Flushed) : v.type = 1 /\ ~KnownName(v.str)
    BY Zenon DEF Finish
  <2>2. (\E v \in ToSet(Flushed) : v.type = 1 /\ ~KnownName(v.str)) <=> UnknownPart(Flushed)
    BY Zenon DEF ToSet, UnknownPart
  <2> QED
    BY <1>1, <1>3, <1>4, <2>1, <2>2
<1>7. Format' = Rendering(Flushed)
  <2> DEFINE seq == [k \in DOMAIN Flushed |-> Construct(Flushed[k])]
  <2>1. m_items'.seq = seq
    BY DEF Finish
  <2>2. DOMAIN seq = DOMAIN Flushed /\ \A k \in DOMAIN Flushed : seq[k] = Construct(Flushed[k])
    OBVIOUS
  <2>3. \A k \in DOMAIN Flushed : Flushed[k] \in Parts
    BY <1>4, ElementOfSeq, LenProperties
  <2>4. \A k \in DOMAIN Flushed : Written(seq[k]) = Render[Flushed[k]]
    BY <2>2, <2>3 DEF Render
  <2> HIDE DEF seq
  <2>5. [k \in DOMAIN seq |-> Written(seq[k])] = [k \in DOMAIN Flushed |-> Render[Flushed[k]]]
    BY <2>2, <2>4
  <2>6. Format' = FlattenSeq([k \in DOMAIN m_items'.seq |-> Written(m_items'.seq[k])])
    BY DEF Format
  <2> QED
    BY <2>1, <2>5, <2>6, Zenon DEF Rendering, Mapped
<1> QED
  BY <1>5, <1>6, <1>7

\* Every step of init() keeps the invariant.
LEMMA RenderInvNext == RenderInv /\ [FormatNext]_formatVars => RenderInv'
<1> SUFFICES ASSUME RenderInv, [FormatNext]_formatVars PROVE RenderInv'
  OBVIOUS
<1>1. /\ SpellInv /\ ParserTypes /\ (m_items.made => i > Size)
      /\ \A ps \in Seq(Pieces) : m_pattern = TextOf(ps) => Renders(ps)
  BY DEF RenderInv, SpellInv
<1>2. SpellInv'
  BY <1>1, SpellInvNext
<1>3. Size \in Nat /\ i \in Nat
  BY <1>1 DEF ParserTypes
<1>4. m_pattern' = m_pattern /\ Size' = Size
  BY DEF FormatNext, formatVars, Literal, Percent, PlainItem, ItemWithFormat, Unclosed, PushItem, Finish, Size
<1>5. ASSUME i <= Size, UNCHANGED m_items,
             \A ps \in Seq(Pieces) : m_pattern = TextOf(ps) /\ ~m_error /\ (\E lit, qs : Stands(ps, lit, qs))
                                       => ~m_error' /\ \E lit, qs : Stands(ps, lit, qs)'
      PROVE  RenderInv'
  <2>1. ~m_items.made /\ m_items' = m_items
    BY <1>1, <1>3, <1>5
  <2>2. ASSUME NEW ps \in Seq(Pieces), m_pattern = TextOf(ps)
        PROVE  Renders(ps)'
    <3>1. ~m_error /\ \E lit, qs : Stands(ps, lit, qs)
      BY <1>1, <2>1, <2>2 DEF Renders
    <3>2. ~m_error' /\ \E lit, qs : Stands(ps, lit, qs)'
      BY <1>5, <2>2, <3>1
    <3> QED
      BY <2>1, <3>2 DEF Renders
  <2> QED
    BY <1>2, <1>4, <2>1, <2>2 DEF RenderInv
<1>6. CASE Literal
  <2>1. /\ i <= Size /\ m_pattern[i] # Mark /\ UNCHANGED m_items
        /\ nstr' = Append(nstr, m_pattern[i]) /\ i' = i + 1 /\ vec' = vec /\ m_error' = m_error
    BY <1>6 DEF Literal, Is
  <2>2. ASSUME NEW ps \in Seq(Pieces), ~m_error, NEW lit, NEW qs, Stands(ps, lit, qs)
        PROVE  ~m_error' /\ \E l, rs : Stands(ps, l, rs)'
    <3>1. PICK l, rs : Stands(ps, l, rs) /\ l # <<>>
      BY <1>1, <2>1, <2>2, TextAhead
    <3>2. Stands(ps, Tail(l), rs)'
      BY <1>1, <1>4, <2>1, <3>1, TextGoesOn
    <3> QED
      BY <2>1, <2>2, <3>2
  <2> QED
    BY <1>5, <2>1, <2>2
<1>7. CASE Percent
  <2>1. /\ i <= Size /\ m_pattern[i] = Mark /\ i + 1 <= Size /\ m_pattern[i + 1] = Mark /\ UNCHANGED m_items
    BY <1>7 DEF Percent, Is
  <2>2. ASSUME NEW ps \in Seq(Pieces), NEW lit, NEW qs, Stands(ps, lit, qs)
        PROVE  FALSE
    <3>1. /\ qs # <<>> /\ \E n \in 2..Len(Head(qs).text) : IsItem(Head(qs), n)
          /\ SubSeq(m_pattern, i, Size) = Cat(Head(qs).text, TextOf(Tail(qs)))
      BY <1>1, <2>1, <2>2, ItemAhead
    <3>2. Head(qs) \in Pieces /\ Tail(qs) \in Seq(Pieces)
      BY <2>2, <3>1, PiecesFirst DEF Stands
    <3>3. /\ TextOf(Tail(qs)) \in Str
          /\ TextOf(Tail(qs)) # <<>> => TextOf(Tail(qs))[1] # Open /\ TextOf(Tail(qs))[1] \notin NameChars
      BY <3>2, PiecesType, PiecesStart
    <3>4. m_pattern[i + 1] # Mark
      BY <1>1, <2>1, <3>1, <3>2, <3>3, ItemEnds
    <3> QED
      BY <2>1, <3>4
  <2> QED
    BY <1>5, <2>1, <2>2
<1>8. CASE PlainItem \/ ItemWithFormat \/ Unclosed
  <2>1. i <= Size /\ AtItem /\ UNCHANGED m_items
    BY <1>8 DEF PlainItem, ItemWithFormat, Unclosed, AtItem, Is, PushItem
  <2>2. ASSUME NEW ps \in Seq(Pieces), ~m_error, NEW lit, NEW qs, Stands(ps, lit, qs)
        PROVE  ~m_error' /\ \E l, rs : Stands(ps, l, rs)'
    <3>1. Stands(ps, <<>>, Tail(qs))' /\ m_error' = m_error
      BY <1>1, <1>8, <2>1, <2>2, ItemGoesOn
    <3> QED
      BY <2>2, <3>1
  <2> QED
    BY <1>5, <2>1, <2>2
<1>9. CASE Finish
  <2>1. /\ i > Size /\ ~m_items.made /\ m_items'.made /\ i' = i
    BY <1>9 DEF Finish
  <2>2. ASSUME NEW ps \in Seq(Pieces), m_pattern = TextOf(ps)
        PROVE  Renders(ps)'
    <3>1. ~m_error /\ \E lit, qs : Stands(ps, lit, qs)
      BY <1>1, <2>1, <2>2 DEF Renders
    <3>2. (m_error' <=> UnknownPiece(ps)) /\ Format' = WritesOf(ps)
      BY <1>1, <1>9, <3>1, FinishRenders
    <3> QED
      BY <2>1, <3>2 DEF Renders
  <2> QED
    BY <1>2, <1>4, <2>1, <2>2 DEF RenderInv
<1>10. CASE UNCHANGED formatVars
  <2>1. ASSUME NEW ps \in Seq(Pieces), m_pattern = TextOf(ps)
        PROVE  Renders(ps)'
    <3>1. Renders(ps)
      BY <1>1, <2>1
    <3>2. \A lit, qs : Stands(ps, lit, qs)' <=> Stands(ps, lit, qs)
      BY <1>10 DEF Stands, formatVars, Size, Rendering, UnknownPart
    <3>3. Format' = Format /\ m_items' = m_items /\ m_error' = m_error
      BY <1>10 DEF formatVars, Format
    <3> QED
      BY <3>1, <3>2, <3>3 DEF Renders
  <2> QED
    BY <1>1, <1>2, <1>4, <1>10, <2>1 DEF RenderInv, formatVars
<1> QED
  BY <1>6, <1>7, <1>8, <1>9, <1>10 DEF FormatNext

\* A pattern put together from texts and items, for every alphabet and any
\* number of pieces, writes what the pieces stand for, one after the other,
\* and init() reports an error exactly when a piece is unknown.
THEOREM PiecesRendered == FormatSpec => []RendersAsWritten
<1>1. ASSUME RenderInv
      PROVE  RendersAsWritten
  <2> SUFFICES ASSUME m_items.made, NEW ps \in PieceSeqs,
                      m_pattern = FlattenSeq([k \in DOMAIN ps |-> ps[k].text])
               PROVE  /\ m_error = (\E k \in DOMAIN ps : ~ps[k].known)
                      /\ Format = FlattenSeq([k \in DOMAIN ps |-> ps[k].writes])
    BY Zenon DEF RendersAsWritten
  <2>1. ps \in Seq(Pieces)
    <3>1. PICK n \in 0..MaxPieces : ps \in [1..n -> Pieces]
      BY DEF PieceSeqs
    <3>2. n \in Nat
      BY FormatAssumption
    <3> QED
      BY <3>1, <3>2
  <2>2. \A k \in DOMAIN ps : PieceText[ps[k]] = ps[k].text /\ PieceWrites[ps[k]] = ps[k].writes
    BY <2>1, ElementOfSeq, LenProperties DEF PieceText, PieceWrites
  <2>3. /\ TextOf(ps) = FlattenSeq([k \in DOMAIN ps |-> ps[k].text])
        /\ WritesOf(ps) = FlattenSeq([k \in DOMAIN ps |-> ps[k].writes])
    <3>1. /\ [k \in DOMAIN ps |-> PieceText[ps[k]]] = [k \in DOMAIN ps |-> ps[k].text]
          /\ [k \in DOMAIN ps |-> PieceWrites[ps[k]]] = [k \in DOMAIN ps |-> ps[k].writes]
      BY <2>2
    <3> QED
      BY <3>1, Zenon DEF TextOf, WritesOf, Mapped
  <2>4. (m_error <=> UnknownPiece(ps)) /\ Format = WritesOf(ps)
    BY <1>1, <2>1, <2>3 DEF RenderInv, Renders
  <2>5. m_error = (\E k \in DOMAIN ps : ~ps[k].known)
    <3>1. m_error \in BOOLEAN
      BY <1>1 DEF RenderInv, SpellInv, ParserTypes
    <3>2. m_error <=> \E k \in DOMAIN ps : ~ps[k].known
      BY <2>4 DEF UnknownPiece
    <3> QED
      BY <3>1, <3>2
  <2> QED
    BY <2>3, <2>4, <2>5
<1> QED
  BY <1>1, RenderInvInit, RenderInvNext, PTL DEF FormatSpec
----------------------------------------------------------------------------
(* LexicalCast: what is written is read back.                              *)

\* An enumeration of a finite set meets every element, and each one once.
LEMMA Enumerates ==
  ASSUME NEW S, IsFiniteSet(S), NEW s \in SetToSeqs(S)
  PROVE  /\ Cardinality(S) \in Nat /\ DOMAIN s = 1..Cardinality(S)
         /\ \A x \in DOMAIN s : s[x] \in S
         /\ \A x, y \in DOMAIN s : s[x] = s[y] => x = y
         /\ \A e \in S : \E x \in DOMAIN s : s[x] = e
<1> DEFINE D == 1..Cardinality(S)
<1>1. Cardinality(S) \in Nat
  BY FS_CardinalityType
<1>2. Cardinality(D) = Cardinality(S)
  BY <1>1, FS_Interval
<1>3. s \in [D -> S] /\ \A x, y \in D : x # y => s[x] # s[y]
  BY DEF SetToSeqs
<1> HIDE DEF D
<1>4. s \in Injection(D, S)
  BY <1>3 DEF Injection, IsInjective
<1>5. s \in Surjection(D, S)
  BY <1>2, <1>4, FS_Injection
<1>6. \A e \in S : \E x \in D : s[x] = e
  BY <1>5 DEF Surjection
<1> QED
  BY <1>1, <1>3, <1>6 DEF D

\* An element that a file can hold is read back from the text of its node.
LEMMA ElementBack ==
  ASSUME NEW T \in Scalars, NEW e \in Elems(T)
  PROVE  ElemFrom[T][Emit[NodeOf(T, e)]] = Kept(T, e) /\ Kept(T, e) # Throw
<1>1. ElementAssumption
  BY LexicalCastAssumption
<1>2. CASE T = "int"
  <2>1. Kept(T, e) = e
    BY <1>2, Zenon DEF Kept
  <2>2. e # Throw
    BY <1>2 DEF Elems
  <2> QED
    BY <1>1, <1>2, <2>1, <2>2 DEF ElementAssumption, NodeOf
<1>3. CASE T = "string" /\ e = Blank
  <2>1. Kept(T, e) = Tilde
    BY <1>3 DEF Kept
  <2>2. Tilde \in Texts
    BY <1>1 DEF ElementAssumption
  <2> QED
    BY <1>1, <1>3, <2>1, <2>2 DEF ElementAssumption, NodeOf
<1>4. CASE T = "string" /\ e # Blank
  <2>1. Kept(T, e) = e
    BY <1>4 DEF Kept
  <2>2. PICK n \in DOMAIN Emit : e = ElemFrom["string"][Emit[n]]
    BY <1>4 DEF Elems
  <2>3. Emit[n] \in Texts /\ Load[Emit[n]] = n
    BY <1>1 DEF ElementAssumption
  <2>4. e = Emit[n] /\ e \in Texts
    BY <1>1, <2>2, <2>3 DEF ElementAssumption
  <2> QED
    BY <1>1, <1>4, <2>1, <2>3, <2>4 DEF ElementAssumption, NodeOf
<1> QED
  BY <1>2, <1>3, <1>4 DEF Scalars

\* So are elements in a row.
LEMMA ElementsBack ==
  ASSUME NEW T \in Scalars, NEW s, \A x \in DOMAIN s : s[x] \in Elems(T)
  PROVE  LET e == Elements(T, NodesOf(T, s)) IN
         /\ e = [x \in DOMAIN s |-> Kept(T, s[x])]
         /\ Throw \notin ToSet(e)
<1> DEFINE nodes == NodesOf(T, s)
           e == Elements(T, nodes)
<1>1. DOMAIN nodes = DOMAIN s /\ \A x \in DOMAIN s : nodes[x] = NodeOf(T, s[x])
  BY DEF NodesOf
<1> HIDE DEF nodes
<1>2. e = [x \in DOMAIN s |-> ElemFrom[T][Emit[nodes[x]]]]
  BY <1>1 DEF Elements
<1>3. \A x \in DOMAIN s : ElemFrom[T][Emit[nodes[x]]] = Kept(T, s[x]) /\ Kept(T, s[x]) # Throw
  BY <1>1, ElementBack
<1>4. e = [x \in DOMAIN s |-> Kept(T, s[x])]
  BY <1>2, <1>3
<1> HIDE DEF e
<1>5. Throw \notin ToSet(e)
  BY <1>3, <1>4 DEF ToSet
<1> QED
  BY <1>4, <1>5 DEF e, nodes

\* Vectors and lists.
LEMMA ListBack ==
  ASSUME NEW T \in Scalars, NEW v \in Seq(Elems(T)), NEW t \in VectorTo(T, v) \cup ListTo(T, v)
  PROVE  /\ VectorFrom(T, t) = [x \in DOMAIN v |-> Kept(T, v[x])]
         /\ ListFrom(T, t) = [x \in DOMAIN v |-> Kept(T, v[x])]
<1>1. \A x \in DOMAIN v : v[x] \in Elems(T)
  BY ElementOfSeq, LenProperties
<1>2. Nodes(t) = NodesOf(T, v)
  <2>1. CASE t = Sequence(NodesOf(T, v))
    BY <2>1 DEF Nodes, Sequence
  <2>2. CASE v = <<>> /\ t = [kind |-> "null", of |-> <<>>]
    <3>1. Nodes(t) = <<>>
      BY <2>2 DEF Nodes
    <3>2. NodesOf(T, <<>>) = <<>>
      BY DEF NodesOf
    <3> QED
      BY <2>2, <3>1, <3>2
  <2> QED
    BY <2>1, <2>2 DEF VectorTo, ListTo
<1> QED
  BY <1>1, <1>2, ElementsBack DEF VectorFrom, ListFrom, OrThrow

\* Sets, written in any order.
LEMMA SetBack ==
  ASSUME NEW T \in Scalars, NEW v \in SUBSET Elems(T), IsFiniteSet(v),
         NEW t \in SetTo(T, v) \cup USetTo(T, v)
  PROVE  /\ SetFrom(T, t) = {Kept(T, e) : e \in v}
         /\ USetFrom(T, t) = {Kept(T, e) : e \in v}
<1>1. PICK s \in SetToSeqs(v) : t = Sequence(NodesOf(T, s))
  BY DEF SetTo, USetTo
<1>2. /\ \A x \in DOMAIN s : s[x] \in v
      /\ \A e \in v : \E x \in DOMAIN s : s[x] = e
  BY Enumerates
<1>3. Nodes(t) = NodesOf(T, s)
  BY <1>1 DEF Nodes, Sequence
<1> DEFINE e == Elements(T, NodesOf(T, s))
<1>4. e = [x \in DOMAIN s |-> Kept(T, s[x])] /\ Throw \notin ToSet(e)
  BY <1>2, ElementsBack
<1> HIDE DEF e
<1>5. ToSet(e) = {Kept(T, s[x]) : x \in DOMAIN s}
  BY <1>4 DEF ToSet
<1>6. {Kept(T, s[x]) : x \in DOMAIN s} = {Kept(T, d) : d \in v}
  BY <1>2
<1>7. OrThrow(e, ToSet(e)) = {Kept(T, d) : d \in v}
  BY <1>4, <1>5, <1>6 DEF OrThrow
<1> QED
  BY <1>3, <1>7 DEF SetFrom, USetFrom, e

\* Maps, written in any order of their keys.
LEMMA MapBack ==
  ASSUME NEW T \in Scalars, NEW v, v \in [DOMAIN v -> Elems(T)], IsFiniteSet(DOMAIN v),
         NEW t \in MapOf(T, v)
  PROVE  /\ MapFrom(T, t) = [k \in DOMAIN v |-> Kept(T, v[k])]
         /\ UMapFrom(T, t) = [k \in DOMAIN v |-> Kept(T, v[k])]
<1>1. PICK s \in SetToSeqs(DOMAIN v) :
         t = [kind |-> "map", of |-> [x \in DOMAIN s |-> <<s[x], NodeOf(T, v[s[x]])>>]]
  BY DEF MapOf
<1> DEFINE pairs == [x \in DOMAIN s |-> <<s[x], NodeOf(T, v[s[x]])>>]
           K == DOMAIN v
           N == Cardinality(K)
<1>2. /\ N \in Nat /\ DOMAIN s = 1..N
      /\ \A x \in DOMAIN s : s[x] \in K
      /\ \A x, y \in DOMAIN s : s[x] = s[y] => x = y
      /\ \A k \in K : \E x \in DOMAIN s : s[x] = k
  BY Enumerates
<1>3. Nodes(t) = <<>> /\ Pairs(t) = pairs
  BY <1>1 DEF Nodes, Pairs
<1>4. /\ DOMAIN pairs = 1..N
      /\ \A x \in 1..N : pairs[x][1] = s[x] /\ pairs[x][2] = NodeOf(T, v[s[x]])
  BY <1>2
<1>5. \A k \in K : v[k] \in Elems(T)
  OBVIOUS
<1> HIDE DEF pairs, N, K
<1> DEFINE e == [x \in DOMAIN pairs |-> ElemFrom[T][Emit[pairs[x][2]]]]
<1>6. \A x \in 1..N : e[x] = Kept(T, v[s[x]]) /\ e[x] # Throw
  <2> SUFFICES ASSUME NEW x \in 1..N PROVE e[x] = Kept(T, v[s[x]]) /\ e[x] # Throw
    OBVIOUS
  <2>1. v[s[x]] \in Elems(T)
    BY <1>2, <1>5
  <2>2. e[x] = ElemFrom[T][Emit[NodeOf(T, v[s[x]])]]
    BY <1>4
  <2> QED
    BY <2>1, <2>2, ElementBack
<1>7. DOMAIN e = 1..N
  BY <1>4
<1> HIDE DEF e
<1>8. Throw \notin ToSet(e)
  BY <1>6, <1>7 DEF ToSet
<1>9. ASSUME NEW x \in 1..N PROVE FirstOf(pairs, s[x]) = x
  <2>1. \A y \in 1..N : pairs[y][1] = s[x] <=> y = x
    BY <1>2, <1>4
  <2>2. \A y \in 1..(x - 1) : y \in 1..N /\ y # x
    BY <1>2
  <2>3. \A z \in 1..N : (pairs[z][1] = s[x] /\ \A y \in 1..(z - 1) : pairs[y][1] # s[x]) <=> z = x
    BY <2>1, <2>2
  <2>4. (CHOOSE z \in 1..N : pairs[z][1] = s[x] /\ \A y \in 1..(z - 1) : pairs[y][1] # s[x]) = x
    BY <2>3, Zenon
  <2> QED
    BY <1>4, <2>4, Zenon DEF FirstOf
<1>10. {pairs[x][1] : x \in 1..N} = K
  BY <1>2, <1>4
<1>11. ASSUME NEW k \in K PROVE e[FirstOf(pairs, k)] = Kept(T, v[k])
  <2>1. PICK x \in 1..N : s[x] = k
    BY <1>2
  <2> QED
    BY <1>6, <1>9, <2>1
<1>12. ByKey(T, pairs) = [k \in {pairs[x][1] : x \in 1..N} |-> e[FirstOf(pairs, k)]]
  BY <1>4, <1>8, Zenon DEF ByKey, OrThrow, e
<1>13. ByKey(T, pairs) = [k \in K |-> Kept(T, v[k])]
  BY <1>10, <1>11, <1>12
<1> QED
  BY <1>3, <1>13 DEF MapFrom, UMapFrom, K

----------------------------------------------------------------------------
(* Definitions of loggers.                                                 *)

\* The k-th of the numbers from 1 to n.
LEMMA NthNumber ==
  ASSUME NEW n \in Nat, NEW k \in 1..n
  PROVE  Nth(1..n, k) = k
<1>1. ASSUME NEW x \in 1..n
      PROVE  Cardinality({y \in 1..n : y <= x}) = x
  <2>1. {y \in 1..n : y <= x} = 1..x
    OBVIOUS
  <2>2. Cardinality(1..x) = x
    BY FS_Interval
  <2> QED BY <2>1, <2>2
<1>2. \A x \in 1..n : Cardinality({y \in 1..n : y <= x}) = k <=> x = k
  BY <1>1
<1> QED BY <1>2, Zenon DEF Nth

\* LogLevel::FromString() reads what ToString() writes, and nothing as no
\* level.
LEMMA LevelBack ==
  ASSUME NEW level \in 0..FATAL
  PROVE  LogLevel_FromString(Or(KnownLevel(level), Blank)) = level
<1>1. DOMAIN LevelNames = 1..5 /\ DOMAIN lower = 1..5
  BY DEF LevelNames, lower
<1>2. /\ LevelNames[1] = "DEBUG" /\ LevelNames[2] = "INFO" /\ LevelNames[3] = "WARN"
      /\ LevelNames[4] = "ERROR" /\ LevelNames[5] = "FATAL"
      /\ lower[1] = "debug" /\ lower[2] = "info" /\ lower[3] = "warn"
      /\ lower[4] = "error" /\ lower[5] = "fatal"
  BY DEF LevelNames, lower
<1>3. \A l \in 1..5 : l = 1 \/ l = 2 \/ l = 3 \/ l = 4 \/ l = 5
  OBVIOUS
<1>4. \A str : LogLevel_FromString(str) = IF \E l \in 1..5 : str \in {LevelNames[l], lower[l]}
                                          THEN CHOOSE l \in 1..5 : str \in {LevelNames[l], lower[l]}
                                          ELSE UNKNOW
  BY <1>1, Zenon DEF LogLevel_FromString
<1>5. CASE level = UNKNOW
  <2>1. Or(KnownLevel(level), Blank) = Blank
    BY <1>5, Zenon DEF Or, KnownLevel
  <2>2. /\ Blank # "DEBUG" /\ Blank # "INFO" /\ Blank # "WARN" /\ Blank # "ERROR" /\ Blank # "FATAL"
        /\ Blank # "debug" /\ Blank # "info" /\ Blank # "warn" /\ Blank # "error" /\ Blank # "fatal"
    BY Zenon DEF Blank
  <2>3. ~\E l \in 1..5 : Blank \in {LevelNames[l], lower[l]}
    BY <1>2, <1>3, <2>2
  <2>4. LogLevel_FromString(Blank) = UNKNOW
    BY <1>4, <2>3, Zenon
  <2> QED BY <1>5, <2>1, <2>4
<1>6. CASE level # UNKNOW
  <2>1. level \in 1..5
    BY <1>6 DEF UNKNOW, FATAL
  <2> DEFINE str == LogLevel_ToString(level)
  <2>2. str = LevelNames[level]
    <3>1. level \in DOMAIN LevelNames
      BY <1>1, <2>1
    <3> QED BY <3>1, Zenon DEF LogLevel_ToString
  <2>3. Or(KnownLevel(level), Blank) = str
    <3>1. str # Undef
      BY LexicalCastAssumption
    <3> QED BY <1>6, <3>1, Zenon DEF Or, KnownLevel
  <2> HIDE DEF str
  <2>4. \A l \in 1..5 : str \in {LevelNames[l], lower[l]} <=> l = level
    BY <1>2, <1>3, <2>1, <2>2
  <2>5. (CHOOSE l \in 1..5 : str \in {LevelNames[l], lower[l]}) = level
    BY <2>1, <2>4, Zenon
  <2>6. LogLevel_FromString(str) = level
    BY <1>4, <2>1, <2>4, <2>5, Zenon
  <2> QED BY <2>3, <2>6
<1> QED BY <1>5, <1>6

\* An appender is read back but for its level, and a file it does not write.
LEMMA AppenderBack ==
  ASSUME NEW a \in AppenderDefs
  PROVE  /\ Wanted(AppenderTo(a))
         /\ AppenderFrom(AppenderTo(a)) = Bare(a)
         /\ Bare(a) \in AppenderDefs
<1> DEFINE y == AppenderTo(a)
           f == IF a.type = File THEN a.file ELSE Blank
<1>1. a.type \in {File, Stdout} /\ a.file \in Strings /\ a.formatter \in Strings
  BY DEF AppenderDefs
<1>2. Bare(a) = [type |-> a.type, file |-> f, level |-> UNKNOW, formatter |-> a.formatter]
  <2>1. Bare(a) = [a EXCEPT !.level = UNKNOW, !.file = f]
    BY Zenon DEF Bare
  <2>2. a = [type |-> a.type, file |-> a.file, level |-> a.level, formatter |-> a.formatter]
    BY DEF AppenderDefs
  <2> HIDE DEF f
  <2> QED BY <2>1, <2>2
<1>3. Undef \notin Strings /\ File # Stdout
  BY LexicalCastAssumption DEF File, Stdout
<1>4. /\ y.type = a.type /\ y.file = IF a.type = File THEN a.file ELSE Undef
      /\ y.formatter = IF a.formatter = Blank THEN Undef ELSE a.formatter
  BY DEF AppenderTo, NonEmpty
<1> HIDE DEF y
<1>5. Wanted(y)
  BY <1>1, <1>3, <1>4 DEF Wanted
<1>6. AppenderFrom(y) = [type |-> a.type, level |-> UNKNOW, formatter |-> a.formatter,
                         file |-> f]
  BY <1>1, <1>3, <1>4 DEF AppenderFrom, Or
<1>7. f \in Strings /\ UNKNOW \in 0..FATAL
  BY <1>1 DEF Strings, UNKNOW, FATAL
<1> HIDE DEF f
<1>8. Bare(a) \in AppenderDefs
  BY <1>1, <1>2, <1>7 DEF AppenderDefs
<1> QED BY <1>2, <1>5, <1>6, <1>8 DEF y

\* So is a definition, but for what its appenders lose.
LEMMA DefineBack ==
  ASSUME NEW d \in Defines
  PROVE  /\ LogDefineFrom(LogDefineTo(d)) = Kept("LogDefine", d)
         /\ Kept("LogDefine", d) \in Defines /\ Kept("LogDefine", d).name = d.name
<1> DEFINE as == d.appenders
           size == Len(as)
           ys == [x \in DOMAIN as |-> AppenderTo(as[x])]
           bare == [x \in DOMAIN as |-> Bare(as[x])]
           y == LogDefineTo(d)
<1>1. /\ d.name \in Strings /\ d.level \in 0..FATAL /\ d.formatter \in Strings
      /\ as \in Seq(AppenderDefs)
      /\ d = [name |-> d.name, level |-> d.level, formatter |-> d.formatter, appenders |-> as]
  BY DEF Defines
<1>2. DOMAIN as = 1..size /\ size \in Nat /\ \A x \in 1..size : as[x] \in AppenderDefs
  BY <1>1, LenProperties, ElementOfSeq
<1>3. Kept("LogDefine", d) = [d EXCEPT !.appenders = bare]
  BY DEF Kept
<1>4. /\ y.name = d.name /\ y.level = KnownLevel(d.level) /\ y.formatter = NonEmpty(d.formatter)
      /\ y.appenders = ys
  BY DEF LogDefineTo
<1>5. Undef \notin Strings
  BY LexicalCastAssumption
<1>6. Pushed(ys) = 1..size /\ Cardinality(1..size) = size
  <2>1. Cardinality(1..size) = size
    BY <1>2, FS_Interval
  <2>2. \A x \in 1..size : Wanted(AppenderTo(as[x]))
    BY <1>2, AppenderBack
  <2> QED BY <1>2, <2>1, <2>2 DEF Pushed
<1> HIDE DEF y
<1>7. ASSUME NEW k \in 1..size
      PROVE  AppenderFrom(ys[Nth(1..size, k)]) = Bare(as[k])
  <2>1. Nth(1..size, k) = k
    BY <1>2, NthNumber
  <2>2. AppenderFrom(AppenderTo(as[k])) = Bare(as[k])
    BY <1>2, AppenderBack
  <2> QED BY <1>2, <2>1, <2>2
<1>8. [k \in 1..size |-> AppenderFrom(ys[Nth(1..size, k)])] = bare
  BY <1>2, <1>7
<1>9. y.name # Undef /\ Or(y.formatter, Blank) = d.formatter
  BY <1>1, <1>4, <1>5 DEF Or, NonEmpty
<1>10. LogLevel_FromString(Or(y.level, Blank)) = d.level
  BY <1>1, <1>4, LevelBack
<1>11. LogDefineFrom(y) = [name |-> d.name, level |-> d.level, formatter |-> d.formatter,
                           appenders |-> bare]
  <2>1. /\ Pushed(y.appenders) = 1..size /\ Cardinality(Pushed(y.appenders)) = size
        /\ [k \in 1..size |-> AppenderFrom(y.appenders[Nth(1..size, k)])] = bare
    BY <1>4, <1>6, <1>8
  <2>2. LogDefineFrom(y) =
          [name |-> y.name, level |-> LogLevel_FromString(Or(y.level, Blank)),
           formatter |-> Or(y.formatter, Blank),
           appenders |-> [k \in 1..size |-> AppenderFrom(y.appenders[Nth(1..size, k)])]]
    BY <1>9, <2>1, Zenon DEF LogDefineFrom
  <2> HIDE DEF bare, ys, size
  <2> QED BY <1>4, <1>9, <1>10, <2>1, <2>2
<1>12. bare \in Seq(AppenderDefs)
  <2>1. \A x \in 1..size : Bare(as[x]) \in AppenderDefs
    BY <1>2, AppenderBack
  <2> QED BY <1>2, <2>1, IsASeq
<1> HIDE DEF bare, as
<1>13. [d EXCEPT !.appenders = bare] = [name |-> d.name, level |-> d.level, formatter |-> d.formatter,
                                        appenders |-> bare]
  BY <1>1
<1>14. [d EXCEPT !.appenders = bare] \in Defines
  BY <1>1, <1>12, <1>13 DEF Defines
<1> QED BY <1>3, <1>11, <1>13, <1>14 DEF y

\* A set of definitions, written in any order.
LEMMA LogsBack ==
  ASSUME NEW v \in SUBSET Defines, IsFiniteSet(v),
         \A d, e \in v : d.name = e.name => d = e, NEW t \in LogsTo(v)
  PROVE  LogsFrom(t) = {Kept("LogDefine", d) : d \in v}
<1>1. PICK s \in SetToSeqs(v) : t = Sequence([x \in DOMAIN s |-> LogDefineTo(s[x])])
  BY DEF LogsTo
<1> DEFINE N == Cardinality(v)
           nodes == Nodes(t)
<1>2. /\ N \in Nat /\ DOMAIN s = 1..N
      /\ \A x \in DOMAIN s : s[x] \in v
      /\ \A x, y \in DOMAIN s : s[x] = s[y] => x = y
      /\ \A d \in v : \E x \in DOMAIN s : s[x] = d
  BY Enumerates
<1>3. nodes = [x \in DOMAIN s |-> LogDefineTo(s[x])]
  BY <1>1 DEF Nodes, Sequence
<1> HIDE DEF nodes, N
<1>4. DOMAIN nodes = 1..N /\ \A x \in 1..N : nodes[x] = LogDefineTo(s[x])
  BY <1>2, <1>3
<1> DEFINE e == [x \in DOMAIN nodes |-> LogDefineFrom(nodes[x])]
           first(n) == CHOOSE x \in DOMAIN e : e[x].name = n /\ \A y \in 1..(x - 1) : e[y].name # n
<1>5. ASSUME NEW x \in 1..N
      PROVE  e[x] = Kept("LogDefine", s[x]) /\ e[x] # Throw /\ e[x].name = s[x].name
  <2>1. s[x] \in Defines
    BY <1>2
  <2>2. e[x] = LogDefineFrom(LogDefineTo(s[x]))
    BY <1>4
  <2>3. Throw \notin Defines
    BY LexicalCastAssumption
  <2> QED BY <2>1, <2>2, <2>3, DefineBack
<1>6. DOMAIN e = 1..N
  BY <1>4
<1>7. Throw \notin ToSet(e)
  <2> HIDE DEF e
  <2> QED BY <1>5, <1>6 DEF ToSet
<1>8. LogsFrom(t) = {e[first(n)] : n \in {e[x].name : x \in DOMAIN e}}
  BY <1>7, Zenon DEF LogsFrom, OrThrow, nodes
<1> HIDE DEF e
<1>9. ASSUME NEW x \in 1..N PROVE first(e[x].name) = x
  <2>1. ASSUME NEW y \in 1..N, e[y].name = e[x].name PROVE y = x
    <3>1. s[y].name = s[x].name
      BY <1>5, <2>1
    <3> QED BY <1>2, <3>1
  <2>2. \A y \in 1..(x - 1) : y \in 1..N /\ y # x
    BY <1>2
  <2>3. \A z \in 1..N : (e[z].name = e[x].name /\ \A y \in 1..(z - 1) : e[y].name # e[x].name) <=> z = x
    BY <2>1, <2>2
  <2>4. (CHOOSE z \in 1..N : e[z].name = e[x].name /\ \A y \in 1..(z - 1) : e[y].name # e[x].name) = x
    BY <2>3, Zenon
  <2> QED BY <1>6, <2>4, Zenon
<1> HIDE DEF first
<1>10. {e[first(n)] : n \in {e[x].name : x \in DOMAIN e}} = {e[x] : x \in 1..N}
  BY <1>6, <1>9
<1>11. {e[x] : x \in 1..N} = {Kept("LogDefine", d) : d \in v}
  BY <1>2, <1>5
<1> QED BY <1>8, <1>10, <1>11

----------------------------------------------------------------------------
(* What a file is read as.                                                 *)

\* There is a k-th element, up to the number of elements.
LEMMA NthElement ==
  ASSUME NEW n \in Nat, NEW S \in SUBSET (1..n), NEW k \in 1..Cardinality(S)
  PROVE  Nth(S, k) \in S
<1> DEFINE below(m) == {y \in S : y <= m}
           M == {m \in Nat : k <= Cardinality(below(m))}
<1>0. \A y \in S : y \in Nat /\ 1 <= y /\ y <= n
  OBVIOUS
<1>1. IsFiniteSet(S) /\ Cardinality(S) \in Nat /\ \A m \in Nat : IsFiniteSet(below(m)) /\ Cardinality(below(m)) \in Nat
  <2>0. IsFiniteSet(1..n)
    BY FS_Interval
  <2>1. IsFiniteSet(S)
    BY <2>0, FS_Subset
  <2>2. \A m \in Nat : IsFiniteSet(below(m))
    BY <2>1, FS_Subset
  <2> QED BY <2>1, <2>2, FS_CardinalityType
<1>2. n \in M
  <2>1. below(n) = S
    BY <1>0
  <2> HIDE DEF below
  <2> QED BY <2>1
<1>3. PICK m \in M : \A j \in M : m <= j
  <2>1. M \in SUBSET Nat
    OBVIOUS
  <2> HIDE DEF M
  <2> QED BY <1>2, <2>1, LeastNumber
<1>4. m \in Nat /\ k <= Cardinality(below(m))
  BY <1>3
<1>5. m # 0
  <2>1. below(0) = {}
    <3>1. \A y \in S : ~(y <= 0)
      BY <1>0
    <3> QED BY <3>1, Zenon
  <2>2. Cardinality(below(0)) = 0
    BY <2>1, FS_EmptySet
  <2> HIDE DEF below
  <2> QED BY <1>4, <2>2
<1>6. m - 1 \in Nat /\ Cardinality(below(m - 1)) < k
  <2>1. m - 1 \in Nat /\ m - 1 \notin M
    <3>1. m - 1 \in Nat /\ ~(m <= m - 1)
      BY <1>4, <1>5
    <3> HIDE DEF M
    <3> QED BY <1>3, <3>1
  <2>2. Cardinality(below(m - 1)) \in Nat
    BY <1>1, <2>1
  <2> QED BY <2>1, <2>2
<1>7. below(m) = IF m \in S THEN below(m - 1) \cup {m} ELSE below(m - 1)
  <2>1. \A y \in S : y <= m <=> y <= m - 1 \/ y = m
    BY <1>4, <1>5
  <2> QED BY <2>1, <1>4
<1>8. m \in S
  <2> HIDE DEF below
  <2> QED BY <1>1, <1>4, <1>6, <1>7
<1>9. Cardinality(below(m)) = k
  <2>1. Cardinality(below(m)) <= Cardinality(below(m - 1)) + 1
    <3>1. IsFiniteSet(below(m - 1)) /\ Cardinality(below(m - 1)) \in Nat
      BY <1>1, <1>6
    <3> HIDE DEF below
    <3>2. /\ Cardinality(below(m - 1) \cup {m}) =
               IF m \in below(m - 1) THEN Cardinality(below(m - 1)) ELSE Cardinality(below(m - 1)) + 1
      BY <3>1, FS_AddElement
    <3> QED BY <1>7, <1>8, <3>1, <3>2
  <2>2. Cardinality(below(m)) \in Nat /\ Cardinality(below(m - 1)) \in Nat
    BY <1>1, <1>4, <1>6
  <2> HIDE DEF below
  <2> QED BY <1>4, <1>6, <2>1, <2>2
<1>10. \E x \in S : Cardinality({y \in S : y <= x}) = k
  BY <1>8, <1>9
<1> QED BY <1>10, Zenon DEF Nth

\* LogLevel::FromString() gives a level.
LEMMA LevelType == ASSUME NEW str PROVE LogLevel_FromString(str) \in 0..FATAL
<1>1. DOMAIN lower = 1..5
  BY DEF lower
<1>2. CASE \E l \in DOMAIN lower : str \in {LevelNames[l], lower[l]}
  <2>1. (CHOOSE l \in DOMAIN lower : str \in {LevelNames[l], lower[l]}) \in DOMAIN lower
    BY <1>2, Zenon
  <2>2. LogLevel_FromString(str) \in DOMAIN lower
    BY <1>2, <2>1, Zenon DEF LogLevel_FromString
  <2> QED BY <1>1, <2>2 DEF FATAL
<1>3. CASE ~\E l \in DOMAIN lower : str \in {LevelNames[l], lower[l]}
  <2>1. LogLevel_FromString(str) = UNKNOW
    BY <1>3, Zenon DEF LogLevel_FromString
  <2> QED BY <2>1 DEF UNKNOW, FATAL
<1> QED BY <1>2, <1>3

\* A map of a file is read as a definition, or throws.
LEMMA DefineType ==
  ASSUME NEW n \in LogMaps
  PROVE  LogDefineFrom(n) = Throw \/ LogDefineFrom(n) \in Defines
<1> SUFFICES ASSUME n.name # Undef PROVE LogDefineFrom(n) \in Defines
  BY Zenon DEF LogDefineFrom
<1> DEFINE as == n.appenders
           size == Cardinality(Pushed(as))
           made == [k \in 1..size |-> AppenderFrom(as[Nth(Pushed(as), k)])]
<1>1. /\ n.name \in Strings /\ Or(n.formatter, Blank) \in Strings /\ as \in Seq(AppenderMaps)
  BY DEF LogMaps, Keys, Or, Strings
<1>2. DOMAIN as = 1..Len(as) /\ Len(as) \in Nat /\ \A x \in 1..Len(as) : as[x] \in AppenderMaps
  BY <1>1, LenProperties, ElementOfSeq
<1>3. Pushed(as) \in SUBSET (1..Len(as)) /\ size \in Nat
  <2>1. Pushed(as) \in SUBSET (1..Len(as))
    BY <1>2 DEF Pushed
  <2>2. IsFiniteSet(1..Len(as))
    BY <1>2, FS_Interval
  <2>3. IsFiniteSet(Pushed(as))
    BY <2>1, <2>2, FS_Subset
  <2> QED BY <2>1, <2>3, FS_CardinalityType
<1>4. ASSUME NEW k \in 1..size
      PROVE  AppenderFrom(as[Nth(Pushed(as), k)]) \in AppenderDefs
  <2> DEFINE a == as[Nth(Pushed(as), k)]
  <2>1. Nth(Pushed(as), k) \in Pushed(as)
    BY <1>2, <1>3, NthElement
  <2>2. a \in AppenderMaps /\ Wanted(a)
    BY <1>2, <2>1 DEF Pushed
  <2> HIDE DEF a
  <2>4. File # Stdout
    BY DEF File, Stdout
  <2>3. /\ a.type \in {File, Stdout} /\ a.formatter \in Keys
        /\ a.type = File => a.file \in Strings
    BY <2>2, <2>4 DEF Wanted, AppenderMaps, Keys
  <2>5. AppenderFrom(a) \in AppenderDefs
    <3>1. Or(a.formatter, Blank) \in Strings
      BY <2>3 DEF Or, Keys, Strings
    <3>2. (IF a.type = File THEN a.file ELSE Blank) \in Strings
      BY <2>3 DEF Strings
    <3>3. UNKNOW \in 0..FATAL
      BY DEF UNKNOW, FATAL
    <3> QED BY <2>3, <2>4, <3>1, <3>2, <3>3 DEF AppenderFrom, AppenderDefs
  <2> QED BY <2>5 DEF a
<1>5. made \in Seq(AppenderDefs)
  <2> HIDE DEF size
  <2> QED BY <1>3, <1>4, IsASeq
<1>6. LogDefineFrom(n) = [name |-> n.name, level |-> LogLevel_FromString(Or(n.level, Blank)),
                          formatter |-> Or(n.formatter, Blank), appenders |-> made]
  BY Zenon DEF LogDefineFrom
<1> HIDE DEF made
<1> QED BY <1>1, <1>5, <1>6, LevelType DEF Defines

\* The range of a sequence is finite.
LEMMA RangeFinite ==
  ASSUME NEW N \in Nat, NEW f, DOMAIN f = 1..N
  PROVE  IsFiniteSet({f[x] : x \in 1..N})
<1> DEFINE g == [x \in 1..N |-> f[x]]
           R == {f[x] : x \in 1..N}
<1>1. g \in [1..N -> R] /\ \A r \in R : \E x \in 1..N : g[x] = r
  OBVIOUS
<1>2. IsFiniteSet(1..N)
  BY FS_Interval
<1> HIDE DEF g, R
<1>3. g \in Surjection(1..N, R)
  BY <1>1 DEF Surjection
<1>4. IsFiniteSet(R)
  BY <1>2, <1>3, FS_Surjection
<1> QED BY <1>4 DEF R

\* A node is read as an element, or throws.
LEMMA ElementType ==
  ASSUME NEW T \in Scalars, NEW n \in DOMAIN Emit, ElemFrom[T][Emit[n]] # Throw
  PROVE  ElemFrom[T][Emit[n]] \in Elems(T)
BY Zenon DEF Elems

\* The elements of a document.
LEMMA SequenceRead ==
  ASSUME NEW T \in Scalars, NEW nodes \in Seq(DOMAIN Emit), Throw \notin ToSet(Elements(T, nodes))
  PROVE  /\ Elements(T, nodes) \in Seq(Elems(T))
         /\ ToSet(Elements(T, nodes)) \subseteq Elems(T)
         /\ IsFiniteSet(ToSet(Elements(T, nodes)))
<1> DEFINE e == Elements(T, nodes)
           N == Len(nodes)
<1>1. DOMAIN nodes = 1..N /\ N \in Nat /\ \A x \in 1..N : nodes[x] \in DOMAIN Emit
  BY LenProperties, ElementOfSeq
<1>2. e = [x \in 1..N |-> ElemFrom[T][Emit[nodes[x]]]]
  BY <1>1 DEF Elements
<1> HIDE DEF e, N
<1>3. DOMAIN e = 1..N /\ ToSet(e) = {e[x] : x \in 1..N}
  BY <1>2 DEF ToSet
<1>4. ASSUME NEW x \in 1..N PROVE e[x] \in Elems(T)
  <2>1. e[x] = ElemFrom[T][Emit[nodes[x]]] /\ e[x] # Throw
    BY <1>2, <1>3 DEF e
  <2> QED BY <1>1, <2>1, ElementType
<1>5. e \in Seq(Elems(T))
  <2>1. e = [x \in 1..N |-> e[x]]
    BY <1>2
  <2>2. [x \in 1..N |-> e[x]] \in Seq(Elems(T))
    BY <1>1, <1>4, IsASeq
  <2> QED BY <2>1, <2>2
<1>6. IsFiniteSet(ToSet(e))
  BY <1>1, <1>3, RangeFinite
<1> QED BY <1>3, <1>4, <1>5, <1>6 DEF e

\* The map of a document.
LEMMA MapRead ==
  ASSUME NEW T \in Scalars, NEW pairs \in Seq(STRING \X DOMAIN Emit), ByKey(T, pairs) # Throw
  PROVE  LET v == ByKey(T, pairs) IN
         IsFiniteSet(DOMAIN v) /\ v \in [DOMAIN v -> Elems(T)]
<1> DEFINE N == Len(pairs)
           e == [x \in DOMAIN pairs |-> ElemFrom[T][Emit[pairs[x][2]]]]
           K == {pairs[x][1] : x \in DOMAIN pairs}
<1>1. DOMAIN pairs = 1..N /\ N \in Nat /\ \A x \in 1..N : pairs[x][2] \in DOMAIN Emit
  BY LenProperties, ElementOfSeq
<1>2. ByKey(T, pairs) = OrThrow(e, [k \in K |-> e[FirstOf(pairs, k)]])
  BY Zenon DEF ByKey
<1> HIDE DEF N
<1>3. DOMAIN e = 1..N /\ \A x \in 1..N : e[x] = ElemFrom[T][Emit[pairs[x][2]]]
  BY <1>1
<1> HIDE DEF e
<1>4. Throw \notin ToSet(e) /\ ByKey(T, pairs) = [k \in K |-> e[FirstOf(pairs, k)]]
  BY <1>2, Zenon DEF OrThrow
<1>5. ASSUME NEW x \in 1..N PROVE e[x] \in Elems(T)
  <2>1. e[x] # Throw
    BY <1>3, <1>4 DEF ToSet
  <2> QED BY <1>1, <1>3, <2>1, ElementType
<1>6. ASSUME NEW k \in K PROVE FirstOf(pairs, k) \in 1..N
  <2>1. PICK x \in 1..N : pairs[x][1] = k
    BY <1>1
  <2> DEFINE S == {z \in 1..N : pairs[z][1] = k}
  <2>2. S \in SUBSET Nat /\ S # {}
    BY <1>1, <2>1
  <2>3. PICK z \in S : \A y \in S : z <= y
    <3> HIDE DEF S
    <3> QED BY <2>2, LeastNumber
  <2>4. \A y \in 1..(z - 1) : y \notin S /\ y \in 1..N
    BY <1>1, <2>3
  <2>5. z \in 1..N /\ pairs[z][1] = k /\ \A y \in 1..(z - 1) : pairs[y][1] # k
    BY <2>3, <2>4
  <2> QED BY <1>1, <2>5, Zenon DEF FirstOf
<1>7. IsFiniteSet(K)
  <2> DEFINE f == [x \in 1..N |-> pairs[x][1]]
  <2>1. IsFiniteSet({f[x] : x \in 1..N})
    <3>1. DOMAIN f = 1..N
      OBVIOUS
    <3> HIDE DEF f
    <3> QED BY <1>1, <3>1, RangeFinite
  <2>2. {f[x] : x \in 1..N} = K
    BY <1>1
  <2> QED BY <2>1, <2>2
<1> HIDE DEF K
<1>8. [k \in K |-> e[FirstOf(pairs, k)]] \in [K -> Elems(T)]
  BY <1>5, <1>6
<1> QED BY <1>4, <1>7, <1>8

\* The definitions of a document, one of each name.
LEMMA LogsRead ==
  ASSUME NEW d, Nodes(d) \in Seq(LogMaps), LogsFrom(d) # Throw
  PROVE  LET v == LogsFrom(d) IN
         /\ IsFiniteSet(v) /\ v \subseteq Defines
         /\ \A a, b \in v : a.name = b.name => a = b
<1> DEFINE nodes == Nodes(d)
           N == Len(nodes)
           e == [x \in DOMAIN nodes |-> LogDefineFrom(nodes[x])]
           first(n) == CHOOSE x \in DOMAIN e : e[x].name = n /\ \A y \in 1..(x - 1) : e[y].name # n
           R == {e[first(n)] : n \in {e[x].name : x \in DOMAIN e}}
<1>1. DOMAIN nodes = 1..N /\ N \in Nat /\ \A x \in 1..N : nodes[x] \in LogMaps
  BY LenProperties, ElementOfSeq
<1>2. LogsFrom(d) = OrThrow(e, R)
  BY Zenon DEF LogsFrom
<1> HIDE DEF nodes, N
<1>3. DOMAIN e = 1..N /\ \A x \in 1..N : e[x] = LogDefineFrom(nodes[x])
  BY <1>1
<1> HIDE DEF e
<1>4. Throw \notin ToSet(e) /\ LogsFrom(d) = R
  BY <1>2, Zenon DEF OrThrow
<1>5. ASSUME NEW x \in 1..N PROVE e[x] \in Defines
  <2>1. e[x] # Throw
    BY <1>3, <1>4 DEF ToSet
  <2> QED BY <1>1, <1>3, <2>1, DefineType
<1>6. ASSUME NEW x \in 1..N PROVE first(e[x].name) \in 1..N /\ e[first(e[x].name)].name = e[x].name
  <2> DEFINE S == {z \in 1..N : e[z].name = e[x].name}
  <2>1. S \in SUBSET Nat /\ x \in S
    BY <1>1
  <2>2. PICK z \in S : \A y \in S : z <= y
    <3> HIDE DEF S
    <3> QED BY <2>1, LeastNumber
  <2>3. \A y \in 1..(z - 1) : y \notin S /\ y \in 1..N
    BY <1>1, <2>2
  <2>4. z \in 1..N /\ e[z].name = e[x].name /\ \A y \in 1..(z - 1) : e[y].name # e[x].name
    BY <2>2, <2>3
  <2> QED BY <1>3, <2>4, Zenon
<1> DEFINE g == [x \in 1..N |-> e[first(e[x].name)]]
<1>7. R = {g[x] : x \in 1..N}
  <2> HIDE DEF first
  <2> QED BY <1>3
<1>8. IsFiniteSet(R)
  <2>1. DOMAIN g = 1..N
    OBVIOUS
  <2> HIDE DEF g, R
  <2> QED BY <1>1, <1>7, <2>1, RangeFinite
<1>9. R \subseteq Defines
  <2>1. \A x \in 1..N : g[x] \in Defines
    <3> HIDE DEF first
    <3> QED BY <1>5, <1>6
  <2> HIDE DEF g, R
  <2> QED BY <1>7, <2>1
<1>10. ASSUME NEW a \in R, NEW b \in R, a.name = b.name PROVE a = b
  <2>1. PICK x \in 1..N : a = g[x]
    BY <1>7
  <2>2. PICK y \in 1..N : b = g[y]
    BY <1>7
  <2> HIDE DEF first, R
  <2>3. e[x].name = e[y].name
    BY <1>6, <1>10, <2>1, <2>2
  <2> QED BY <2>1, <2>2, <2>3
<1> HIDE DEF R
<1> QED BY <1>4, <1>8, <1>9, <1>10

----------------------------------------------------------------------------
(* The seven containers.                                                   *)

\* The type of a variable.
LEMMA TypeCases ==
  ASSUME NEW ty \in Types
  PROVE  \/ ty = Logs
         \/ /\ ty # Logs /\ ty[2] \in Scalars /\ ty[2] # "LogDefine"
            /\ ty[1] \in Lists \cup Sets \cup Maps
<1>1. "LogDefine" \notin Scalars
  BY DEF Scalars
<1>2. ty = Logs \/ ty \in (Lists \cup Sets \cup Maps) \X Scalars
  BY LexicalCastAssumption
<1>3. Logs[2] = "LogDefine"
  BY DEF Logs
<1> QED BY <1>1, <1>2, <1>3

\* The container decides what is called.
LEMMA Called ==
  ASSUME NEW ty, NEW v
  PROVE  /\ ty = Logs => FromStr(ty, v) = LogsFrom(v) /\ ToStr(ty, v) = LogsTo(v)
         /\ ty[1] = "vector" => FromStr(ty, v) = VectorFrom(ty[2], v) /\ ToStr(ty, v) = VectorTo(ty[2], v)
         /\ ty[1] = "list" => FromStr(ty, v) = ListFrom(ty[2], v) /\ ToStr(ty, v) = ListTo(ty[2], v)
         /\ ty[1] = "set" /\ ty[2] # "LogDefine" =>
               FromStr(ty, v) = SetFrom(ty[2], v) /\ ToStr(ty, v) = SetTo(ty[2], v)
         /\ ty[1] = "unordered_set" => FromStr(ty, v) = USetFrom(ty[2], v) /\ ToStr(ty, v) = USetTo(ty[2], v)
         /\ ty[1] = "map" => FromStr(ty, v) = MapFrom(ty[2], v) /\ ToStr(ty, v) = MapTo(ty[2], v)
         /\ ty[1] = "unordered_map" => FromStr(ty, v) = UMapFrom(ty[2], v) /\ ToStr(ty, v) = UMapTo(ty[2], v)
<1>1. Logs[1] = "set" /\ Logs[2] = "LogDefine"
  BY DEF Logs
<1> QED BY <1>1 DEF FromStr, ToStr

\* A value that a file can hold is read back from each of its texts.
LEMMA Back ==
  ASSUME NEW ty \in Types, NEW v, IsValue(ty, v), NEW t \in ToStr(ty, v)
  PROVE  FromStr(ty, t) = KeptValue(ty, v)
<1> DEFINE T == ty[2]
<1>0. /\ ty[1] \in Sets => KeptValue(ty, v) = {Kept(T, e) : e \in v}
      /\ ty[1] \notin Sets => KeptValue(ty, v) = [k \in DOMAIN v |-> Kept(T, v[k])]
  BY DEF KeptValue, Sets
<1>1. CASE ty = Logs
  <2>1. ty[1] \in Sets /\ T = "LogDefine"
    BY <1>1 DEF Logs, Sets
  <2>2. v \in SUBSET Defines /\ IsFiniteSet(v) /\ \A d, e \in v : d.name = e.name => d = e
    BY <1>1, <2>1 DEF IsValue
  <2>3. t \in LogsTo(v) /\ FromStr(ty, t) = LogsFrom(t)
    BY <1>1, Called
  <2>4. LogsFrom(t) = {Kept("LogDefine", d) : d \in v}
    BY <2>2, <2>3, LogsBack
  <2> QED BY <1>0, <2>1, <2>3, <2>4
<1>2. CASE ty # Logs /\ T \in Scalars /\ T # "LogDefine" /\ ty[1] \in Lists
  <2>1. v \in Seq(Elems(T)) /\ ty[1] \notin Sets /\ ty[1] \in {"vector", "list"}
    BY <1>2 DEF IsValue, Lists, Sets
  <2>2. CASE ty[1] = "vector"
    BY <1>0, <1>2, <2>1, <2>2, Called, ListBack
  <2>3. CASE ty[1] = "list"
    BY <1>0, <1>2, <2>1, <2>3, Called, ListBack
  <2> QED BY <2>1, <2>2, <2>3
<1>3. CASE ty # Logs /\ T \in Scalars /\ T # "LogDefine" /\ ty[1] \in Sets
  <2>1. v \in SUBSET Elems(T) /\ IsFiniteSet(v) /\ ty[1] \in {"set", "unordered_set"}
    BY <1>3 DEF IsValue, Sets
  <2>2. CASE ty[1] = "set"
    <3>1. t \in SetTo(T, v) /\ FromStr(ty, t) = SetFrom(T, t)
      BY <1>3, <2>2, Called
    <3>2. SetFrom(T, t) = {Kept(T, e) : e \in v}
      BY <1>3, <2>1, <3>1, SetBack
    <3> QED BY <1>0, <1>3, <3>1, <3>2
  <2>3. CASE ty[1] = "unordered_set"
    <3>1. t \in USetTo(T, v) /\ FromStr(ty, t) = USetFrom(T, t)
      BY <1>3, <2>3, Called
    <3>2. USetFrom(T, t) = {Kept(T, e) : e \in v}
      BY <1>3, <2>1, <3>1, SetBack
    <3> QED BY <1>0, <1>3, <3>1, <3>2
  <2> QED BY <2>1, <2>2, <2>3
<1>4. CASE ty # Logs /\ T \in Scalars /\ T # "LogDefine" /\ ty[1] \in Maps
  <2>1. /\ IsFiniteSet(DOMAIN v) /\ v \in [DOMAIN v -> Elems(T)]
        /\ ty[1] \notin Sets /\ ty[1] \in {"map", "unordered_map"}
    BY <1>4 DEF IsValue, Maps, Sets
  <2>2. CASE ty[1] = "map"
    <3>1. t \in MapOf(T, v) /\ FromStr(ty, t) = MapFrom(T, t)
      BY <2>2, Called DEF MapTo
    <3> QED BY <1>0, <1>4, <2>1, <3>1, MapBack
  <2>3. CASE ty[1] = "unordered_map"
    <3>1. t \in MapOf(T, v) /\ FromStr(ty, t) = UMapFrom(T, t)
      BY <2>3, Called DEF UMapTo
    <3> QED BY <1>0, <1>4, <2>1, <3>1, MapBack
  <2> QED BY <2>1, <2>2, <2>3
<1> QED BY <1>1, <1>2, <1>3, <1>4, TypeCases

\* A document is read as a value of its type, or throws.
LEMMA ReadType ==
  ASSUME NEW ty \in Types, NEW d, IsDocument(ty, d), FromStr(ty, d) # Throw
  PROVE  IsValue(ty, FromStr(ty, d))
<1> DEFINE T == ty[2]
           v == FromStr(ty, d)
<1>1. CASE ty = Logs
  <2>1. v = LogsFrom(d) /\ Nodes(d) \in Seq(LogMaps)
    BY <1>1, Called DEF IsDocument
  <2>2. IsFiniteSet(v) /\ v \subseteq Defines /\ \A a, b \in v : a.name = b.name => a = b
    BY <2>1, LogsRead
  <2>3. ty[1] \in Sets /\ ty[1] \notin Lists /\ ty[1] \notin Maps
    BY <1>1 DEF Logs, Sets, Lists, Maps
  <2> QED BY <1>1, <2>2, <2>3 DEF IsValue
<1>2. CASE ty # Logs /\ T \in Scalars /\ T # "LogDefine" /\ ty[1] \in Lists \cup Sets
  <2> DEFINE e == Elements(T, Nodes(d))
  <2>0. /\ Nodes(d) \in Seq(DOMAIN Emit) /\ ty[1] \in {"vector", "list", "set", "unordered_set"}
        /\ ty[1] \notin Maps
    BY <1>2 DEF IsDocument, Lists, Sets, Maps
  <2>1. /\ ty[1] \in Lists => v = OrThrow(e, e)
        /\ ty[1] \in Sets => v = OrThrow(e, ToSet(e))
    <3>1. ty[1] = "vector" => v = VectorFrom(T, d)
      BY Called
    <3>2. ty[1] = "list" => v = ListFrom(T, d)
      BY Called
    <3>3. ty[1] = "set" => v = SetFrom(T, d)
      BY <1>2, Called
    <3>4. ty[1] = "unordered_set" => v = USetFrom(T, d)
      BY Called
    <3> QED BY <3>1, <3>2, <3>3, <3>4 DEF VectorFrom, ListFrom, SetFrom, USetFrom, Lists, Sets
  <2> HIDE DEF e, v
  <2>2. Throw \notin ToSet(e)
    BY <1>2, <2>1, Zenon DEF OrThrow, v
  <2>3. e \in Seq(Elems(T)) /\ ToSet(e) \subseteq Elems(T) /\ IsFiniteSet(ToSet(e))
    BY <1>2, <2>0, <2>2, SequenceRead DEF e
  <2>4. /\ ty[1] \in Lists => v = e
        /\ ty[1] \in Sets => v = ToSet(e)
    BY <2>1, <2>2 DEF OrThrow
  <2>5. IsValue(ty, v)
    BY <1>2, <2>0, <2>3, <2>4 DEF IsValue
  <2> QED BY <2>5 DEF v
<1>3. CASE ty # Logs /\ T \in Scalars /\ T # "LogDefine" /\ ty[1] \in Maps
  <2>1. Pairs(d) \in Seq(STRING \X DOMAIN Emit)
    BY <1>3 DEF IsDocument
  <2>2. ty[1] \in {"map", "unordered_map"} /\ ty[1] \notin Lists /\ ty[1] \notin Sets
    BY <1>3 DEF Maps, Lists, Sets
  <2>3. v = MapFrom(T, d) \/ v = UMapFrom(T, d)
    BY <2>2, Called
  <2>4. v = ByKey(T, Pairs(d)) /\ v # Throw
    BY <2>3, Zenon DEF MapFrom, UMapFrom
  <2> HIDE DEF v
  <2>5. IsFiniteSet(DOMAIN v) /\ v \in [DOMAIN v -> Elems(T)]
    BY <1>3, <2>1, <2>4, MapRead
  <2>6. IsValue(ty, v)
    BY <1>3, <2>2, <2>5 DEF IsValue
  <2> QED BY <2>6 DEF v
<1> QED BY <1>1, <1>2, <1>3, TypeCases

----------------------------------------------------------------------------
(* RoundTrip.                                                              *)

\* A variable holds a value of its type, and a text is the file to read or
\* what the value was written as.
CastInv ==
    /\ type \in Types
    /\ text # NoValue /\ value = NoValue => IsDocument(type, text)
    /\ value \notin {NoValue, Throw} => IsValue(type, value)
    /\ text # NoValue /\ value # NoValue => value # Throw /\ text \in ToStr(type, value)
    /\ again # NoValue => value # NoValue
    /\ RoundTrip

\* What a variable starts with is of its type.
LEMMA CastInitial == CastInit => CastInv
<1> SUFFICES ASSUME CastInit PROVE CastInv
  OBVIOUS
<1>1. type \in Types /\ again = NoValue
  BY DEF CastInit
<1>2. CASE value \in Defaults[type] /\ text = NoValue
  <2>1. IsValue(type, value)
    BY <1>1, <1>2, LexicalCastAssumption
  <2> QED BY <1>1, <1>2, <2>1 DEF CastInv, RoundTrip
<1>3. CASE value = NoValue /\ text \in Documents[type]
  <2>1. IsDocument(type, text)
    BY <1>1, <1>3, LexicalCastAssumption
  <2> QED BY <1>1, <1>3, <2>1 DEF CastInv, RoundTrip
<1> QED BY <1>2, <1>3 DEF CastInit

\* Reading, writing and reading back keep it so.
LEMMA CastStep == CastInv /\ [CastNext]_castVars => CastInv'
<1> SUFFICES ASSUME CastInv, [CastNext]_castVars PROVE CastInv'
  OBVIOUS
<1>1. CASE Read
  <2>1. /\ type' = type /\ again' = again /\ text' = NoValue /\ again = NoValue
        /\ value' = FromStr(type, text) /\ IsDocument(type, text) /\ type \in Types
    BY <1>1 DEF Read, CastInv
  <2>2. value' # Throw => IsValue(type, value')
    BY <2>1, ReadType
  <2> QED BY <2>1, <2>2 DEF CastInv, RoundTrip
<1>2. CASE Write
  BY <1>2 DEF Write, CastInv, RoundTrip
<1>3. CASE ReadBack
  <2>1. /\ again' = FromStr(type, text) /\ type' = type /\ value' = value /\ text' = text
        /\ value # NoValue /\ text # NoValue
    BY <1>3 DEF ReadBack
  <2>2. type \in Types /\ IsValue(type, value) /\ text \in ToStr(type, value)
    BY <2>1 DEF CastInv
  <2>3. again' = KeptValue(type, value)
    BY <2>1, <2>2, Back
  <2> QED BY <2>1, <2>3 DEF CastInv, RoundTrip
<1>4. CASE UNCHANGED castVars
  BY <1>4 DEF castVars, CastInv, RoundTrip
<1> QED BY <1>1, <1>2, <1>3, <1>4 DEF CastNext

\* Whatever a configuration variable holds, from a file or from the program,
\* is read back as it was from the text it is written as, for every
\* container, every element type and every order of a set or a map: toString()
\* and fromString() of LexicalCast are inverse, but for what Kept names.
THEOREM ValuesReadBack == CastSpec => []RoundTrip
<1>1. CastInv => RoundTrip
  BY DEF CastInv
<1> QED BY CastInitial, CastStep, <1>1, PTL DEF CastSpec
=============================================================================
