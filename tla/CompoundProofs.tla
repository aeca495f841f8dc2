---------------------------- MODULE CompoundProofs ----------------------------
(***************************************************************************)
(* Theorems about Compound: a request is put together in its buffer word   *)
(* by word and without overrun, and a reply is taken whole and no further. *)
(***************************************************************************)
EXTENDS Compound, FiniteSetTheorems, WellFoundedInduction, TLAPS

-----------------------------------------------------------------------------
\* Induction and recursion over an interval, stated with sets and functions in the
\* place of operators; sequences and FlattenSeq; the places in a set of numbers.

LEMMA LessThan ==
    \E R : IsWellFoundedOn(R, Nat) /\ \A m, n \in Nat : <<m, n>> \in R <=> m < n
<1>1. \A m, n \in Nat : <<m, n>> \in OpToRel(<, Nat) <=> m < n
  BY DEF OpToRel
<1> QED BY <1>1, NatLessThanWellFounded

LEMMA Least ==
    ASSUME NEW T \in SUBSET Nat, T # {}
    PROVE  \E n \in T : \A m \in T : n <= m
<1>1. PICK R : IsWellFoundedOn(R, Nat) /\ \A m, n \in Nat : <<m, n>> \in R <=> m < n
  BY LessThan
<1>2. PICK n \in T : \A m \in T : ~ (<<m, n>> \in R)
  <2>1. IsWellFoundedOn(R, Nat) /\ T \subseteq Nat
    BY <1>1
  <2> QED BY <2>1, WFMin
<1>3. ASSUME NEW m \in T PROVE n <= m
  <2>1. m \in Nat /\ n \in Nat OBVIOUS
  <2>2. ~ (m < n) BY <1>1, <1>2, <2>1
  <2> QED BY <2>1, <2>2
<1> QED BY <1>3

\* T is the set of those i for which the claim holds.
LEMMA Induction ==
    ASSUME NEW n \in Nat, NEW T, 0 \in T, \A i \in 1 .. n : i - 1 \in T => i \in T
    PROVE  \A i \in 0 .. n : i \in T
<1> DEFINE F == {i \in 0 .. n : i \notin T}
<1>1. SUFFICES ASSUME F # {} PROVE FALSE
  OBVIOUS
<1>2. F \in SUBSET Nat
  OBVIOUS
<1>3. PICK i \in F : \A j \in F : i <= j
  <2> HIDE DEF F
  <2> QED BY <1>1, <1>2, Least
<1>4. i \in 1 .. n /\ i \notin T
  <2>1. i \in 0 .. n /\ i \notin T BY <1>3
  <2>2. i # 0 BY <2>1
  <2> QED BY <2>1, <2>2
<1>5. i - 1 \in T
  <2>1. i - 1 \in 0 .. n /\ ~ (i <= i - 1) BY <1>4
  <2>2. i - 1 \notin F BY <1>3, <2>1
  <2> QED BY <2>1, <2>2
<1> QED BY <1>4, <1>5

\* g begins with a, and G is the step from one value to the next.
Steps(n, a, G, g) == g[0] = a /\ \A i \in 1 .. n : g[i] = G[<<i, g[i - 1]>>]

LEMMA Recursion ==
    ASSUME NEW n \in Nat, NEW S, NEW a \in S, NEW G \in [(1 .. n) \X S -> S]
    PROVE  \E g \in [0 .. n -> S] : Steps(n, a, G, g)
<1> DEFINE Upto(k) == \E g \in [0 .. n -> S] : Steps(k, a, G, g)
           T == {k \in 0 .. n : Upto(k)}
<1>1. 0 \in T
  <2>1. [i \in 0 .. n |-> a] \in [0 .. n -> S]
    OBVIOUS
  <2>2. [i \in 0 .. n |-> a][0] = a
    OBVIOUS
  <2>3. \A i \in 1 .. 0 : FALSE
    OBVIOUS
  <2>4. Upto(0)
    BY <2>1, <2>2, <2>3 DEF Steps
  <2> QED BY <2>4
<1>2. ASSUME NEW k \in 1 .. n, k - 1 \in T PROVE k \in T
  <2>1. PICK g \in [0 .. n -> S] :
           g[0] = a /\ \A i \in 1 .. k - 1 : g[i] = G[<<i, g[i - 1]>>]
    BY <1>2 DEF Steps
  <2> DEFINE h == [g EXCEPT ![k] = G[<<k, g[k - 1]>>]]
  <2>2. k - 1 \in 0 .. n /\ k \in 0 .. n
    BY <1>2
  <2>3. G[<<k, g[k - 1]>>] \in S
    BY <2>1, <2>2
  <2>4. h \in [0 .. n -> S] /\ h[0] = a
    BY <2>1, <2>3
  <2>5. ASSUME NEW i \in 1 .. k PROVE h[i] = G[<<i, h[i - 1]>>]
    <3>1. i \in 0 .. n /\ i - 1 \in 0 .. n /\ i - 1 # k
      BY <2>2
    <3>2. h[i - 1] = g[i - 1]
      BY <3>1
    <3>3. CASE i = k
      BY <3>1, <3>2, <3>3
    <3>4. CASE i # k
      <4>1. i \in 1 .. k - 1 BY <3>4
      <4> QED BY <2>1, <3>1, <3>2, <3>4, <4>1
    <3> QED BY <3>3, <3>4
  <2> HIDE DEF h
  <2>6. Upto(k)
    BY <2>4, <2>5 DEF Steps
  <2> QED BY <2>2, <2>6
<1> HIDE DEF T
<1>3. n \in T
  <2>1. \A i \in 0 .. n : i \in T BY <1>1, <1>2, Induction
  <2> QED BY <2>1
<1> QED BY <1>3 DEF T

-----------------------------------------------------------------------------
\* Sequences, element by element.
LEMMA SameSeq ==
    ASSUME NEW S, NEW s \in Seq(S), NEW t \in Seq(S), Len(s) = Len(t),
           \A i \in 1 .. Len(s) : s[i] = t[i]
    PROVE  s = t
OBVIOUS

LEMMA ConcatIs ==
    ASSUME NEW S, NEW s \in Seq(S), NEW t \in Seq(S)
    PROVE  /\ s \o t \in Seq(S) /\ Len(s \o t) = Len(s) + Len(t)
           /\ \A i \in 1 .. Len(s) : (s \o t)[i] = s[i]
           /\ \A i \in 1 .. Len(t) : (s \o t)[Len(s) + i] = t[i]
OBVIOUS

LEMMA ConcatEmpty ==
    ASSUME NEW S, NEW s \in Seq(S)
    PROVE  s \o <<>> = s /\ <<>> \o s = s
OBVIOUS

LEMMA ConcatAssoc ==
    ASSUME NEW S, NEW s \in Seq(S), NEW t \in Seq(S), NEW u \in Seq(S)
    PROVE  (s \o t) \o u = s \o (t \o u)
OBVIOUS

LEMMA WordsAssoc == \A s, t, u \in Seq(Nat) : (s \o t) \o u = s \o (t \o u)
BY ConcatAssoc, SMTT(40)

LEMMA PartIs ==
    ASSUME NEW S, NEW s \in Seq(S), NEW m \in Nat, NEW n \in Nat, m <= n, n <= Len(s)
    PROVE  /\ SubSeq(s, m + 1, n) \in Seq(S) /\ Len(SubSeq(s, m + 1, n)) = n - m
           /\ \A i \in 1 .. n - m : SubSeq(s, m + 1, n)[i] = s[m + i]
OBVIOUS

LEMMA FrontIs ==
    ASSUME NEW S, NEW s \in Seq(S), NEW n \in Nat, n <= Len(s)
    PROVE  /\ SubSeq(s, 1, n) \in Seq(S) /\ Len(SubSeq(s, 1, n)) = n
           /\ \A i \in 1 .. n : SubSeq(s, 1, n)[i] = s[i]
OBVIOUS

LEMMA Halves ==
    ASSUME NEW S, NEW s \in Seq(S), NEW n \in Nat, n <= Len(s)
    PROVE  /\ SubSeq(s, 1, n) \in Seq(S) /\ Len(SubSeq(s, 1, n)) = n
           /\ SubSeq(s, n + 1, Len(s)) \in Seq(S)
           /\ Len(SubSeq(s, n + 1, Len(s))) = Len(s) - n
           /\ SubSeq(s, 1, n) \o SubSeq(s, n + 1, Len(s)) = s
<1> DEFINE x == SubSeq(s, 1, n)
           y == SubSeq(s, n + 1, Len(s))
<1>1. x \in Seq(S) /\ Len(x) = n /\ \A i \in 1 .. n : x[i] = s[i]
  BY FrontIs
<1>2. Len(s) \in Nat
  OBVIOUS
<1>3. y \in Seq(S) /\ Len(y) = Len(s) - n /\ \A i \in 1 .. Len(s) - n : y[i] = s[n + i]
  BY <1>2, PartIs
<1> HIDE DEF x, y
<1>4. /\ x \o y \in Seq(S) /\ Len(x \o y) = Len(x) + Len(y)
      /\ \A i \in 1 .. Len(x) : (x \o y)[i] = x[i]
      /\ \A i \in 1 .. Len(y) : (x \o y)[Len(x) + i] = y[i]
  BY <1>1, <1>3, ConcatIs
<1>5. Len(x \o y) = Len(s)
  BY <1>1, <1>2, <1>3, <1>4
<1>6. ASSUME NEW i \in 1 .. Len(s) PROVE (x \o y)[i] = s[i]
  <2>1. CASE i <= n
    BY <1>1, <1>2, <1>4, <2>1
  <2>2. CASE i > n
    <3> DEFINE j == i - n
    <3>1. j \in 1 .. Len(s) - n /\ n + j = i
      BY <1>2, <2>2
    <3> HIDE DEF j
    <3>2. (x \o y)[Len(x) + j] = y[j]
      BY <1>3, <1>4, <3>1
    <3> QED BY <1>1, <1>3, <3>1, <3>2
  <2>3. i <= n \/ i > n
    BY <1>2
  <2> QED BY <2>1, <2>2, <2>3
<1>7. x \o y = s
  BY <1>4, <1>5, <1>6, SameSeq
<1> QED BY <1>1, <1>3, <1>7 DEF x, y

LEMMA FrontGrows ==
    ASSUME NEW S, NEW s \in Seq(S), NEW n \in Nat, n < Len(s)
    PROVE  SubSeq(s, 1, n + 1) = SubSeq(s, 1, n) \o <<s[n + 1]>>
<1> DEFINE l == SubSeq(s, 1, n + 1)
           o == SubSeq(s, 1, n)
           x == <<s[n + 1]>>
<1>1. l \in Seq(S) /\ Len(l) = n + 1 /\ \A i \in 1 .. n + 1 : l[i] = s[i]
  BY FrontIs
<1>2. o \in Seq(S) /\ Len(o) = n /\ \A i \in 1 .. n : o[i] = s[i]
  BY FrontIs
<1>3. x \in Seq(S) /\ Len(x) = 1 /\ x[1] = s[n + 1]
  OBVIOUS
<1> HIDE DEF l, o, x
<1>4. /\ o \o x \in Seq(S) /\ Len(o \o x) = Len(o) + Len(x)
      /\ \A i \in 1 .. Len(o) : (o \o x)[i] = o[i]
      /\ \A i \in 1 .. Len(x) : (o \o x)[Len(o) + i] = x[i]
  <2>1. o \in Seq(S) /\ x \in Seq(S)
    BY <1>2, <1>3
  <2> QED BY <2>1, ConcatIs
<1>5. ASSUME NEW i \in 1 .. n + 1 PROVE l[i] = (o \o x)[i]
  <2>1. CASE i <= n
    BY <1>1, <1>2, <1>4, <2>1
  <2>2. CASE i > n
    <3>1. i = n + 1 /\ 1 \in 1 .. Len(x) /\ i \in 1 .. n + 1
      BY <1>3, <2>2
    <3>2. (o \o x)[n + 1] = x[1]
      BY <1>2, <1>4, <3>1
    <3>3. l[i] = s[i]
      BY <1>1, <3>1
    <3>4. s[n + 1] = x[1]
      BY <1>3
    <3> QED BY <3>1, <3>2, <3>3, <3>4
  <2>3. i <= n \/ i > n
    OBVIOUS
  <2> QED BY <2>1, <2>2, <2>3
<1>6. l = o \o x
  BY <1>1, <1>2, <1>3, <1>4, <1>5, SameSeq
<1> QED BY <1>6 DEF l, o, x

LEMMA PartGrows ==
    ASSUME NEW S, NEW s \in Seq(S), NEW m \in Nat, NEW i \in 1 .. Len(s), m < i
    PROVE  /\ SubSeq(s, m + 1, i) = Append(SubSeq(s, m + 1, i - 1), s[i])
           /\ SubSeq(s, i + 1, i) = <<>>
<1> DEFINE o == SubSeq(s, m + 1, i - 1)
           l == SubSeq(s, m + 1, i)
           r == Append(o, s[i])
<1>0. i \in Nat /\ i - 1 \in Nat /\ m <= i - 1 /\ i - 1 <= Len(s) /\ m <= i /\ i <= Len(s)
  OBVIOUS
<1>1. l \in Seq(S) /\ Len(l) = i - m /\ \A j \in 1 .. i - m : l[j] = s[m + j]
  BY <1>0, PartIs
<1>2. /\ o \in Seq(S) /\ Len(o) = (i - 1) - m
      /\ \A j \in 1 .. (i - 1) - m : o[j] = s[m + j]
  BY <1>0, PartIs
<1>3. s[i] \in S
  OBVIOUS
<1> HIDE DEF o, l
<1>4. /\ r \in Seq(S) /\ Len(r) = i - m
      /\ \A j \in 1 .. (i - 1) - m : r[j] = o[j]
      /\ r[i - m] = s[i]
  <2>1. r \in Seq(S) /\ Len(r) = Len(o) + 1 /\ r[Len(o) + 1] = s[i]
        /\ \A j \in 1 .. Len(o) : r[j] = o[j]
    BY <1>2, <1>3
  <2>2. Len(o) + 1 = i - m
    BY <1>0, <1>2
  <2> HIDE DEF r
  <2> QED BY <1>2, <2>1, <2>2
<1> HIDE DEF r
<1>5. ASSUME NEW j \in 1 .. i - m PROVE l[j] = r[j]
  <2>1. CASE j = i - m
    <3>1. m + j = i
      BY <1>0, <2>1
    <3> QED BY <1>1, <1>4, <2>1, <3>1
  <2>2. CASE j # i - m
    <3>1. j \in 1 .. (i - 1) - m
      BY <1>0, <2>2
    <3> QED BY <1>1, <1>2, <1>4, <3>1
  <2> QED BY <2>1, <2>2
<1>6. l = r
  BY <1>1, <1>4, <1>5, SameSeq
<1>7. SubSeq(s, i + 1, i) = <<>>
  <2>1. i + 1 > i
    BY <1>0
  <2> QED BY <1>0, <2>1
<1> QED BY <1>6, <1>7 DEF l, r, o

-----------------------------------------------------------------------------
\* The places before a place.
Below(C, i) == {j \in C : j < i}

LEMMA BelowIs ==
    ASSUME NEW C \in SUBSET Nat, IsFiniteSet(C), NEW i \in Nat
    PROVE  /\ IsFiniteSet(Below(C, i)) /\ Cardinality(Below(C, i)) \in Nat
           /\ Cardinality(Below(C, i + 1)) = Cardinality(Below(C, i)) + (IF i \in C THEN 1 ELSE 0)
<1>1. IsFiniteSet(Below(C, i)) /\ Cardinality(Below(C, i)) \in Nat
  <2>1. Below(C, i) \subseteq C
    BY DEF Below
  <2> QED BY <2>1, FS_Subset, FS_CardinalityType
<1>0. \A j \in C : (j < i + 1 <=> j < i \/ j = i) /\ ~(i < i)
  OBVIOUS
<1>2. CASE i \in C
  <2>1. Below(C, i + 1) = Below(C, i) \union {i} /\ i \notin Below(C, i)
    BY <1>0, <1>2, Zenon DEF Below
  <2> QED BY <1>1, <1>2, <2>1, FS_AddElement
<1>3. CASE i \notin C
  <2>1. Below(C, i + 1) = Below(C, i)
    BY <1>0, <1>3, Zenon DEF Below
  <2> QED BY <1>1, <1>3, <2>1
<1> QED BY <1>1, <1>2, <1>3

LEMMA BelowGrows ==
    ASSUME NEW C \in SUBSET Nat, IsFiniteSet(C), NEW i \in C, NEW j \in C, i < j
    PROVE  Cardinality(Below(C, i)) < Cardinality(Below(C, j))
<1>1. i \in Nat /\ j \in Nat
  OBVIOUS
<1>2. /\ Cardinality(Below(C, i + 1)) = Cardinality(Below(C, i)) + 1
      /\ Cardinality(Below(C, i)) \in Nat /\ Cardinality(Below(C, i + 1)) \in Nat
      /\ Cardinality(Below(C, j)) \in Nat /\ IsFiniteSet(Below(C, j))
  BY <1>1, BelowIs
<1>3. Below(C, i + 1) \subseteq Below(C, j)
  <2>1. \A l \in C : l < i + 1 => l < j
    BY <1>1
  <2> QED BY <2>1, Zenon DEF Below
<1>4. Cardinality(Below(C, i + 1)) <= Cardinality(Below(C, j))
  BY <1>2, <1>3, FS_Subset
<1> QED BY <1>2, <1>4

\* A place is known by the number of places before it.
LEMMA CutIs ==
    ASSUME NEW C \in SUBSET Nat, IsFiniteSet(C), NEW i \in C
    PROVE  (CHOOSE j \in C : Cardinality({l \in C : l < j}) = Cardinality(Below(C, i))) = i
<1> DEFINE P(j) == j \in C /\ Cardinality(Below(C, j)) = Cardinality(Below(C, i))
<1>1. ASSUME NEW j \in C, j # i PROVE Cardinality(Below(C, j)) # Cardinality(Below(C, i))
  <2>1. i \in Nat /\ j \in Nat
    OBVIOUS
  <2>2. Cardinality(Below(C, j)) \in Nat /\ Cardinality(Below(C, i)) \in Nat
    BY <2>1, BelowIs
  <2>3. CASE i < j
    BY <2>2, <2>3, BelowGrows
  <2>4. CASE j < i
    BY <2>2, <2>4, BelowGrows
  <2> QED BY <1>1, <2>1, <2>3, <2>4
<1> DEFINE x == CHOOSE j \in C : Cardinality(Below(C, j)) = Cardinality(Below(C, i))
<1>2. x \in C /\ Cardinality(Below(C, x)) = Cardinality(Below(C, i))
  OBVIOUS
<1>3. x = i
  <2> HIDE DEF x
  <2> QED BY <1>1, <1>2
<1> QED BY <1>3 DEF Below

-----------------------------------------------------------------------------
\* FlattenSeq puts one sequence after the other; Joins(g, s) says that g[i] is the
\* first i of them.
Joins(g, s) == g[0] = <<>> /\ \A i \in 1 .. Len(s) : g[i] = g[i - 1] \o s[i]

LEMMA FlattenIs ==
    ASSUME NEW S, NEW s \in Seq(Seq(S))
    PROVE  \E g \in [0 .. Len(s) -> Seq(S)] : Joins(g, s) /\ FlattenSeq(s) = g[Len(s)]
<1> DEFINE n == Len(s)
           G == [p \in (1 .. n) \X Seq(S) |-> p[2] \o s[p[1]]]
<1>1. n \in Nat /\ <<>> \in Seq(S) /\ \A i \in 1 .. n : s[i] \in Seq(S)
  OBVIOUS
<1>2. G \in [(1 .. n) \X Seq(S) -> Seq(S)]
  <2>1. ASSUME NEW p \in (1 .. n) \X Seq(S) PROVE p[2] \o s[p[1]] \in Seq(S)
    BY <1>1
  <2> QED BY <2>1
<1>3. PICK g \in [0 .. n -> Seq(S)] : Steps(n, <<>>, G, g)
  <2> HIDE DEF G, n
  <2> QED BY <1>1, <1>2, Recursion
<1>4. ASSUME NEW i \in 1 .. n PROVE g[i] = g[i - 1] \o s[i]
  <2>1. i - 1 \in 0 .. n
    BY <1>1
  <2>2. <<i, g[i - 1]>> \in (1 .. n) \X Seq(S)
    BY <2>1
  <2> QED BY <1>3, <2>2 DEF Steps
<1>5. Joins(g, s) /\ (n # 0 => g[1] = s[1] /\ s[1] \in Seq(S))
  <2>1. n # 0 => 1 \in 1 .. n /\ 1 - 1 = 0
    BY <1>1
  <2>2. n # 0 => s[1] \in Seq(S) /\ g[1] = <<>> \o s[1]
    <3>1. g[0] = <<>>
      BY <1>3 DEF Steps
    <3> HIDE DEF n, G
    <3>2. CASE n # 0
      <4>1. 1 \in 1 .. n /\ g[1 - 1] = <<>>
        BY <2>1, <3>1, <3>2
      <4>2. g[1] = g[1 - 1] \o s[1]
        BY <1>4, <4>1
      <4> QED BY <1>1, <4>1, <4>2
    <3> QED BY <3>2
  <2>3. n # 0 => <<>> \o s[1] = s[1]
    BY <2>2, ConcatEmpty
  <2>4. g[0] = <<>>
    BY <1>3 DEF Steps
  <2> HIDE DEF G
  <2> QED BY <1>4, <2>2, <2>3, <2>4 DEF Joins
<1>6. CASE n = 0
  <2>1. s = <<>> /\ FlattenSeq(s) = s
    BY <1>6 DEF FlattenSeq
  <2> QED BY <1>3, <1>5, <1>6, <2>1
<1>7. CASE n # 0
  <2> DEFINE flatten[i \in 1 .. Len(s)] == IF i = 1 THEN s[i] ELSE flatten[i - 1] \o s[i]
             h == [i \in 1 .. n |-> g[i]]
  <2>1. FlattenSeq(s) = flatten[n]
    BY <1>7 DEF FlattenSeq
  <2>2. h = [i \in 1 .. n |-> IF i = 1 THEN s[i] ELSE h[i - 1] \o s[i]]
    <3>1. ASSUME NEW i \in 1 .. n
          PROVE  g[i] = IF i = 1 THEN s[i] ELSE h[i - 1] \o s[i]
      <4>1. CASE i = 1
        BY <1>5, <1>7, <4>1
      <4>2. CASE i # 1
        <5>1. i - 1 \in 1 .. n
          BY <4>2
        <5> QED BY <1>4, <4>2, <5>1
      <4> QED BY <4>1, <4>2
    <3> QED BY <3>1
  <2>3. flatten = [i \in 1 .. n |-> IF i = 1 THEN s[i] ELSE flatten[i - 1] \o s[i]]
    <3> HIDE DEF h
    <3> QED BY <2>2
  <2> DEFINE T == {i \in 0 .. n : i = 0 \/ flatten[i] = g[i]}
  <2> HIDE DEF flatten, h
  <2>4. 0 \in T
    BY <1>1
  <2>5. ASSUME NEW i \in 1 .. n, i - 1 \in T PROVE i \in T
    <3>1. CASE i = 1
      <4>1. flatten[1] = s[1] /\ g[1] = s[1]
        BY <1>1, <1>5, <1>7, <2>3
      <4> QED BY <3>1, <4>1
    <3>2. CASE i # 1
      <4>1. flatten[i - 1] = g[i - 1] /\ i \in 0 .. n
        BY <2>5, <3>2
      <4> QED BY <1>4, <2>3, <3>2, <4>1, ZenonT(80)
    <3> QED BY <3>1, <3>2
  <2> HIDE DEF T
  <2>6. n \in T
    <3>1. \A i \in 0 .. n : i \in T BY <1>1, <2>4, <2>5, Induction
    <3> QED BY <1>1, <3>1
  <2> QED BY <1>5, <1>7, <2>1, <2>6 DEF T
<1> QED BY <1>6, <1>7

LEMMA FlattenType ==
    ASSUME NEW S, NEW s \in Seq(Seq(S))
    PROVE  FlattenSeq(s) \in Seq(S)
<1>1. Len(s) \in 0 .. Len(s)
  OBVIOUS
<1> QED BY <1>1, FlattenIs

-----------------------------------------------------------------------------
\* Numbers and words.

LEMMA WIs == W \in Nat /\ W > 100 /\ W % 4 = 0
BY SMT, WordAssumption

LEMMA LetterIs == Letter = {0, 1, 2, 3} /\ Letter \subseteq Nat /\ Slash \in Letter
BY DEF Letter, Slash

\* No length comes out below zero, and one that does not wrap is a multiple of four
\* that has room for its letters and less than a word more.
LEMMA PadIs ==
    ASSUME NEW n \in Nat
    PROVE  /\ Pad(n) \in Nat /\ Pad(n) \div 4 \in Nat
           /\ n < W - 3 => Pad(n) \div 4 = (n + 3) \div 4
<1>1. W \in Nat /\ W > 100 /\ W % 4 = 0
  BY WIs
<1>2. CASE n = 0
  <2>1. (n - 1) % W = W - 1
    BY <1>1, <1>2
  <2>2. (W - 1) \div 4 + 1 = W \div 4 /\ (W \div 4) * 4 = W /\ W % W = 0
    BY <1>1
  <2>3. Pad(n) = 0
    BY <2>1, <2>2 DEF Pad
  <2> QED BY <1>2, <2>3
<1>3. CASE n # 0
  <2> DEFINE m == (n - 1) % W
             p == (m \div 4 + 1) * 4
  <2>1. m \in 0 .. W - 1
    BY <1>1, <1>3
  <2>2. p \in Nat
    BY <2>1
  <2>3. Pad(n) = p % W /\ p % W \in Nat
    BY <1>1, <2>2 DEF Pad
  <2>4. ASSUME n < W - 3 PROVE Pad(n) \div 4 = (n + 3) \div 4
    <3>1. m = n - 1
      BY <1>1, <1>3, <2>4
    <3>2. p \in 0 .. W - 1 /\ p \div 4 = (n + 3) \div 4
      BY <1>1, <1>3, <2>4, <3>1
    <3>3. p % W = p
      BY <1>1, <3>2
    <3> QED BY <2>3, <3>2, <3>3
  <2>5. (p % W) \div 4 \in Nat
    <3> HIDE DEF p
    <3> QED BY <1>1, <2>2, <2>3
  <2> QED BY <2>3, <2>4, <2>5
<1> QED BY <1>2, <1>3

LEMMA NameIs == Name \subseteq Seq(Nat)
BY LetterIs DEF Name

LEMMA WordType ==
    ASSUME NEW s \in Seq(Nat), NEW i \in Nat \ {0}
    PROVE  Word(s, i) \in Nat
<1> DEFINE letter(k) == IF k <= Len(s) THEN s[k] ELSE 0
<1>1. ASSUME NEW k \in Nat \ {0} PROVE letter(k) \in Nat
  OBVIOUS
<1>2. {4*i - 3, 4*i - 2, 4*i - 1, 4*i} \subseteq Nat \ {0}
  OBVIOUS
<1>3. /\ letter(4*i - 3) \in Nat /\ letter(4*i - 2) \in Nat
      /\ letter(4*i - 1) \in Nat /\ letter(4*i) \in Nat
  <2> HIDE DEF letter
  <2> QED BY <1>1, <1>2
<1>4. Word(s, i) = letter(4*i - 3) + 4 * letter(4*i - 2) + 16 * letter(4*i - 1) + 64 * letter(4*i)
  BY DEF Word
<1> HIDE DEF letter
<1> QED BY <1>3, <1>4, SMTT(40)

LEMMA StringType ==
    ASSUME NEW s \in Seq(Nat)
    PROVE  /\ Words(s) \in Seq(Nat) /\ Len(Words(s)) = Pad(Len(s)) \div 4
           /\ String(s) \in Seq(Nat) /\ Len(String(s)) = 1 + Pad(Len(s)) \div 4
<1>1. Len(s) \in Nat /\ Pad(Len(s)) \div 4 \in Nat
  BY PadIs
<1>2. Words(s) \in Seq(Nat) /\ Len(Words(s)) = Pad(Len(s)) \div 4
  <2> DEFINE n == Pad(Len(s)) \div 4
  <2>1. \A i \in 1 .. n : Word(s, i) \in Nat
    BY WordType
  <2>2. n \in Nat
    BY <1>1
  <2> HIDE DEF n
  <2>3. [i \in 1 .. n |-> Word(s, i)] \in Seq(Nat) /\ Len([i \in 1 .. n |-> Word(s, i)]) = n
    BY <2>1, <2>2
  <2> QED BY <2>3 DEF Words, n
<1>3. <<Len(s)>> \in Seq(Nat) /\ Len(<<Len(s)>>) = 1
  BY <1>1
<1> QED BY <1>2, <1>3 DEF String

LEMMA LettersType ==
    ASSUME NEW m \in Nat, NEW w \in [1 .. m -> Nat], NEW n \in Nat, n <= 4 * m
    PROVE  Letters(w, n) \in Name /\ Len(Letters(w, n)) = n
<1>1. ASSUME NEW k \in 1 .. n
      PROVE  (w[(k-1) \div 4 + 1] \div Weight[((k-1) % 4) + 1]) % 4 \in Letter
  <2>1. (k-1) \div 4 + 1 \in 1 .. m
    OBVIOUS
  <2>2. Weight[((k-1) % 4) + 1] \in {1, 4, 16, 64}
    <3>1. (k-1) % 4 \in 0 .. 3
      OBVIOUS
    <3> QED BY <3>1 DEF Weight
  <2>3. ASSUME NEW a \in Nat, NEW b \in {1, 4, 16, 64} PROVE (a \div b) % 4 \in {0, 1, 2, 3}
    OBVIOUS
  <2> QED BY <2>1, <2>2, <2>3, LetterIs
<1>2. Letters(w, n) = [k \in 1 .. n |-> (w[(k-1) \div 4 + 1] \div Weight[((k-1) % 4) + 1]) % 4]
  BY DEF Letters
<1> QED BY <1>1, <1>2 DEF Name

LEMMA ConfigType ==
    ASSUME NEW digits \in Seq(0 .. 9), NEW default \in Nat
    PROVE  ConfigU64(digits, default) \in Nat
<1> DEFINE n == Len(digits)
           after[i \in 0 .. Len(digits)] == IF i = 0 THEN 0 ELSE after[i - 1] + 10 * digits[i]
           G == [p \in (1 .. n) \X Nat |-> p[2] + 10 * digits[p[1]]]
<1>1. n \in Nat /\ 0 \in Nat /\ \A i \in 1 .. n : digits[i] \in Nat
  OBVIOUS
<1>2. G \in [(1 .. n) \X Nat -> Nat]
  BY <1>1
<1>3. PICK g \in [0 .. n -> Nat] : Steps(n, 0, G, g)
  <2> HIDE DEF G, n
  <2> QED BY <1>1, <1>2, Recursion
<1>4. g = [i \in 0 .. n |-> IF i = 0 THEN 0 ELSE g[i - 1] + 10 * digits[i]]
  <2>1. ASSUME NEW i \in 0 .. n
        PROVE  g[i] = IF i = 0 THEN 0 ELSE g[i - 1] + 10 * digits[i]
    <3>1. CASE i = 0
      BY <1>3, <3>1 DEF Steps
    <3>2. CASE i # 0
      <4>1. <<i, g[i - 1]>> \in (1 .. n) \X Nat
        BY <3>2
      <4> QED BY <1>3, <3>2, <4>1 DEF Steps
    <3> QED BY <3>1, <3>2
  <2> QED BY <2>1
<1>5. after = [i \in 0 .. n |-> IF i = 0 THEN 0 ELSE after[i - 1] + 10 * digits[i]]
  BY <1>4
<1>6. ConfigU64(digits, default) = IF digits = <<>> THEN default ELSE after[n]
  BY DEF ConfigU64
<1> HIDE DEF after
<1> DEFINE T == {i \in 0 .. n : after[i] \in Nat}
<1>7. 0 \in T
  BY <1>1, <1>5
<1>8. ASSUME NEW i \in 1 .. n, i - 1 \in T PROVE i \in T
  <2>1. i \in 0 .. n /\ i # 0 /\ after[i - 1] \in Nat /\ digits[i] \in Nat
    BY <1>1, <1>8
  <2>2. after[i] = after[i - 1] + 10 * digits[i]
    BY <1>5, <2>1
  <2> QED BY <2>1, <2>2
<1>9. n \in T
  <2> HIDE DEF T, n
  <2>1. \A i \in 0 .. n : i \in T
    BY <1>1, <1>7, <1>8, Induction
  <2> QED BY <1>1, <2>1
<1> QED BY <1>6, <1>9

\* split(): what it has after each letter.
Splitting == [parts : Seq(Name), each : Name]

SplitStep(a, x) ==
    IF x = Slash THEN [parts |-> Append(a.parts, a.each), each |-> <<>>]
    ELSE [a EXCEPT !.each = Append(@, x)]

Splits(a, z) ==
    /\ a[0] = [parts |-> <<>>, each |-> <<>>]
    /\ \A i \in 1 .. Len(z) : a[i] = SplitStep(a[i - 1], z[i])

LEMMA SplitIs ==
    ASSUME NEW z \in Name
    PROVE  \E a \in [0 .. Len(z) -> Splitting] :
             /\ Splits(a, z)
             /\ Split(z) = IF a[Len(z)].each = <<>> THEN a[Len(z)].parts
                          ELSE Append(a[Len(z)].parts, a[Len(z)].each)
<1> DEFINE n == Len(z)
           start == [parts |-> <<>>, each |-> <<>>]
           after[i \in 0 .. Len(z)] ==
             IF i = 0 THEN [parts |-> <<>>, each |-> <<>>]
             ELSE IF z[i] = Slash
                  THEN [parts |-> Append(after[i - 1].parts, after[i - 1].each), each |-> <<>>]
                  ELSE [after[i - 1] EXCEPT !.each = Append(@, z[i])]
           G == [p \in (1 .. n) \X Splitting |-> SplitStep(p[2], z[p[1]])]
<1>1. n \in Nat /\ start \in Splitting /\ \A i \in 1 .. n : z[i] \in Letter
  BY DEF Name, Splitting
<1>2. ASSUME NEW a \in Splitting, NEW x \in Letter PROVE SplitStep(a, x) \in Splitting
  <2>1. Append(a.parts, a.each) \in Seq(Name) /\ <<>> \in Name
    BY DEF Name, Splitting
  <2>2. Append(a.each, x) \in Name
    BY DEF Name, Splitting
  <2> HIDE DEF Name
  <2> QED BY <2>1, <2>2 DEF SplitStep, Splitting
<1>3. G \in [(1 .. n) \X Splitting -> Splitting]
  BY <1>1, <1>2
<1>4. PICK g \in [0 .. n -> Splitting] : Steps(n, start, G, g)
  <2> HIDE DEF G, n, start
  <2> QED BY <1>1, <1>3, Recursion
<1>5. g = [i \in 0 .. n |-> IF i = 0 THEN start ELSE SplitStep(g[i - 1], z[i])]
  <2> HIDE DEF start
  <2>1. ASSUME NEW i \in 0 .. n
        PROVE  g[i] = IF i = 0 THEN start ELSE SplitStep(g[i - 1], z[i])
    <3>1. CASE i = 0
      BY <1>4, <3>1 DEF Steps
    <3>2. CASE i # 0
      <4>1. <<i, g[i - 1]>> \in (1 .. n) \X Splitting
        BY <3>2
      <4> QED BY <1>4, <3>2, <4>1 DEF Steps
    <3> QED BY <3>1, <3>2
  <2> QED BY <2>1
<1>6. after = [i \in 0 .. n |-> IF i = 0 THEN start ELSE SplitStep(after[i - 1], z[i])]
  BY <1>5 DEF SplitStep
<1>7. Split(z) = IF after[n].each = <<>> THEN after[n].parts
                 ELSE Append(after[n].parts, after[n].each)
  BY DEF Split
<1> HIDE DEF after
<1> DEFINE T == {i \in 0 .. n : after[i] = g[i]}
<1>8. 0 \in T
  BY <1>1, <1>5, <1>6
<1>9. ASSUME NEW i \in 1 .. n, i - 1 \in T PROVE i \in T
  <2>1. i \in 0 .. n /\ i # 0 /\ after[i - 1] = g[i - 1]
    BY <1>1, <1>9
  <2>2. after[i] = SplitStep(after[i - 1], z[i]) /\ g[i] = SplitStep(g[i - 1], z[i])
    BY <1>5, <1>6, <2>1
  <2> QED BY <2>1, <2>2
<1>10. after[n] = g[n]
  <2> HIDE DEF n, start
  <2>1. n \in T
    <3> HIDE DEF T
    <3>1. \A i \in 0 .. n : i \in T
      BY <1>1, <1>8, <1>9, Induction
    <3> QED BY <1>1, <3>1
  <2> QED BY <2>1
<1>11. Splits(g, z)
  <2>1. ASSUME NEW i \in 1 .. n PROVE g[i] = SplitStep(g[i - 1], z[i])
    <3>1. i \in 0 .. n /\ i # 0
      BY <1>1
    <3> QED BY <1>5, <3>1
  <2>2. g[0] = start
    BY <1>4 DEF Steps
  <2> QED BY <2>1, <2>2 DEF Splits
<1> QED BY <1>7, <1>10, <1>11

LEMMA SplitType ==
    ASSUME NEW z \in Name
    PROVE  Split(z) \in Seq(Name)
<1>1. PICK a \in [0 .. Len(z) -> Splitting] :
        Split(z) = IF a[Len(z)].each = <<>> THEN a[Len(z)].parts
                   ELSE Append(a[Len(z)].parts, a[Len(z)].each)
  BY SplitIs
<1>2. a[Len(z)] \in Splitting
  <2>1. Len(z) \in 0 .. Len(z)
    BY DEF Name
  <2> QED BY <2>1
<1>3. a[Len(z)].parts \in Seq(Name) /\ a[Len(z)].each \in Name
  BY <1>2 DEF Splitting
<1> QED BY <1>1, <1>3

\* The places of the dividers, with one before and one behind the letters.
Cuts(z)   == {0, Len(z) + 1} \union {i \in DOMAIN z : z[i] = Slash}
Cut(z, k) == CHOOSE i \in Cuts(z) : Cardinality({j \in Cuts(z) : j < i}) = k

\* The cuts up to a letter.
Upto(z, i) == Cardinality(Below(Cuts(z), i + 1))

LEMMA CutsAre ==
    ASSUME NEW z \in Name
    PROVE  /\ Upto(z, 0) = 1 /\ Cut(z, 0) = 0
           /\ \A i \in 1 .. Len(z) :
                /\ Upto(z, i - 1) \in Nat /\ Upto(z, i) \in Nat
                /\ z[i] = Slash => Upto(z, i) = Upto(z, i - 1) + 1 /\ Cut(z, Upto(z, i - 1)) = i
                /\ z[i] # Slash => Upto(z, i) = Upto(z, i - 1)
           /\ Cut(z, Upto(z, Len(z))) = Len(z) + 1
           /\ Cardinality(Cuts(z)) = Upto(z, Len(z)) + 1
<1> DEFINE n == Len(z)
           C == Cuts(z)
<1>1. n \in Nat /\ DOMAIN z = 1 .. n
  BY DEF Name
<1>2. /\ C \in SUBSET Nat /\ 0 \in C /\ n + 1 \in C /\ C \subseteq 0 .. n + 1
      /\ \A i \in 1 .. n : i \in C <=> z[i] = Slash
  BY <1>1 DEF Cuts
<1>3. IsFiniteSet(C)
  <2>1. IsFiniteSet(0 .. n + 1)
    BY <1>1, FS_Interval
  <2> HIDE DEF C
  <2> QED BY <1>2, <2>1, FS_Subset
<1> HIDE DEF C
<1>4. \A i \in C : Cut(z, Cardinality(Below(C, i))) = i
  BY <1>2, <1>3, CutIs DEF Cut, C
<1>5. Below(C, 0) = {} /\ Cardinality(Below(C, 0)) = 0
  <2>1. \A i \in C : ~(i < 0)
    BY <1>2
  <2> QED BY <2>1, FS_EmptySet DEF Below
<1>6. \A i \in Nat : /\ Cardinality(Below(C, i)) \in Nat
                     /\ Cardinality(Below(C, i + 1)) = Cardinality(Below(C, i))
                                                       + (IF i \in C THEN 1 ELSE 0)
  BY <1>2, <1>3, BelowIs
<1>7. Upto(z, 0) = 1 /\ Cut(z, 0) = 0
  BY <1>2, <1>4, <1>5, <1>6 DEF Upto, C
<1>8. ASSUME NEW i \in 1 .. n
      PROVE  /\ Upto(z, i - 1) \in Nat /\ Upto(z, i) \in Nat
             /\ z[i] = Slash => Upto(z, i) = Upto(z, i - 1) + 1 /\ Cut(z, Upto(z, i - 1)) = i
             /\ z[i] # Slash => Upto(z, i) = Upto(z, i - 1)
  <2>1. i \in Nat /\ i + 1 \in Nat /\ (i - 1) + 1 = i
    BY <1>1
  <2>2. Upto(z, i - 1) = Cardinality(Below(C, i)) /\ Upto(z, i) = Cardinality(Below(C, i + 1))
    BY <2>1 DEF Upto, C
  <2>3. Upto(z, i - 1) \in Nat /\ Upto(z, i) \in Nat
        /\ Upto(z, i) = Upto(z, i - 1) + (IF i \in C THEN 1 ELSE 0)
    BY <1>6, <2>1, <2>2
  <2>4. CASE z[i] = Slash
    <3>1. i \in C
      BY <1>2, <2>4
    <3> QED BY <1>4, <2>2, <2>3, <2>4, <3>1
  <2>5. CASE z[i] # Slash
    <3>1. i \notin C
      BY <1>2, <2>5
    <3> QED BY <2>3, <2>5, <3>1
  <2> QED BY <2>4, <2>5
<1>9. Cut(z, Upto(z, n)) = n + 1
  BY <1>2, <1>4 DEF Upto, C
<1>10. Cardinality(C) = Upto(z, n) + 1
  <2>1. C = Below(C, (n + 1) + 1)
    <3>1. \A i \in C : i < (n + 1) + 1
      BY <1>1, <1>2
    <3> QED BY <3>1 DEF Below
  <2>2. n + 1 \in Nat
    BY <1>1
  <2>3. Cardinality(Below(C, (n + 1) + 1)) = Cardinality(Below(C, n + 1)) + 1
    BY <1>2, <1>6, <2>2
  <2>4. Upto(z, n) = Cardinality(Below(C, n + 1))
    BY DEF Upto, C
  <2> QED BY <2>1, <2>3, <2>4
<1> QED BY <1>7, <1>8, <1>9, <1>10 DEF C

\* split() finds the names between the dividers: a name may be empty between two of
\* them, and the last one is dropped when it is.
THEOREM SplitDivides ==
    ASSUME NEW z \in Name
    PROVE  Names(z) = PathOf(z)
<1> DEFINE n == Len(z)
           N(i) == Upto(z, i)
           Part(k) == SubSeq(z, Cut(z, k - 1) + 1, Cut(z, k) - 1)
           parts == [k \in 1 .. Cardinality(Cuts(z)) - 1 |-> Part(k)]
<1>1. PICK a \in [0 .. n -> Splitting] :
        /\ Splits(a, z)
        /\ Split(z) = IF a[n].each = <<>> THEN a[n].parts ELSE Append(a[n].parts, a[n].each)
  BY SplitIs
<1>2. n \in Nat /\ z \in Seq(Letter)
  BY DEF Name
<1> DEFINE Claim(i) == /\ N(i) \in Nat /\ N(i) > 0
                       /\ Len(a[i].parts) = N(i) - 1
                       /\ \A k \in 1 .. N(i) - 1 : a[i].parts[k] = Part(k)
                       /\ Cut(z, N(i) - 1) \in 0 .. i
                       /\ a[i].each = SubSeq(z, Cut(z, N(i) - 1) + 1, i)
           T == {i \in 0 .. n : Claim(i)}
<1>3. 0 \in T
  <2>1. N(0) = 1 /\ Cut(z, 0) = 0
    BY CutsAre
  <2>2. a[0].parts = <<>> /\ a[0].each = <<>>
    BY <1>1 DEF Splits
  <2>3. SubSeq(z, 0 + 1, 0) = <<>>
    BY <1>2
  <2> HIDE DEF Part, N
  <2>4. Len(<<>>) = 0 /\ 1 - 1 = 0 /\ 1 .. 0 = {} /\ 0 \in 0 .. 0 /\ 0 \in 0 .. n
    BY <1>2
  <2>5. Claim(0)
    BY <2>1, <2>2, <2>3, <2>4
  <2> QED BY <2>4, <2>5
<1>4. ASSUME NEW i \in 1 .. n, i - 1 \in T PROVE i \in T
  <2> DEFINE m == N(i - 1)
             x == a[i - 1]
             start == Cut(z, m - 1)
  <2>1. i - 1 \in 0 .. n /\ i \in 0 .. n /\ i \in 1 .. Len(z)
    BY <1>2
  <2>2. /\ m \in Nat /\ m > 0 /\ Len(x.parts) = m - 1
        /\ \A k \in 1 .. m - 1 : x.parts[k] = Part(k)
        /\ start \in 0 .. i - 1 /\ x.each = SubSeq(z, start + 1, i - 1)
    BY <1>4
  <2>3. /\ N(i) \in Nat
        /\ z[i] = Slash => N(i) = m + 1 /\ Cut(z, m) = i
        /\ z[i] # Slash => N(i) = m
    BY <2>1, CutsAre
  <2>4. a[i] = SplitStep(x, z[i])
    BY <1>1, <2>1 DEF Splits
  <2>5. x \in Splitting /\ x.parts \in Seq(Name) /\ x.each \in Name
    <3>1. x \in Splitting
      BY <1>1, <2>1
    <3> QED BY <3>1 DEF Splitting
  <2>6. /\ SubSeq(z, start + 1, i) = Append(SubSeq(z, start + 1, i - 1), z[i])
        /\ SubSeq(z, i + 1, i) = <<>>
    <3>1. start \in Nat /\ start < i
      BY <2>1, <2>2
    <3> QED BY <1>2, <2>1, <3>1, PartGrows
  <2> HIDE DEF N, Part, x, start, m
  <2>7. CASE z[i] = Slash
    <3>1. a[i].parts = Append(x.parts, x.each) /\ a[i].each = <<>>
      BY <2>4, <2>7 DEF SplitStep
    <3>2. /\ Len(Append(x.parts, x.each)) = m /\ Append(x.parts, x.each)[m] = x.each
          /\ \A k \in 1 .. m - 1 : Append(x.parts, x.each)[k] = x.parts[k]
      <4>1. Len(x.parts) + 1 = m
        BY <2>2
      <4>2. /\ Len(Append(x.parts, x.each)) = Len(x.parts) + 1
            /\ Append(x.parts, x.each)[Len(x.parts) + 1] = x.each
            /\ \A k \in 1 .. Len(x.parts) : Append(x.parts, x.each)[k] = x.parts[k]
        BY <2>5
      <4> QED BY <2>2, <4>1, <4>2
    <3>3. N(i) = m + 1 /\ Cut(z, m) = i /\ N(i) - 1 = m
      BY <2>2, <2>3, <2>7
    <3>4. Part(m) = x.each
      BY <2>2, <3>3 DEF Part, start
    <3>5. ASSUME NEW k \in 1 .. m PROVE a[i].parts[k] = Part(k)
      <4>1. CASE k = m
        BY <3>1, <3>2, <3>4, <4>1
      <4>2. CASE k # m
        <5>1. k \in 1 .. m - 1
          BY <2>2, <4>2
        <5> QED BY <2>2, <3>1, <3>2, <5>1
      <4> QED BY <4>1, <4>2
    <3>6. Cut(z, N(i) - 1) \in 0 .. i /\ a[i].each = SubSeq(z, Cut(z, N(i) - 1) + 1, i)
      BY <2>1, <2>6, <3>1, <3>3
    <3>7. N(i) > 0 /\ Len(a[i].parts) = N(i) - 1
      BY <2>2, <3>1, <3>2, <3>3
    <3> QED BY <2>1, <2>3, <3>3, <3>5, <3>6, <3>7
  <2>8. CASE z[i] # Slash
    <3>1. a[i].parts = x.parts /\ a[i].each = Append(x.each, z[i])
      BY <2>4, <2>5, <2>8 DEF SplitStep, Splitting
    <3>2. N(i) = m
      BY <2>3, <2>8
    <3>3. start = Cut(z, N(i) - 1)
      BY <3>2 DEF start
    <3>4. start \in 0 .. i
      BY <2>1, <2>2
    <3> QED BY <2>1, <2>2, <2>6, <3>1, <3>2, <3>3, <3>4
  <2> QED BY <2>7, <2>8
<1>5. n \in T
  <2> HIDE DEF T, n
  <2>1. \A i \in 0 .. n : i \in T
    BY <1>2, <1>3, <1>4, Induction
  <2> QED BY <1>2, <2>1
<1> DEFINE m == N(n)
           x == a[n]
<1>6. Claim(n)
  BY <1>5
<1>7. Cut(z, m) = n + 1 /\ Cardinality(Cuts(z)) = m + 1
  BY CutsAre
<1>8. x \in Splitting /\ x.parts \in Seq(Name) /\ x.each \in Name
  <2>1. x \in Splitting
    BY <1>1, <1>2
  <2> QED BY <2>1 DEF Splitting
<1>9. parts = Append(x.parts, x.each)
  <2>1. Cardinality(Cuts(z)) - 1 = m /\ m \in Nat /\ Len(x.parts) = m - 1
    BY <1>6, <1>7
  <2>2. Part(m) = x.each
    <3>1. (n + 1) - 1 = n
      BY <1>2
    <3> QED BY <1>6, <1>7, <3>1
  <2>3. \A k \in 1 .. m - 1 : x.parts[k] = Part(k)
    BY <1>6
  <2> DEFINE r == Append(x.parts, x.each)
  <2>4. /\ r \in Seq(Name) /\ Len(r) = m /\ r[m] = x.each
        /\ \A k \in 1 .. m - 1 : r[k] = x.parts[k]
    <3> HIDE DEF x, m
    <3>1. /\ r \in Seq(Name) /\ Len(r) = Len(x.parts) + 1 /\ r[Len(x.parts) + 1] = x.each
          /\ \A k \in 1 .. Len(x.parts) : r[k] = x.parts[k]
      BY <1>8
    <3>2. Len(x.parts) + 1 = m
      BY <2>1
    <3> QED BY <2>1, <3>1, <3>2
  <2> HIDE DEF Part, x, m, r
  <2>5. ASSUME NEW k \in 1 .. m PROVE Part(k) = r[k]
    <3>1. CASE k = m
      BY <2>2, <2>4, <3>1
    <3>2. CASE k # m
      <4>1. k \in 1 .. m - 1
        BY <2>1, <3>2
      <4> QED BY <2>3, <2>4, <4>1
    <3> QED BY <3>1, <3>2
  <2>6. parts = [k \in 1 .. m |-> r[k]]
    BY <2>1, <2>5
  <2>7. r = [k \in 1 .. m |-> r[k]]
    BY <2>1, <2>4
  <2> QED BY <2>6, <2>7 DEF r
<1>10. Names(z) = Tail(IF Last(parts) = <<>> THEN Front(parts) ELSE parts)
  BY DEF Names, Cuts, Cut
<1>11. Last(Append(x.parts, x.each)) = x.each /\ Front(Append(x.parts, x.each)) = x.parts
  <2> DEFINE r == Append(x.parts, x.each)
  <2> HIDE DEF x
  <2>1. /\ r \in Seq(Name) /\ Len(r) = Len(x.parts) + 1 /\ r[Len(x.parts) + 1] = x.each
        /\ \A k \in 1 .. Len(x.parts) : r[k] = x.parts[k]
    BY <1>8
  <2>2. Len(x.parts) \in Nat /\ Len(r) - 1 = Len(x.parts) /\ Len(x.parts) <= Len(r)
    BY <1>8, <2>1
  <2>3. Last(r) = x.each
    BY <2>1 DEF Last
  <2>4. Front(r) = SubSeq(r, 1, Len(x.parts))
    BY <2>2 DEF Front
  <2> HIDE DEF r
  <2>5. SubSeq(r, 1, Len(x.parts)) = x.parts
    <3> DEFINE l == SubSeq(r, 1, Len(x.parts))
    <3>1. l \in Seq(Name) /\ Len(l) = Len(x.parts) /\ \A k \in 1 .. Len(x.parts) : l[k] = r[k]
      BY <2>1, <2>2, FrontIs
    <3> HIDE DEF l
    <3>2. \A k \in 1 .. Len(l) : l[k] = x.parts[k]
      BY <2>1, <3>1
    <3>3. l = x.parts
      BY <1>8, <3>1, <3>2, SameSeq
    <3> QED BY <3>3 DEF l
  <2> QED BY <2>3, <2>4, <2>5 DEF r
<1> HIDE DEF parts
<1> QED BY <1>1, <1>9, <1>10, <1>11 DEF PathOf

LEMMA PathOfType ==
    ASSUME NEW z \in Path
    PROVE  /\ PathOf(z) \in Seq(Name) /\ Len(PathOf(z)) > 0
           /\ Last(PathOf(z)) \in Name /\ Front(PathOf(z)) \in Seq(Name)
<1>1. Split(z) \in Seq(Name) /\ Len(Split(z)) > 1
  <2>1. z \in Name
    BY InputAssumption DEF Name
  <2> QED BY <2>1, SplitType, PathAssumption
<1>2. PathOf(z) \in Seq(Name) /\ Len(PathOf(z)) = Len(Split(z)) - 1
  BY <1>1 DEF PathOf
<1>3. Last(PathOf(z)) \in Name /\ Front(PathOf(z)) \in Seq(Name)
  BY <1>1, <1>2 DEF Last, Front
<1> QED BY <1>1, <1>2, <1>3

-----------------------------------------------------------------------------
\* Buffers.  A sound buffer has been emptied and written to since, but not read from.
Sound(b) ==
    /\ b \in Buffer /\ Len(b.contents) = b.capacity
    /\ b.start = 0 /\ b.end <= b.capacity /\ b.capacity >= 24 /\ ~b.over

LEMMA FreshType ==
    ASSUME NEW n \in Nat
    PROVE  Fresh(n) \in Seq(Nat) /\ Len(Fresh(n)) = n
<1>1. Junk \in Nat
  BY WIs DEF Junk
<1> QED BY <1>1 DEF Fresh

\* buffer_extend() makes room and keeps what is in use.
LEMMA ExtendIs ==
    ASSUME NEW b, Sound(b), NEW n \in Nat
    PROVE  /\ Sound(Extend(b, n)) /\ Extend(b, n).end = b.end
           /\ b.end + n <= Extend(b, n).capacity
           /\ Contents(Extend(b, n)) = Contents(b)
<1> DEFINE capacity == Max2(2 * b.capacity, b.capacity + n)
           grown == [b EXCEPT !.start = 0, !.end = Length(b), !.capacity = capacity,
                              !.contents = SubSeq(@, 1, Length(b)) \o Fresh(capacity - Length(b))]
<1>1. b.end \in Nat /\ b.capacity \in Nat /\ b.contents \in Seq(Nat) /\ b \in Buffer
  BY DEF Sound, Buffer
<1>2. Length(b) = b.end /\ b.end <= b.capacity /\ Len(b.contents) = b.capacity
  BY <1>1 DEF Sound, Length
<1>3. CASE b.capacity >= b.end + n
  BY <1>1, <1>3 DEF Extend, Sound
<1>4. CASE ~(b.capacity >= b.end + n)
  <2>1. capacity \in Nat /\ capacity >= b.capacity /\ capacity >= b.end + n
    BY <1>1, <1>2 DEF Max2
  <2>2. Extend(b, n) = grown
    BY <1>4 DEF Extend
  <2> HIDE DEF capacity
  <2> DEFINE old == SubSeq(b.contents, 1, b.end)
             new == Fresh(capacity - b.end)
  <2>3. old \in Seq(Nat) /\ Len(old) = b.end /\ new \in Seq(Nat) /\ Len(new) = capacity - b.end
    <3>1. capacity - b.end \in Nat
      BY <1>1, <1>2, <2>1
    <3>2. new \in Seq(Nat) /\ Len(new) = capacity - b.end
      BY <3>1, FreshType
    <3>3. old \in Seq(Nat) /\ Len(old) = b.end
      BY <1>1, <1>2, FrontIs
    <3> QED BY <3>2, <3>3
  <2>4. old \o new \in Seq(Nat) /\ Len(old \o new) = capacity /\ SubSeq(old \o new, 1, b.end) = old
    <3> HIDE DEF old, new
    <3>0. /\ old \o new \in Seq(Nat) /\ Len(old \o new) = Len(old) + Len(new)
          /\ \A i \in 1 .. Len(old) : (old \o new)[i] = old[i]
      BY <2>3, ConcatIs
    <3>1. old \o new \in Seq(Nat) /\ Len(old \o new) = capacity
      BY <1>1, <2>1, <2>3, <3>0
    <3> DEFINE s == SubSeq(old \o new, 1, b.end)
    <3>2. /\ s \in Seq(Nat) /\ Len(s) = b.end
          /\ \A i \in 1 .. b.end : s[i] = (old \o new)[i]
      <4>1. b.end \in Nat /\ b.end <= Len(old \o new)
        BY <1>1, <1>2, <2>1, <3>1
      <4> QED BY <3>1, <4>1, FrontIs
    <3>3. \A i \in 1 .. b.end : s[i] = old[i]
      BY <2>3, <3>0, <3>2
    <3> HIDE DEF s
    <3>4. s = old
      BY <2>3, <3>2, <3>3, SameSeq
    <3> QED BY <3>1, <3>4 DEF s
  <2>5. /\ grown \in Buffer /\ grown.start = 0 /\ grown.end = b.end
        /\ grown.capacity = capacity /\ grown.over = b.over
        /\ grown.contents = old \o new
    <3> DEFINE t == old \o new
    <3>1. grown = [b EXCEPT !.start = 0, !.end = b.end, !.capacity = capacity, !.contents = t]
      BY <1>2
    <3> HIDE DEF t, grown
    <3>2. t \in Seq(Nat)
      BY <2>4 DEF t
    <3>3. /\ grown \in Buffer /\ grown.start = 0 /\ grown.end = b.end
          /\ grown.capacity = capacity /\ grown.over = b.over
          /\ grown.contents = t
      BY <1>1, <2>1, <3>1, <3>2 DEF Buffer
    <3> QED BY <3>3 DEF t
  <2> HIDE DEF grown, old, new
  <2>6. Sound(grown) /\ grown.end = b.end /\ grown.capacity = capacity
    BY <1>1, <1>2, <2>1, <2>4, <2>5 DEF Sound, Buffer
  <2>7. Contents(grown) = Contents(b)
    <3>1. b.start = 0 /\ 0 + 1 = 1
      BY DEF Sound
    <3> QED BY <2>4, <2>5, <3>1 DEF Contents, old
  <2> QED BY <2>1, <2>2, <2>6, <2>7
<1> QED BY <1>3, <1>4

\* memcpy within a buffer changes what it is to change.
LEMMA StoreIs ==
    ASSUME NEW b \in Buffer, Len(b.contents) = b.capacity,
           NEW n \in Nat, NEW w \in Seq(Nat), n + Len(w) <= b.capacity
    PROVE  \E s \in Seq(Nat) :
             /\ Store(b, n, w) = [b EXCEPT !.contents = s]
             /\ Len(s) = b.capacity
             /\ \A i \in 1 .. n : s[i] = b.contents[i]
             /\ \A i \in 1 .. Len(w) : s[n + i] = w[i]
<1> DEFINE front == SubSeq(b.contents, 1, n)
           back  == SubSeq(b.contents, n + Len(w) + 1, Len(b.contents))
           s == front \o w \o back
<1>1. b.contents \in Seq(Nat) /\ b.capacity \in Nat /\ b.over \in BOOLEAN
  BY DEF Buffer
<1>2. front \in Seq(Nat) /\ Len(front) = n /\ \A i \in 1 .. n : front[i] = b.contents[i]
  BY <1>1
<1>3. back \in Seq(Nat) /\ Len(back) = b.capacity - (n + Len(w))
  BY <1>1
<1>4. (b.over \/ n + Len(w) > b.capacity) = b.over
  BY <1>1
<1>5. Store(b, n, w) = [b EXCEPT !.over = @ \/ n + Len(w) > b.capacity, !.contents = s]
  BY DEF Store
<1> HIDE DEF front, back
<1> DEFINE t == front \o w
<1>6. /\ t \in Seq(Nat) /\ Len(t) = n + Len(w)
      /\ \A i \in 1 .. n : t[i] = b.contents[i]
      /\ \A i \in 1 .. Len(w) : t[n + i] = w[i]
  <2>1. /\ t \in Seq(Nat) /\ Len(t) = Len(front) + Len(w)
        /\ \A i \in 1 .. Len(front) : t[i] = front[i]
        /\ \A i \in 1 .. Len(w) : t[Len(front) + i] = w[i]
    <3>1. front \in Seq(Nat) /\ w \in Seq(Nat)
      BY <1>2
    <3> QED BY <3>1, ConcatIs
  <2> HIDE DEF t
  <2> QED BY <1>2, <2>1
<1>7. /\ s \in Seq(Nat) /\ Len(s) = b.capacity
      /\ \A i \in 1 .. n : s[i] = b.contents[i]
      /\ \A i \in 1 .. Len(w) : s[n + i] = w[i]
  <2> HIDE DEF t
  <2>1. /\ t \o back \in Seq(Nat) /\ Len(t \o back) = b.capacity
        /\ \A i \in 1 .. n + Len(w) : (t \o back)[i] = t[i]
    <3>1. /\ t \o back \in Seq(Nat) /\ Len(t \o back) = Len(t) + Len(back)
          /\ \A i \in 1 .. Len(t) : (t \o back)[i] = t[i]
      BY <1>3, <1>6, ConcatIs
    <3> QED BY <1>1, <1>3, <1>6, <3>1
  <2>2. \A i \in 1 .. n : i \in 1 .. n + Len(w)
    OBVIOUS
  <2>3. \A i \in 1 .. Len(w) : n + i \in 1 .. n + Len(w)
    OBVIOUS
  <2>4. s = t \o back
    BY DEF t
  <2> HIDE DEF s
  <2> QED BY <1>6, <2>1, <2>2, <2>3, <2>4
<1> HIDE DEF s
<1>8. Store(b, n, w) = [b EXCEPT !.contents = s]
  BY <1>1, <1>4, <1>5 DEF Buffer
<1> QED BY <1>7, <1>8

\* Words are put behind those that are there.
LEMMA PushIs ==
    ASSUME NEW b, Sound(b), NEW w \in Seq(Nat)
    PROVE  /\ Sound(Push(b, w)) /\ Push(b, w).end = b.end + Len(w)
           /\ Contents(Push(b, w)) = Contents(b) \o w
<1> DEFINE e == Extend(b, Len(w))
<1>1. /\ Sound(e) /\ e.end = b.end /\ b.end + Len(w) <= e.capacity
      /\ Contents(e) = Contents(b)
  BY ExtendIs
<1>2. Push(b, w) = [Store(e, e.end, w) EXCEPT !.end = e.end + Len(w)]
  BY DEF Push
<1> HIDE DEF e
<1>3. e \in Buffer /\ e.end \in Nat /\ e.contents \in Seq(Nat) /\ Len(e.contents) = e.capacity
      /\ e.capacity \in Nat /\ e.start = 0
  BY <1>1 DEF Sound, Buffer
<1>4. PICK s \in Seq(Nat) :
        /\ Store(e, e.end, w) = [e EXCEPT !.contents = s]
        /\ Len(s) = e.capacity
        /\ \A i \in 1 .. e.end : s[i] = e.contents[i]
        /\ \A i \in 1 .. Len(w) : s[e.end + i] = w[i]
  BY <1>1, <1>3, StoreIs, ZenonT(80)
<1> DEFINE p == [e EXCEPT !.contents = s, !.end = e.end + Len(w)]
<1>5. Push(b, w) = p
  BY <1>2, <1>3, <1>4 DEF Buffer
<1>6. /\ p \in Buffer /\ p.start = 0 /\ p.end = e.end + Len(w) /\ p.capacity = e.capacity
      /\ p.over = e.over /\ p.contents = s
  <2> DEFINE n == e.end + Len(w)
  <2>1. n \in Nat
    BY <1>3
  <2>2. p = [e EXCEPT !.contents = s, !.end = n]
    OBVIOUS
  <2> HIDE DEF n, p
  <2>3. /\ p \in Buffer /\ p.start = e.start /\ p.end = n /\ p.capacity = e.capacity
        /\ p.over = e.over /\ p.contents = s
    BY <1>3, <2>1, <2>2 DEF Buffer
  <2> QED BY <1>3, <2>3 DEF n
<1> HIDE DEF p
<1>7. Sound(p)
  BY <1>1, <1>3, <1>4, <1>6 DEF Sound
<1>8. Contents(p) = Contents(e) \o w
  <2>1. Contents(p) = SubSeq(s, 1, e.end + Len(w)) /\ Contents(e) = SubSeq(e.contents, 1, e.end)
    <3>1. 0 + 1 = 1
      OBVIOUS
    <3> QED BY <1>3, <1>6, <3>1 DEF Contents
  <2> DEFINE l == SubSeq(s, 1, e.end + Len(w))
             r == SubSeq(e.contents, 1, e.end) \o w
  <2>2. l \in Seq(Nat) /\ Len(l) = e.end + Len(w) /\ \A i \in 1 .. Len(l) : l[i] = s[i]
    <3> DEFINE n == e.end + Len(w)
    <3>1. n \in Nat /\ s \in Seq(Nat) /\ n <= Len(s)
      BY <1>1, <1>3, <1>4
    <3> HIDE DEF n
    <3>2. /\ SubSeq(s, 1, n) \in Seq(Nat) /\ Len(SubSeq(s, 1, n)) = n
          /\ \A i \in 1 .. n : SubSeq(s, 1, n)[i] = s[i]
      BY <3>1, FrontIs
    <3> QED BY <3>2 DEF n
  <2>3. r \in Seq(Nat) /\ Len(r) = e.end + Len(w)
        /\ (\A i \in 1 .. e.end : r[i] = e.contents[i])
        /\ (\A i \in 1 .. Len(w) : r[e.end + i] = w[i])
    <3> DEFINE o == SubSeq(e.contents, 1, e.end)
    <3>1. o \in Seq(Nat) /\ Len(o) = e.end /\ \A i \in 1 .. e.end : o[i] = e.contents[i]
      <4>1. e.end <= Len(e.contents)
        BY <1>1, <1>3
      <4> QED BY <1>3, <4>1, FrontIs
    <3> HIDE DEF o
    <3>2. /\ o \o w \in Seq(Nat) /\ Len(o \o w) = Len(o) + Len(w)
          /\ \A i \in 1 .. Len(o) : (o \o w)[i] = o[i]
          /\ \A i \in 1 .. Len(w) : (o \o w)[Len(o) + i] = w[i]
      <4>1. o \in Seq(Nat) /\ w \in Seq(Nat)
        BY <3>1
      <4> QED BY <4>1, ConcatIs
    <3>3. r = o \o w
      BY DEF o
    <3> HIDE DEF r
    <3> QED BY <3>1, <3>2, <3>3
  <2>4. ASSUME NEW i \in 1 .. Len(l) PROVE l[i] = r[i]
    <3> HIDE DEF l, r
    <3>1. CASE i <= e.end
      BY <1>3, <1>4, <2>2, <2>3, <3>1
    <3>2. CASE i > e.end
      <4>1. i - e.end \in 1 .. Len(w) /\ e.end + (i - e.end) = i
        BY <1>3, <2>2, <3>2, SMTT(40)
      <4>2. s[i] = w[i - e.end]
        BY <1>4, <4>1
      <4>3. r[i] = w[i - e.end]
        BY <2>3, <4>1
      <4> QED BY <2>2, <4>2, <4>3
    <3> QED BY <1>3, <2>2, <3>1, <3>2
  <2> HIDE DEF l, r
  <2>5. l = r
    BY <2>2, <2>3, <2>4, SameSeq
  <2> QED BY <2>1, <2>5 DEF l, r
<1> QED BY <1>1, <1>5, <1>6, <1>7, <1>8

\* A list of words, one after the other.
LEMMA PushAllIs ==
    ASSUME NEW b, Sound(b), NEW ws \in Seq(Seq(Nat))
    PROVE  /\ Sound(PushAll(b, ws)) /\ PushAll(b, ws).end = b.end + Len(FlattenSeq(ws))
           /\ Contents(PushAll(b, ws)) = Contents(b) \o FlattenSeq(ws)
<1> DEFINE n == Len(ws)
           S == {p \in Buffer : Sound(p)}
           after[i \in 0 .. Len(ws)] == IF i = 0 THEN b ELSE Push(after[i - 1], ws[i])
           G == [p \in (1 .. n) \X S |-> Push(p[2], ws[p[1]])]
<1>1. n \in Nat /\ b \in S /\ \A i \in 1 .. n : ws[i] \in Seq(Nat)
  BY DEF Sound
<1>2. ASSUME NEW a \in S, NEW w \in Seq(Nat)
      PROVE  Push(a, w) \in S /\ Push(a, w).end = a.end + Len(w)
             /\ Contents(Push(a, w)) = Contents(a) \o w
  <2>1. Sound(Push(a, w)) /\ Push(a, w).end = a.end + Len(w)
        /\ Contents(Push(a, w)) = Contents(a) \o w
    BY PushIs
  <2>2. Push(a, w) \in Buffer
    BY <2>1 DEF Sound
  <2> QED BY <2>1, <2>2
<1>3. \A a \in S : Sound(a)
  OBVIOUS
<1>4. \A a \in S : a.end \in Nat /\ Contents(a) \in Seq(Nat) /\ Len(Contents(a)) = a.end
  <2> TAKE a \in S
  <2>1. a.end \in Nat /\ a.contents \in Seq(Nat) /\ a.end <= Len(a.contents) /\ a.start = 0
    BY DEF Sound, Buffer
  <2>2. Contents(a) = SubSeq(a.contents, 1, a.end)
    <3>1. 0 + 1 = 1
      OBVIOUS
    <3> QED BY <2>1, <3>1 DEF Contents
  <2> QED BY <2>1, <2>2, FrontIs
<1> HIDE DEF S
<1>5. G \in [(1 .. n) \X S -> S]
  BY <1>1, <1>2
<1>6. PICK g \in [0 .. n -> S] : Steps(n, b, G, g)
  <2> HIDE DEF G, n
  <2> QED BY <1>1, <1>5, Recursion
<1>7. g = [i \in 0 .. n |-> IF i = 0 THEN b ELSE Push(g[i - 1], ws[i])]
  <2>1. ASSUME NEW i \in 0 .. n
        PROVE  g[i] = IF i = 0 THEN b ELSE Push(g[i - 1], ws[i])
    <3>1. CASE i = 0
      BY <1>6, <3>1 DEF Steps
    <3>2. CASE i # 0
      <4>1. <<i, g[i - 1]>> \in (1 .. n) \X S
        <5>1. i \in 1 .. n /\ i - 1 \in 0 .. n
          BY <1>1, <3>2
        <5> QED BY <5>1
      <4> QED BY <1>6, <3>2, <4>1 DEF Steps
    <3> QED BY <3>1, <3>2
  <2> QED BY <2>1
<1>8. after = [i \in 0 .. n |-> IF i = 0 THEN b ELSE Push(after[i - 1], ws[i])]
  BY <1>7
<1>9. PushAll(b, ws) = after[n]
  BY DEF PushAll
<1> HIDE DEF after
<1>10. PICK h \in [0 .. n -> Seq(Nat)] : Joins(h, ws) /\ FlattenSeq(ws) = h[n]
  BY FlattenIs
<1> DEFINE T == {i \in 0 .. n : /\ after[i] \in S /\ after[i].end = b.end + Len(h[i])
                               /\ Contents(after[i]) = Contents(b) \o h[i]}
<1>11. 0 \in T
  <2>1. after[0] = b /\ h[0] = <<>> /\ Len(<<>>) = 0 /\ 0 \in 0 .. n
    BY <1>1, <1>8, <1>10 DEF Joins
  <2>2. b.end = b.end + 0 /\ Contents(b) = Contents(b) \o <<>>
    BY <1>1, <1>4
  <2> QED BY <1>1, <2>1, <2>2
<1>12. ASSUME NEW i \in 1 .. n, i - 1 \in T PROVE i \in T
  <2>1. i \in 0 .. n /\ i # 0 /\ i - 1 \in 0 .. n
    OBVIOUS
  <2>2. after[i] = Push(after[i - 1], ws[i]) /\ h[i] = h[i - 1] \o ws[i]
    BY <1>8, <1>10, <2>1 DEF Joins
  <2>3. /\ after[i - 1] \in S /\ after[i - 1].end = b.end + Len(h[i - 1])
        /\ Contents(after[i - 1]) = Contents(b) \o h[i - 1]
    BY <1>12
  <2>4. ws[i] \in Seq(Nat) /\ h[i - 1] \in Seq(Nat) /\ Contents(b) \in Seq(Nat) /\ b.end \in Nat
    BY <1>1, <1>4, <2>1
  <2>5. /\ after[i] \in S /\ after[i].end = (b.end + Len(h[i - 1])) + Len(ws[i])
        /\ Contents(after[i]) = (Contents(b) \o h[i - 1]) \o ws[i]
    BY <1>2, <2>2, <2>3, <2>4
  <2>6. /\ (Contents(b) \o h[i - 1]) \o ws[i] = Contents(b) \o h[i]
        /\ Len(h[i]) = Len(h[i - 1]) + Len(ws[i])
    <3> DEFINE x == Contents(b)
               y == h[i - 1]
               z == ws[i]
    <3>1. x \in Seq(Nat) /\ y \in Seq(Nat) /\ z \in Seq(Nat) /\ h[i] = y \o z
      BY <2>2, <2>4
    <3> HIDE DEF x, y, z
    <3>2. x \in Seq(Nat) /\ y \in Seq(Nat) /\ z \in Seq(Nat)
      BY <3>1
    <3>3. (x \o y) \o z = x \o (y \o z)
      BY <3>2, WordsAssoc, Zenon
    <3>4. Len(y \o z) = Len(y) + Len(z)
      BY <3>2, ConcatIs
    <3> QED BY <3>1, <3>3, <3>4 DEF x, y, z
  <2>7. (b.end + Len(h[i - 1])) + Len(ws[i]) = b.end + Len(h[i])
    <3>1. Len(h[i - 1]) \in Nat /\ Len(ws[i]) \in Nat /\ b.end \in Nat
      BY <2>4
    <3>2. Len(h[i]) = Len(h[i - 1]) + Len(ws[i])
      BY <2>6
    <3> DEFINE x == Len(h[i - 1])
               y == Len(ws[i])
               z == Len(h[i])
               e == b.end
    <3>3. x \in Nat /\ y \in Nat /\ e \in Nat /\ z = x + y
      BY <3>1, <3>2
    <3> HIDE DEF x, y, z, e
    <3>4. (e + x) + y = e + z
      BY <3>3
    <3> QED BY <3>4 DEF x, y, z, e
  <2> QED BY <2>1, <2>5, <2>6, <2>7
<1>13. n \in T
  <2> HIDE DEF T, n
  <2>1. \A i \in 0 .. n : i \in T
    BY <1>1, <1>11, <1>12, Induction
  <2> QED BY <1>1, <2>1
<1> HIDE DEF n
<1> QED BY <1>3, <1>9, <1>10, <1>13

-----------------------------------------------------------------------------
\* Requests.

LEMMA OpIs ==
    /\ Op.GETATTR = 9 /\ Op.GETFH = 10 /\ Op.LOCK = 12 /\ Op.LOCKU = 14 /\ Op.LOOKUP = 15
    /\ Op.OPEN = 18 /\ Op.PUTFH = 22 /\ Op.PUTROOTFH = 24 /\ Op.READ = 25 /\ Op.REMOVE = 28
    /\ Op.WRITE = 38 /\ Op.EXCHANGE_ID = 42 /\ Op.CREATE_SESSION = 43 /\ Op.SEQUENCE = 53
    /\ Op.RECLAIM_COMPLETE = 58
BY DEF Op

LEMMA Be32Type ==
    ASSUME NEW n \in Nat
    PROVE  Be32(n) \in Seq(Nat) /\ Len(Be32(n)) = 1
BY DEF Be32

LEMMA Be64Type ==
    ASSUME NEW n \in Nat
    PROVE  Be64(n) \in Seq(Nat) /\ Len(Be64(n)) = 2
<1>1. n \div W \in Nat /\ n % W \in Nat
  BY WIs
<1> QED BY <1>1 DEF Be64

LEMMA OnesType ==
    ASSUME NEW n \in Nat
    PROVE  [i \in 1 .. n |-> 1] \in Name /\ Len([i \in 1 .. n |-> 1]) = n
BY LetterIs DEF Name

LEMMA HeaderStep ==
    ASSUME NEW i \in 1 .. 18, NEW x, NEW y, NEW z, x = y + z,
           y = IF i - 1 < 11 THEN i - 1 ELSE (i - 1) + 4, z = IF i = 11 THEN 5 ELSE 1
    PROVE  x = IF i < 11 THEN i ELSE i + 4
OBVIOUS

\* The header of a request is 22 words long.
LEMMA HeaderIs ==
    ASSUME NEW xid \in Nat
    PROVE  /\ Header(xid) \in Seq(Seq(Nat)) /\ FlattenSeq(Header(xid)) \in Seq(Nat)
           /\ Len(FlattenSeq(Header(xid))) = 22
<1> DEFINE H == Header(xid)
           machine == String([i \in 1 .. 15 |-> 1])
<1>1. machine \in Seq(Nat) /\ Len(machine) = 5
  <2> DEFINE name == [i \in 1 .. 15 |-> 1]
  <2>1. name \in Seq(Nat) /\ Len(name) = 15
    BY OnesType, NameIs
  <2> HIDE DEF name
  <2>2. Pad(15) \div 4 = 4
    BY PadIs, WIs
  <2>3. String(name) \in Seq(Nat) /\ Len(String(name)) = 1 + Pad(Len(name)) \div 4
    BY <2>1, StringType
  <2>4. String(name) \in Seq(Nat) /\ Len(String(name)) = 5
    BY <2>1, <2>2, <2>3
  <2> QED BY <2>4 DEF name
<1>2. Program \in Nat
  BY SMT DEF Program
<1>3. H = <<Be32(0), Be32(xid), Be32(0), Be32(2), Be32(Program), Be32(4), Be32(1), Be32(1),
            Be32(36), Be32(5), machine, Be32(0), Be32(0), Be32(0), Be32(0), Be32(0), Be32(0),
            Be32(1)>>
  BY DEF Header
<1> HIDE DEF machine, H
<1>4. /\ Len(H) = 18 /\ H \in Seq(Seq(Nat))
      /\ \A i \in 1 .. 18 : H[i] \in Seq(Nat) /\ Len(H[i]) = IF i = 11 THEN 5 ELSE 1
  <2>1. /\ Be32(0) \in Seq(Nat) /\ Be32(1) \in Seq(Nat) /\ Be32(2) \in Seq(Nat)
        /\ Be32(4) \in Seq(Nat) /\ Be32(5) \in Seq(Nat) /\ Be32(36) \in Seq(Nat)
        /\ Be32(xid) \in Seq(Nat) /\ Be32(Program) \in Seq(Nat)
        /\ Len(Be32(0)) = 1 /\ Len(Be32(1)) = 1 /\ Len(Be32(2)) = 1 /\ Len(Be32(4)) = 1
        /\ Len(Be32(5)) = 1 /\ Len(Be32(36)) = 1 /\ Len(Be32(xid)) = 1
        /\ Len(Be32(Program)) = 1
    BY <1>2, Be32Type
  <2>2. Len(H) = 18
    BY <1>3
  <2>3. ASSUME NEW i \in 1 .. 18
        PROVE  H[i] \in Seq(Nat) /\ Len(H[i]) = IF i = 11 THEN 5 ELSE 1
    <3>1. CASE i = 11
      BY <1>1, <1>3, <3>1
    <3>2. CASE i # 11
      <4>1. H[i] \in {Be32(0), Be32(1), Be32(2), Be32(4), Be32(5), Be32(36), Be32(xid),
                      Be32(Program)}
        BY <1>3, <3>2
      <4> QED BY <2>1, <3>2, <4>1
    <3> QED BY <3>1, <3>2
  <2>4. H \in Seq(Seq(Nat))
    BY <1>1, <1>3, <2>1
  <2> QED BY <2>2, <2>3, <2>4
<1>5. PICK g \in [0 .. 18 -> Seq(Nat)] : Joins(g, H) /\ FlattenSeq(H) = g[18]
  BY <1>4, FlattenIs, ZenonT(80)
<1> DEFINE T == {i \in 0 .. 18 : Len(g[i]) = IF i < 11 THEN i ELSE i + 4}
<1>6. 0 \in T
  BY <1>5 DEF Joins
<1>7. ASSUME NEW i \in 1 .. 18, i - 1 \in T PROVE i \in T
  <2>1. g[i] = g[i - 1] \o H[i] /\ g[i - 1] \in Seq(Nat) /\ H[i] \in Seq(Nat)
    <3>1. i \in 1 .. Len(H) /\ i - 1 \in 0 .. 18
      BY <1>4
    <3> QED BY <1>4, <1>5, <3>1 DEF Joins
  <2>2. Len(g[i]) = Len(g[i - 1]) + Len(H[i])
    BY <2>1, ConcatIs
  <2>3. Len(g[i - 1]) = IF i - 1 < 11 THEN i - 1 ELSE (i - 1) + 4
    BY <1>7
  <2>4. Len(H[i]) = IF i = 11 THEN 5 ELSE 1
    BY <1>4
  <2>5. Len(g[i]) = IF i < 11 THEN i ELSE i + 4
    BY <2>2, <2>3, <2>4, HeaderStep
  <2> QED BY <2>5
<1>8. 18 \in T
  <2> HIDE DEF T
  <2>1. \A i \in 0 .. 18 : i \in T
    BY <1>6, <1>7, Induction
  <2> QED BY <2>1
<1> QED BY <1>4, <1>5, <1>8 DEF H

\* An operation is its number and the words pushed after it.
Operation == Nat \X Seq(Seq(Nat))

Pushed(ops) == FlattenSeq([i \in DOMAIN ops |-> <<Be32(ops[i][1])>> \o ops[i][2]])

LEMMA PushedType ==
    ASSUME NEW ops \in Seq(Operation)
    PROVE  Pushed(ops) \in Seq(Seq(Nat))
<1> DEFINE s == [i \in DOMAIN ops |-> <<Be32(ops[i][1])>> \o ops[i][2]]
<1>1. ASSUME NEW i \in 1 .. Len(ops)
      PROVE  <<Be32(ops[i][1])>> \o ops[i][2] \in Seq(Seq(Nat))
  <2>1. ops[i] \in Operation
    OBVIOUS
  <2>2. ops[i][1] \in Nat /\ ops[i][2] \in Seq(Seq(Nat))
    BY <2>1 DEF Operation
  <2>3. <<Be32(ops[i][1])>> \in Seq(Seq(Nat))
    BY <2>2, Be32Type
  <2> QED BY <2>2, <2>3, ConcatIs
<1>2. s \in Seq(Seq(Seq(Nat)))
  <2>1. DOMAIN ops = 1 .. Len(ops) /\ Len(ops) \in Nat
    OBVIOUS
  <2> QED BY <1>1, <2>1
<1> HIDE DEF s
<1>3. FlattenSeq(s) \in Seq(Seq(Nat))
  BY <1>2, FlattenType
<1> QED BY <1>3 DEF Pushed, s

LEMMA ResetIs ==
    ASSUME NEW b \in Buffer, Len(b.contents) = b.capacity, b.capacity >= 24, ~b.over
    PROVE  Sound(Reset(b)) /\ Reset(b).end = 0 /\ Contents(Reset(b)) = <<>>
<1>1. Reset(b) \in Buffer /\ Reset(b).start = 0 /\ Reset(b).end = 0
      /\ Reset(b).capacity = b.capacity /\ Reset(b).contents = b.contents
      /\ Reset(b).over = b.over
  BY DEF Reset, Buffer
<1>2. Sound(Reset(b))
  BY <1>1 DEF Sound, Buffer
<1>3. Contents(Reset(b)) = SubSeq(b.contents, 1, 0)
  <2>1. 0 + 1 = 1
    OBVIOUS
  <2> QED BY <1>1, <2>1 DEF Contents
<1>4. SubSeq(b.contents, 1, 0) = <<>>
  BY DEF Buffer
<1> QED BY <1>1, <1>2, <1>3, <1>4

\* allocate_rpc(), push_op() and all the push_* put the header, a word for the number
\* of operations and the operations into the buffer, whatever it had in it and
\* however often it has to grow.
THEOREM BuildIs ==
    ASSUME NEW b \in Buffer, Len(b.contents) = b.capacity, b.capacity >= 24, ~b.over,
           NEW xid \in Nat, NEW ops \in Seq(Operation)
    PROVE  /\ Sound(Build(b, xid, ops)) /\ Build(b, xid, ops).end >= OpCountLoc
           /\ \E n \in Nat : Contents(Build(b, xid, ops)) =
                 FlattenSeq(Header(xid)) \o <<n>> \o FlattenSeq(Pushed(ops))
<1> DEFINE H == FlattenSeq(Header(xid))
           header == PushAll(Reset(b), Header(xid))
           opened == [header EXCEPT !.end = @ + 1, !.over = @ \/ header.end >= header.capacity]
<1>1. Sound(Reset(b)) /\ Reset(b).end = 0 /\ Contents(Reset(b)) = <<>>
  BY ResetIs
<1>2. Sound(header) /\ header.end = 22 /\ Contents(header) = H /\ H \in Seq(Nat) /\ Len(H) = 22
  <2>1. Header(xid) \in Seq(Seq(Nat)) /\ H \in Seq(Nat) /\ Len(H) = 22
    BY HeaderIs
  <2>2. /\ Sound(header) /\ header.end = Reset(b).end + Len(H)
        /\ Contents(header) = Contents(Reset(b)) \o H
    BY <1>1, <2>1, PushAllIs
  <2>3. <<>> \o H = H
    BY <2>1, ConcatEmpty
  <2> HIDE DEF header, H
  <2> QED BY <1>1, <2>1, <2>2, <2>3
<1> HIDE DEF header, H
<1>3. /\ header \in Buffer /\ header.end = 22 /\ header.capacity \in Nat
      /\ header.capacity >= 24 /\ header.over = FALSE /\ header.start = 0
      /\ header.contents \in Seq(Nat) /\ Len(header.contents) = header.capacity
  BY <1>2 DEF Sound, Buffer
<1>4. /\ Sound(opened) /\ opened.contents = header.contents /\ opened.end = 23
      /\ opened.start = 0
  <2>1. opened = [header EXCEPT !.end = 23, !.over = FALSE]
    <3>1. header.end + 1 = 23 /\ (header.over \/ header.end >= header.capacity) = FALSE
      BY <1>3
    <3> QED BY <3>1
  <2> HIDE DEF opened
  <2>2. /\ opened \in Buffer /\ opened.start = 0 /\ opened.end = 23
        /\ opened.capacity = header.capacity /\ opened.contents = header.contents
        /\ opened.over = FALSE
    BY <1>3, <2>1 DEF Buffer
  <2> QED BY <1>3, <2>2 DEF Sound
<1>5. PICK n \in Nat : Contents(opened) = H \o <<n>>
  <2> DEFINE w == header.contents
  <2>1. w \in Seq(Nat) /\ 22 < Len(w) /\ w[23] \in Nat
    BY <1>3
  <2>2. Contents(opened) = SubSeq(w, 1, 23) /\ H = SubSeq(w, 1, 22)
    <3>1. 0 + 1 = 1
      OBVIOUS
    <3> QED BY <1>2, <1>3, <1>4, <3>1 DEF Contents
  <2> HIDE DEF w
  <2>3. SubSeq(w, 1, 22 + 1) = SubSeq(w, 1, 22) \o <<w[22 + 1]>>
    BY <2>1, FrontGrows
  <2>4. 22 + 1 = 23
    OBVIOUS
  <2> QED BY <2>1, <2>2, <2>3, <2>4
<1> DEFINE ws == Pushed(ops)
           all == PushAll(opened, ws)
<1>6. ws \in Seq(Seq(Nat)) /\ Len(FlattenSeq(ws)) \in Nat
  BY PushedType, FlattenType
<1>7. Build(b, xid, ops) = all
  BY DEF Build, Pushed, header
<1> HIDE DEF opened, ws
<1>8. /\ Sound(all) /\ Contents(all) = Contents(opened) \o FlattenSeq(ws)
      /\ all.end = opened.end + Len(FlattenSeq(ws))
  BY <1>4, <1>6, PushAllIs
<1> HIDE DEF all
<1>9. all.end >= OpCountLoc
  BY <1>4, <1>6, <1>8 DEF OpCountLoc
<1> QED BY <1>5, <1>7, <1>8, <1>9 DEF H, ws

-----------------------------------------------------------------------------
\* The parts of a request.

LEMMA OneIs ==
    ASSUME NEW S, NEW x \in S
    PROVE  <<x>> \in Seq(S) /\ Len(<<x>>) = 1
OBVIOUS

LEMMA FunctionIs ==
    ASSUME NEW S, NEW n \in Nat, NEW s \in [1 .. n -> S]
    PROVE  s \in Seq(S) /\ Len(s) = n
OBVIOUS

LEMMA OperationIs ==
    ASSUME NEW n \in Nat, NEW w \in Seq(Seq(Nat))
    PROVE  <<n, w>> \in Operation
BY DEF Operation

LEMMA ClientIs ==
    ASSUME NEW k \in Client
    PROVE  /\ k.xid \in Nat /\ k.clientid \in Seq(Nat) /\ k.session \in Seq(Nat)
           /\ k.sequence \in Nat /\ k.serverSequence \in Nat /\ k.root \in Name
           /\ k.maxreq \in Nat /\ k.maxresp \in Nat /\ k.maxops \in Nat /\ k.maxreqs \in Nat
<1>1. k.clientid \in [1 .. 2 -> Nat] /\ k.session \in [1 .. 4 -> Nat]
  BY DEF Client, Four
<1>2. k.clientid \in Seq(Nat) /\ k.session \in Seq(Nat)
  BY <1>1, FunctionIs
<1> QED BY <1>2 DEF Client

LEMMA FileIs ==
    ASSUME NEW o \in File
    PROVE  o.fh \in Name /\ o.open \in Four /\ o.latest \in Four
BY DEF File

LEMMA StringFits ==
    ASSUME NEW s \in Name
    PROVE  String(s) \in Seq(Nat)
BY NameIs, StringType

LEMMA NamesType ==
    /\ [i \in 1 .. 12 |-> 1] \in Name /\ [i \in 1 .. 34 |-> 1] \in Name
    /\ CoOwner \in Name /\ OwnOwner \in Name /\ Verifier \in Seq(Nat)
<1>1. OwnOwner \in Name
  BY LetterIs DEF OwnOwner, Name
<1>2. Verifier \in Seq(Nat)
  BY DEF Verifier
<1>3. 12 \in Nat /\ 34 \in Nat /\ 16 \in Nat
  OBVIOUS
<1> QED BY <1>1, <1>2, <1>3, OnesType DEF CoOwner

LEMMA StateidType ==
    ASSUME NEW s \in Four
    PROVE  Stateid(s) \in Seq(Seq(Nat))
<1>1. s \in Seq(Nat) /\ Len(s) = 4 /\ s[1] \in Nat
  <2>1. s \in [1 .. 4 -> Nat]
    BY DEF Four
  <2>2. s[1] \in Nat
    BY <2>1
  <2>3. s \in Seq(Nat) /\ Len(s) = 4
    BY <2>1, FunctionIs, ZenonT(80)
  <2> QED BY <2>2, <2>3
<1>2. Be32(s[1]) \in Seq(Nat) /\ Tail(s) \in Seq(Nat)
  BY <1>1, Be32Type
<1> QED BY <1>2 DEF Stateid

LEMMA OwnerType ==
    ASSUME NEW k \in Client
    PROVE  Owner(k) \in Seq(Seq(Nat))
<1>1. k.clientid \in Seq(Nat) /\ String(OwnOwner) \in Seq(Nat)
  BY ClientIs, NamesType, StringFits
<1> QED BY <1>1 DEF Owner

LEMMA SequenceType ==
    ASSUME NEW k \in Client
    PROVE  Sequence(k) \in Operation
<1>1. k.session \in Seq(Nat) /\ Be32(k.sequence) \in Seq(Nat) /\ Be32(0) \in Seq(Nat)
  BY ClientIs, Be32Type
<1>2. Op.SEQUENCE \in Nat
  BY OpIs
<1>3. <<k.session, Be32(k.sequence), Be32(0), Be32(0), Be32(0)>> \in Seq(Seq(Nat))
  BY <1>1
<1> QED BY <1>2, <1>3, OperationIs DEF Sequence

LEMMA ExchangeIdType == ExchangeId \in Operation
<1>1. /\ Be32(0) \in Seq(Nat) /\ Be32(1) \in Seq(Nat) /\ Be64(0) \in Seq(Nat)
      /\ Verifier \in Seq(Nat) /\ String(CoOwner) \in Seq(Nat)
      /\ String([i \in 1 .. 12 |-> 1]) \in Seq(Nat)
      /\ String([i \in 1 .. 34 |-> 1]) \in Seq(Nat)
  BY Be32Type, Be64Type, NamesType, StringFits
<1>2. Op.EXCHANGE_ID \in Nat
  BY OpIs
<1>3. <<Verifier, String(CoOwner), Be32(0), Be32(0), Be32(1), String([i \in 1 .. 12 |-> 1]),
        String([i \in 1 .. 34 |-> 1]), Be64(0), Be32(0)>> \in Seq(Seq(Nat))
  <2> DEFINE x == String([i \in 1 .. 12 |-> 1])
             y == String([i \in 1 .. 34 |-> 1])
  <2>1. x \in Seq(Nat) /\ y \in Seq(Nat)
    BY <1>1
  <2> HIDE DEF x, y
  <2>2. <<Verifier, String(CoOwner), Be32(0), Be32(0), Be32(1), x, y, Be64(0), Be32(0)>>
          \in Seq(Seq(Nat))
    BY <1>1, <2>1
  <2> QED BY <2>2 DEF x, y
<1> QED BY <1>2, <1>3, OperationIs DEF ExchangeId

LEMMA ChannelType ==
    ASSUME NEW k \in Client
    PROVE  ChannelAttrs(k) \in Seq(Seq(Nat))
<1>1. 1048576 \in Nat
  BY SMT
<1>2. ASSUME NEW m \in Nat
      PROVE  <<Be32(0), Be32(k.maxreq), Be32(k.maxresp), Be32(m), Be32(k.maxops),
               Be32(k.maxreqs), Be32(0)>> \in Seq(Seq(Nat))
  <2>1. /\ Be32(0) \in Seq(Nat) /\ Be32(k.maxreq) \in Seq(Nat) /\ Be32(k.maxresp) \in Seq(Nat)
        /\ Be32(m) \in Seq(Nat) /\ Be32(k.maxops) \in Seq(Nat) /\ Be32(k.maxreqs) \in Seq(Nat)
    BY ClientIs, Be32Type
  <2> QED BY <2>1
<1> QED BY SMT, <1>1, <1>2 DEF ChannelAttrs

LEMMA CreateSessionType ==
    ASSUME NEW k \in Client
    PROVE  CreateSession(k) \in Operation
<1> DEFINE first == <<k.clientid, Be32(k.serverSequence), Be32(1)>>
           last == <<Be32(123), Be32(1), Be32(0)>>
           channel == ChannelAttrs(k)
<1>1. /\ k.clientid \in Seq(Nat) /\ Be32(k.serverSequence) \in Seq(Nat) /\ Be32(1) \in Seq(Nat)
      /\ Be32(0) \in Seq(Nat) /\ Be32(123) \in Seq(Nat) /\ Op.CREATE_SESSION \in Nat
  BY ClientIs, Be32Type, OpIs
<1>2. first \in Seq(Seq(Nat)) /\ last \in Seq(Seq(Nat)) /\ channel \in Seq(Seq(Nat))
  BY <1>1, ChannelType
<1>3. CreateSession(k) = <<Op.CREATE_SESSION, first \o channel \o channel \o last>>
  BY DEF CreateSession
<1> HIDE DEF first, last, channel
<1>4. first \o channel \o channel \o last \in Seq(Seq(Nat))
  <2>1. \A x, y \in Seq(Seq(Nat)) : x \o y \in Seq(Seq(Nat))
    BY ConcatIs
  <2> QED BY <1>2, <2>1
<1> QED BY <1>1, <1>3, <1>4, OperationIs

LEMMA LookupsType ==
    ASSUME NEW path \in Seq(Name)
    PROVE  Lookups(path) \in Seq(Operation)
<1>1. DOMAIN path = 1 .. Len(path) /\ Len(path) \in Nat
  OBVIOUS
<1>2. ASSUME NEW i \in 1 .. Len(path) PROVE <<Op.LOOKUP, <<String(path[i])>>>> \in Operation
  <2>1. path[i] \in Name
    OBVIOUS
  <2>2. <<String(path[i])>> \in Seq(Seq(Nat)) /\ Op.LOOKUP \in Nat
    BY <2>1, StringFits, OpIs
  <2> QED BY <2>2 DEF Operation
<1> QED BY <1>1, <1>2 DEF Lookups

LEMMA RootHandleType ==
    ASSUME NEW k \in Client
    PROVE  RootHandle(k) \in Name
<1>1. FhSize \in Nat
  BY SMT, SizeAssumption, WIs
<1>2. ASSUME NEW i \in 1 .. FhSize
      PROVE  (IF i <= Len(k.root) THEN k.root[i] ELSE 0) \in Letter
  BY ClientIs, LetterIs DEF Name
<1>3. RootHandle(k) = [i \in 1 .. FhSize |-> IF i <= Len(k.root) THEN k.root[i] ELSE 0]
  BY DEF RootHandle
<1> HIDE DEF Letter
<1> QED BY <1>1, <1>2, <1>3 DEF Name

LEMMA PutfhType ==
    ASSUME NEW s \in Name
    PROVE  <<Op.PUTFH, <<String(s)>>>> \in Operation
<1>1. <<String(s)>> \in Seq(Seq(Nat)) /\ Op.PUTFH \in Nat
  BY StringFits, OpIs
<1> QED BY <1>1, OperationIs

LEMMA ResolutionType ==
    ASSUME NEW k \in Client, NEW path \in Seq(Name)
    PROVE  Resolution(path) \in Seq(Operation) /\ ResolutionRfh(k, path) \in Seq(Operation)
<1>1. <<Op.PUTROOTFH, <<>>>> \in Operation /\ <<Op.PUTFH, <<String(RootHandle(k))>>>> \in Operation
  <2>1. Op.PUTROOTFH \in Nat /\ <<>> \in Seq(Seq(Nat))
    BY OpIs
  <2> QED BY <2>1, RootHandleType, PutfhType DEF Operation
<1>2. ASSUME NEW o \in Operation PROVE <<o>> \o Lookups(path) \in Seq(Operation)
  <2>1. <<o>> \in Seq(Operation) /\ Lookups(path) \in Seq(Operation)
    BY OneIs, LookupsType
  <2> QED BY <2>1, ConcatIs
<1> QED BY <1>1, <1>2 DEF Resolution, ResolutionRfh

LEMMA OnFileType ==
    ASSUME NEW k \in Client, f \in File, NEW op \in Nat, NEW args \in Seq(Seq(Nat))
    PROVE  OnFile(k, op, args) \in Seq(Operation)
<1>1. <<Op.PUTFH, <<String(f.fh)>>>> \in Operation /\ <<op, args>> \in Operation
  BY FileIs, PutfhType DEF Operation
<1> QED BY <1>1, SequenceType DEF OnFile

LEMMA OpenArgsType ==
    ASSUME NEW k \in Client, NEW name \in Name, NEW access \in Nat, NEW create
    PROVE  OpenArgs(k, name, access, create) \in Seq(Seq(Nat))
<1> DEFINE first == <<Be32(0), Be32(access), Be32(0)>>
           how == IF create THEN <<Be32(1), Be32(0), Be32(2), Be32(0), Be32(2), Be32(4), Be32(420)>>
                  ELSE <<Be32(0)>>
           last == <<Be32(0), String(name)>>
<1>1. /\ Be32(0) \in Seq(Nat) /\ Be32(1) \in Seq(Nat) /\ Be32(2) \in Seq(Nat)
      /\ Be32(4) \in Seq(Nat) /\ Be32(420) \in Seq(Nat) /\ Be32(access) \in Seq(Nat)
      /\ String(name) \in Seq(Nat)
  BY Be32Type, StringFits
<1>2. first \in Seq(Seq(Nat)) /\ how \in Seq(Seq(Nat)) /\ last \in Seq(Seq(Nat))
  BY <1>1
<1>3. Owner(k) \in Seq(Seq(Nat))
  BY OwnerType
<1>4. OpenArgs(k, name, access, create) = first \o Owner(k) \o how \o last
  BY DEF OpenArgs
<1> HIDE DEF first, how, last
<1> QED BY <1>2, <1>3, <1>4

-----------------------------------------------------------------------------
\* The calls.

LEMMA NameCallIs ==
    ASSUME NEW x \in NameCalls
    PROVE  x.kind \in {"exists", "delete"} /\ x.path \in Path
BY DEF NameCalls

LEMMA OpenCallIs ==
    ASSUME NEW x \in OpenCalls
    PROVE  /\ x.kind = "open" /\ x.path \in Path /\ x.access \in Nat
           /\ x.create \in BOOLEAN
<1> DEFINE Modes == {<<1, FALSE>>, <<3, TRUE>>}
<1>1. PICK z \in Path, mode \in Modes :
        x = [kind |-> "open", path |-> z, access |-> mode[1], create |-> mode[2]]
  <2> HIDE DEF Modes
  <2>1. OpenCalls = {[kind |-> "open", path |-> z, access |-> mode[1], create |-> mode[2]] :
                       z \in Path, mode \in Modes}
    BY DEF OpenCalls, Modes
  <2> QED BY <2>1
<1>2. mode[1] \in Nat /\ mode[2] \in BOOLEAN
  <2>1. CASE mode = <<1, FALSE>>
    BY <2>1
  <2>2. CASE mode = <<3, TRUE>>
    BY <2>2
  <2> QED BY <2>1, <2>2
<1> QED BY <1>1, <1>2

LEMMA FileCallIs ==
    ASSUME NEW x \in FileCalls
    PROVE  /\ x.kind \in {"size", "read", "write", "lock", "unlock"}
           /\ x.kind = "read" => x.offset \in Nat /\ x.length \in Nat
           /\ x.kind = "write" => x.offset \in Nat /\ x.data \in Name
           /\ x.kind \in {"lock", "unlock"} =>
                x.type \in Nat /\ x.offset \in Nat /\ x.length \in Nat
<1>1. W + 5 \in Nat /\ Data \subseteq Name
  BY WIs, InputAssumption DEF Name
<1>2. \/ x = [kind |-> "size"]
      \/ x = [kind |-> "read", offset |-> W + 5, length |-> 6]
      \/ \E d \in Data : x = [kind |-> "write", offset |-> W + 5, data |-> d]
      \/ /\ x.kind \in {"lock", "unlock"}
         /\ x.type \in Nat /\ x.offset \in Nat /\ x.length \in Nat
  BY SMT DEF FileCalls
<1>3. CASE x = [kind |-> "size"]
  BY <1>3
<1>4. CASE x = [kind |-> "read", offset |-> W + 5, length |-> 6]
  BY <1>1, <1>4
<1>5. CASE \E d \in Data : x = [kind |-> "write", offset |-> W + 5, data |-> d]
  BY <1>1, <1>5
<1>6. CASE /\ x.kind \in {"lock", "unlock"}
           /\ x.type \in Nat /\ x.offset \in Nat /\ x.length \in Nat
  BY <1>6
<1> QED BY <1>2, <1>3, <1>4, <1>5, <1>6

\* Every call but the ones on a file may be made without one.
NoFileCalls == [kind : {"exchange_id", "create_session", "root_fh", "reclaim"}]
               \union NameCalls \union OpenCalls

LEMMA RequestType ==
    ASSUME NEW k \in Client, NEW x \in NoFileCalls \union FileCalls,
           x \in FileCalls => f \in File
    PROVE  Request(k, x) \in Seq(Operation)
<1>0. \A s, t \in Seq(Operation) : s \o t \in Seq(Operation)
  BY ConcatIs
<1>00. \A s, t \in Seq(Seq(Nat)) : s \o t \in Seq(Seq(Nat))
  BY ConcatIs
<1>1. <<Sequence(k)>> \in Seq(Operation) /\ Sequence(k) \in Operation
  BY SequenceType
<1>2. <<Op.GETFH, <<>>>> \in Operation /\ <<Op.PUTROOTFH, <<>>>> \in Operation
  <2>1. <<>> \in Seq(Seq(Nat)) /\ Op.GETFH \in Nat /\ Op.PUTROOTFH \in Nat
    BY OpIs
  <2> QED BY <2>1, OperationIs
<1>3. <<<<Op.GETFH, <<>>>>>> \in Seq(Operation)
  BY <1>2
<1>4. \A n \in Nat : Be32(n) \in Seq(Nat) /\ Be64(n) \in Seq(Nat)
  BY Be32Type, Be64Type
<1>5. CASE x.kind = "exchange_id"
  <2>1. Request(k, x) = <<ExchangeId>>
    BY <1>5 DEF Request
  <2> QED BY <2>1, ExchangeIdType
<1>6. CASE x.kind = "create_session"
  <2>1. Request(k, x) = <<CreateSession(k)>>
    BY <1>6 DEF Request
  <2> QED BY <2>1, CreateSessionType
<1>7. CASE x.kind = "root_fh"
  <2>1. Request(k, x) = <<Sequence(k), <<Op.PUTROOTFH, <<>>>>, <<Op.GETFH, <<>>>>>>
    BY <1>7 DEF Request
  <2> QED BY <1>1, <1>2, <2>1
<1>8. CASE x.kind = "reclaim"
  <2>1. Request(k, x) = <<Sequence(k), <<Op.RECLAIM_COMPLETE, <<Be32(0)>>>>>>
    BY <1>8 DEF Request
  <2>2. <<Be32(0)>> \in Seq(Seq(Nat)) /\ Op.RECLAIM_COMPLETE \in Nat
    BY <1>4, OpIs
  <2>3. <<Op.RECLAIM_COMPLETE, <<Be32(0)>>>> \in Operation
    BY <2>2, OperationIs
  <2> QED BY <1>1, <2>1, <2>3
<1>9. ASSUME NEW z \in Path
      PROVE  /\ InitialPath(k, PathOf(z)) \in Seq(Operation)
             /\ Resolution(PathOf(z)) \in Seq(Operation) /\ Last(PathOf(z)) \in Name
  BY PathOfType, ResolutionType DEF InitialPath
<1>10. CASE x \in OpenCalls
  <2> DEFINE args == OpenArgs(k, Last(PathOf(x.path)), x.access, x.create)
  <2>1. x.kind = "open" /\ x.path \in Path /\ x.access \in Nat
    BY <1>10, OpenCallIs
  <2>2. args \in Seq(Seq(Nat)) /\ Op.OPEN \in Nat
    BY <1>9, <2>1, OpenArgsType, OpIs
  <2>3. Request(k, x) = <<Sequence(k)>> \o InitialPath(k, PathOf(x.path))
                        \o <<<<Op.OPEN, args>>, <<Op.GETFH, <<>>>>>>
    BY <2>1 DEF Request
  <2> HIDE DEF args
  <2>4. <<Op.OPEN, args>> \in Operation
    BY <2>2, OperationIs
  <2>5. <<<<Op.OPEN, args>>, <<Op.GETFH, <<>>>>>> \in Seq(Operation)
    BY <1>2, <2>4
  <2> QED BY <1>0, <1>1, <1>9, <2>1, <2>3, <2>5
<1>11. CASE x.kind = "exists" /\ x.path \in Path
  <2>1. Request(k, x) = <<Sequence(k)>> \o Resolution(PathOf(x.path)) \o <<<<Op.GETFH, <<>>>>>>
    BY <1>11 DEF Request
  <2> QED BY <1>0, <1>1, <1>3, <1>9, <1>11, <2>1
<1>12. CASE x.kind = "delete" /\ x.path \in Path
  <2> DEFINE args == <<String(Last(PathOf(x.path)))>>
  <2>1. Request(k, x) = <<Sequence(k)>> \o InitialPath(k, PathOf(x.path))
                        \o <<<<Op.REMOVE, args>>>>
    BY <1>12 DEF Request
  <2>2. args \in Seq(Seq(Nat)) /\ Op.REMOVE \in Nat
    BY <1>9, <1>12, StringFits, OpIs
  <2> HIDE DEF args
  <2>3. <<Op.REMOVE, args>> \in Operation
    BY <2>2, OperationIs
  <2>4. <<<<Op.REMOVE, args>>>> \in Seq(Operation)
    BY <2>3
  <2> QED BY <1>0, <1>1, <1>9, <1>12, <2>1, <2>4
<1>13. CASE x \in FileCalls
  <2>1. /\ f \in File /\ Stateid(f.latest) \in Seq(Seq(Nat)) /\ Stateid(f.open) \in Seq(Seq(Nat))
    BY <1>13, FileIs, StateidType
  <2>2. /\ Op.GETATTR \in Nat /\ Op.READ \in Nat /\ Op.WRITE \in Nat /\ Op.LOCK \in Nat
        /\ Op.LOCKU \in Nat
    BY OpIs
  <2>3. CASE x.kind = "size"
    <3>1. Request(k, x) = OnFile(k, Op.GETATTR, <<Be32(1), Be32(16)>>)
      BY <2>3 DEF Request
    <3>2. <<Be32(1), Be32(16)>> \in Seq(Seq(Nat))
      BY <1>4
    <3> QED BY <2>1, <2>2, <3>1, <3>2, OnFileType
  <2>4. CASE x.kind = "read"
    <3>1. x.offset \in Nat /\ x.length \in Nat
      BY <1>13, <2>4, FileCallIs
    <3> DEFINE args == <<Be64(x.offset), Be32(x.length)>>
    <3>2. args \in Seq(Seq(Nat))
      <4>1. Be64(x.offset) \in Seq(Nat) /\ Be32(x.length) \in Seq(Nat)
        BY <1>4, <3>1
      <4> QED BY <4>1
    <3>3. Request(k, x) = OnFile(k, Op.READ, Stateid(f.latest) \o args)
      BY <2>4 DEF Request
    <3> HIDE DEF args
    <3>4. Stateid(f.latest) \o args \in Seq(Seq(Nat))
      BY <1>00, <2>1, <3>2
    <3> QED BY <2>1, <2>2, <3>3, <3>4, OnFileType
  <2>5. CASE x.kind = "write"
    <3>1. x.offset \in Nat /\ x.data \in Name
      BY <1>13, <2>5, FileCallIs
    <3> DEFINE args == <<Be64(x.offset), Be32(2), String(x.data)>>
    <3>2. args \in Seq(Seq(Nat))
      <4>1. Be64(x.offset) \in Seq(Nat) /\ Be32(2) \in Seq(Nat) /\ String(x.data) \in Seq(Nat)
        BY <1>4, <3>1, StringFits
      <4> QED BY <4>1
    <3>3. Request(k, x) = OnFile(k, Op.WRITE, Stateid(f.latest) \o args)
      BY <2>5 DEF Request
    <3> HIDE DEF args
    <3>4. Stateid(f.latest) \o args \in Seq(Seq(Nat))
      BY <1>00, <2>1, <3>2
    <3> QED BY <2>1, <2>2, <3>3, <3>4, OnFileType
  <2>6. CASE x.kind = "lock"
    <3>1. x.type \in Nat /\ x.offset \in Nat /\ x.length \in Nat
      BY <1>13, <2>6, FileCallIs
    <3> DEFINE first == <<Be32(x.type), Be32(0), Be64(x.offset), Be64(x.length),
                          Be32(1), Be32(0)>>
               zero == <<Be32(0)>>
    <3>2. first \in Seq(Seq(Nat)) /\ zero \in Seq(Seq(Nat))
      <4>1. /\ Be32(x.type) \in Seq(Nat) /\ Be32(0) \in Seq(Nat) /\ Be32(1) \in Seq(Nat)
            /\ Be64(x.offset) \in Seq(Nat) /\ Be64(x.length) \in Seq(Nat)
        BY <1>4, <3>1
      <4> QED BY <4>1
    <3>3. Request(k, x) = OnFile(k, Op.LOCK, first \o Stateid(f.open) \o zero \o Owner(k))
      BY <2>6 DEF Request
    <3> HIDE DEF first, zero
    <3>4. first \o Stateid(f.open) \o zero \o Owner(k) \in Seq(Seq(Nat))
      BY <1>00, <2>1, <3>2, OwnerType
    <3> QED BY <2>1, <2>2, <3>3, <3>4, OnFileType
  <2>7. CASE x.kind = "unlock"
    <3>1. x.type \in Nat /\ x.offset \in Nat /\ x.length \in Nat
      BY <1>13, <2>7, FileCallIs
    <3> DEFINE first == <<Be32(x.type), Be32(0)>>
               range == <<Be64(x.offset), Be64(x.length)>>
    <3>2. first \in Seq(Seq(Nat)) /\ range \in Seq(Seq(Nat))
      <4>1. /\ Be32(x.type) \in Seq(Nat) /\ Be32(0) \in Seq(Nat)
            /\ Be64(x.offset) \in Seq(Nat) /\ Be64(x.length) \in Seq(Nat)
        BY <1>4, <3>1
      <4> QED BY <4>1
    <3>3. Request(k, x) = OnFile(k, Op.LOCKU, first \o Stateid(f.latest) \o range)
      BY <2>7 DEF Request
    <3> HIDE DEF first, range
    <3>4. first \o Stateid(f.latest) \o range \in Seq(Seq(Nat))
      BY <1>00, <2>1, <3>2
    <3> QED BY <2>1, <2>2, <3>3, <3>4, OnFileType
  <2>8. x.kind \in {"size", "read", "write", "lock", "unlock"}
    BY <1>13, FileCallIs
  <2> QED BY <2>3, <2>4, <2>5, <2>6, <2>7, <2>8
<1>14. \/ x.kind \in {"exchange_id", "create_session", "root_fh", "reclaim"}
       \/ x \in OpenCalls
       \/ x.kind \in {"exists", "delete"} /\ x.path \in Path
       \/ x \in FileCalls
  BY NameCallIs DEF NoFileCalls
<1> QED BY <1>5, <1>6, <1>7, <1>8, <1>10, <1>11, <1>12, <1>13, <1>14

-----------------------------------------------------------------------------
\* Replies.

LEMMA ServerIs ==
    ASSUME NEW s \in Server
    PROVE  /\ s.clientid \in Seq(Nat) /\ Len(s.clientid) = 2
           /\ s.session \in Seq(Nat) /\ Len(s.session) = 4
           /\ s.open \in Seq(Nat) /\ Len(s.open) = 4 /\ s.open \in Four
           /\ s.latest \in Seq(Nat) /\ Len(s.latest) = 4 /\ s.latest \in Four
           /\ s.seqid \in Nat /\ s.slot \in Nat /\ s.limit \in Nat /\ s.root \in Name
           /\ s.fh \in Name /\ s.value \in Seq(Nat)
<1>1. /\ s.clientid \in [1 .. 2 -> Nat] /\ s.session \in [1 .. 4 -> Nat]
      /\ s.open \in [1 .. 4 -> Nat] /\ s.latest \in [1 .. 4 -> Nat]
  BY DEF Server, Four
<1>2. s.clientid \in Seq(Nat) /\ Len(s.clientid) = 2
  BY <1>1, FunctionIs
<1>3. s.session \in Seq(Nat) /\ Len(s.session) = 4
  BY <1>1, FunctionIs
<1>4. s.open \in Seq(Nat) /\ Len(s.open) = 4
  BY <1>1, FunctionIs
<1>5. s.latest \in Seq(Nat) /\ Len(s.latest) = 4
  BY <1>1, FunctionIs
<1> QED BY <1>1, <1>2, <1>3, <1>4, <1>5 DEF Server, Four

\* The answers of the server that have more than one part.
Channel(s)        == <<0, s.limit, s.limit, 1048576, s.limit, s.limit, 0>>
ToSequence(s)     == s.session \o <<s.slot, 0, 0, 0, 0>>
ToGetfh(s)        == String(IF s.fh = <<>> THEN s.root ELSE s.fh)
ToExchange(s)     == s.clientid \o <<s.seqid, 0, 0, 0>>
ToCreate(s)       == s.session \o <<s.seqid, 1>> \o Channel(s) \o Channel(s)
ToOpen(s, d)      == s.open \o ChangeInfo \o <<0, 2, 0, 0>> \o d
ToGetattr(s)      == <<1, 16, 8>> \o s.value
ToRead(s)         == <<1>> \o String(s.value)

LEMMA AnswerIs ==
    ASSUME NEW op, NEW s, NEW d
    PROVE  /\ op = Op.SEQUENCE => Answer(op, s, d) = ToSequence(s)
           /\ op = Op.GETFH => Answer(op, s, d) = ToGetfh(s)
           /\ op = Op.EXCHANGE_ID => Answer(op, s, d) = ToExchange(s)
           /\ op = Op.CREATE_SESSION => Answer(op, s, d) = ToCreate(s)
           /\ op = Op.OPEN => Answer(op, s, d) = ToOpen(s, d)
           /\ op = Op.REMOVE => Answer(op, s, d) = ChangeInfo
           /\ op = Op.GETATTR => Answer(op, s, d) = ToGetattr(s)
           /\ op = Op.READ => Answer(op, s, d) = ToRead(s)
           /\ op = Op.WRITE => Answer(op, s, d) = <<1, 2, 7, 7>>
           /\ op \in {Op.LOCK, Op.LOCKU} => Answer(op, s, d) = s.latest
           /\ op \in {Op.PUTROOTFH, Op.PUTFH, Op.LOOKUP, Op.RECLAIM_COMPLETE} =>
                Answer(op, s, d) = <<>>
<1>1. Answer(op, s, d) =
        CASE op = Op.SEQUENCE -> ToSequence(s) [] op = Op.GETFH -> ToGetfh(s)
          [] op = Op.EXCHANGE_ID -> ToExchange(s) [] op = Op.CREATE_SESSION -> ToCreate(s)
          [] op = Op.OPEN -> ToOpen(s, d) [] op = Op.REMOVE -> ChangeInfo
          [] op = Op.GETATTR -> ToGetattr(s) [] op = Op.READ -> ToRead(s)
          [] op = Op.WRITE -> <<1, 2, 7, 7>>
          [] op \in {Op.LOCK, Op.LOCKU} -> s.latest [] OTHER -> <<>>
  BY SMT DEF Answer, Channel, ToSequence, ToGetfh, ToExchange, ToCreate, ToOpen, ToGetattr, ToRead
<1> QED BY <1>1, OpIs, SMTT(40)

LEMMA AnswerType ==
    ASSUME NEW op, NEW s \in Server, NEW d \in Seq(Nat)
    PROVE  Answer(op, s, d) \in Seq(Nat)
<1>0. \A x, y \in Seq(Nat) : x \o y \in Seq(Nat)
  BY ConcatIs
<1>1. /\ s.clientid \in Seq(Nat) /\ s.session \in Seq(Nat) /\ s.open \in Seq(Nat)
      /\ s.latest \in Seq(Nat) /\ s.seqid \in Nat /\ s.slot \in Nat /\ s.limit \in Nat
      /\ s.value \in Seq(Nat)
  BY ServerIs
<1>2. ToGetfh(s) \in Seq(Nat) /\ String(s.value) \in Seq(Nat)
  BY <1>1, ServerIs, StringFits, StringType DEF ToGetfh
<1>3. ChangeInfo \in Seq(Nat) /\ <<1, 2, 7, 7>> \in Seq(Nat) /\ <<>> \in Seq(Nat)
  BY DEF ChangeInfo
<1>4. Channel(s) \in Seq(Nat)
  <2>1. 1048576 \in Nat
    BY SMT
  <2>2. \A m \in Nat : <<0, s.limit, s.limit, m, s.limit, s.limit, 0>> \in Seq(Nat)
    BY <1>1
  <2> QED BY SMT, <2>1, <2>2 DEF Channel
<1>5. /\ <<s.slot, 0, 0, 0, 0>> \in Seq(Nat) /\ <<s.seqid, 0, 0, 0>> \in Seq(Nat)
      /\ <<s.seqid, 1>> \in Seq(Nat) /\ <<0, 2, 0, 0>> \in Seq(Nat)
      /\ <<1, 16, 8>> \in Seq(Nat) /\ <<1>> \in Seq(Nat)
  BY <1>1
<1>6. ToSequence(s) \in Seq(Nat)
  BY <1>0, <1>1, <1>5, Zenon DEF ToSequence
<1>7. ToExchange(s) \in Seq(Nat)
  BY <1>0, <1>1, <1>5, Zenon DEF ToExchange
<1>8. ToCreate(s) \in Seq(Nat)
  BY <1>0, <1>1, <1>4, <1>5, Zenon DEF ToCreate
<1>9. ToOpen(s, d) \in Seq(Nat)
  BY <1>0, <1>1, <1>3, <1>5, Zenon DEF ToOpen
<1>10. ToGetattr(s) \in Seq(Nat) /\ ToRead(s) \in Seq(Nat)
  BY <1>0, <1>1, <1>2, <1>5, Zenon DEF ToGetattr, ToRead
<1>11. Answer(op, s, d) \in {ToSequence(s), ToGetfh(s), ToExchange(s), ToCreate(s), ToOpen(s, d),
                             ChangeInfo, ToGetattr(s), ToRead(s), <<1, 2, 7, 7>>, s.latest, <<>>}
  BY SMT DEF Answer, Channel, ToSequence, ToGetfh, ToExchange, ToCreate, ToOpen, ToGetattr, ToRead
<1> QED BY <1>1, <1>2, <1>3, <1>6, <1>7, <1>8, <1>9, <1>10, <1>11

\* What is sent for each operation.
Refused(op, status) == <<op, status>>
Carried(op, s, d)   == <<op, 0>> \o Answer(op, s, d)

AnswerWords(ops, status, s, d) ==
    [i \in DOMAIN ops |-> IF status # 0 /\ i = Len(ops) THEN Refused(ops[i], status)
                          ELSE Carried(ops[i], s, d)]

\* A reply is as long as its first word says.
LEMMA ReplyIs ==
    ASSUME NEW xid \in Nat, NEW ops \in Seq(Nat), NEW status \in Nat, NEW s \in Server,
           NEW d \in Seq(Nat)
    PROVE  /\ AnswerWords(ops, status, s, d) \in Seq(Seq(Nat))
           /\ Reply(xid, ops, status, s, d) \in Seq(Nat)
           /\ Len(Reply(xid, ops, status, s, d)) > 9
           /\ Reply(xid, ops, status, s, d)[1] = 4 * (Len(Reply(xid, ops, status, s, d)) - 1)
<1> DEFINE answers == AnswerWords(ops, status, s, d)
           first == <<xid, 1, 0, 0, 0, 0, status, 0, Len(ops)>>
           body == first \o FlattenSeq(answers)
           r == <<4 * Len(body)>> \o body
<1>1. answers \in Seq(Seq(Nat))
  <2>1. DOMAIN ops = 1 .. Len(ops) /\ Len(ops) \in Nat
    OBVIOUS
  <2>2. ASSUME NEW op \in Nat PROVE Refused(op, status) \in Seq(Nat) /\ Carried(op, s, d) \in Seq(Nat)
    <3>1. <<op, status>> \in Seq(Nat) /\ <<op, 0>> \in Seq(Nat) /\ Answer(op, s, d) \in Seq(Nat)
      BY AnswerType
    <3> QED BY <3>1, ConcatIs DEF Refused, Carried
  <2>3. \A i \in 1 .. Len(ops) : ops[i] \in Nat
    OBVIOUS
  <2> DEFINE w(i) == IF status # 0 /\ i = Len(ops) THEN Refused(ops[i], status)
                     ELSE Carried(ops[i], s, d)
  <2>4. \A i \in 1 .. Len(ops) : w(i) \in Seq(Nat)
    BY <2>2, <2>3
  <2>5. answers = [i \in 1 .. Len(ops) |-> w(i)]
    BY <2>1 DEF AnswerWords
  <2> HIDE DEF w, answers
  <2> QED BY <2>1, <2>4, <2>5
<1>2. FlattenSeq(answers) \in Seq(Nat)
  <2> HIDE DEF answers
  <2> QED BY <1>1, FlattenType
<1>3. first \in Seq(Nat) /\ Len(first) = 9
  OBVIOUS
<1>4. Reply(xid, ops, status, s, d) = r
  BY DEF Reply, AnswerWords, Refused, Carried
<1> HIDE DEF answers, first
<1>5. body \in Seq(Nat) /\ Len(body) = 9 + Len(FlattenSeq(answers))
  <2>1. first \in Seq(Nat) /\ FlattenSeq(answers) \in Seq(Nat)
    BY <1>2, <1>3
  <2>2. body \in Seq(Nat) /\ Len(body) = Len(first) + Len(FlattenSeq(answers))
    BY <2>1, ConcatIs
  <2> QED BY <1>3, <2>2
<1>6. Len(body) >= 9 /\ Len(body) \in Nat
  BY <1>2, <1>5
<1> HIDE DEF body
<1>7. r \in Seq(Nat) /\ Len(r) = 1 + Len(body) /\ r[1] = 4 * Len(body)
  BY <1>5, <1>6
<1> HIDE DEF r
<1>8. Len(r) - 1 = Len(body) /\ Len(r) > 9
  BY <1>6, <1>7
<1> QED BY <1>1, <1>4, <1>7, <1>8 DEF answers

\* The numbers of the operations of a request.
Numbers(ops) == [i \in DOMAIN ops |-> ops[i][1]]

LEMMA NumbersConcat ==
    ASSUME NEW S, NEW s \in Seq(S), NEW t \in Seq(S)
    PROVE  Numbers(s \o t) = Numbers(s) \o Numbers(t)
<1> DEFINE u == s \o t
           l == [i \in 1 .. Len(u) |-> u[i][1]]
           x == [i \in 1 .. Len(s) |-> s[i][1]]
           y == [i \in 1 .. Len(t) |-> t[i][1]]
           N == {u[i][1] : i \in 1 .. Len(u)} \union {s[i][1] : i \in 1 .. Len(s)}
                \union {t[i][1] : i \in 1 .. Len(t)}
<1>1. /\ u \in Seq(S) /\ Len(u) = Len(s) + Len(t)
      /\ \A i \in 1 .. Len(s) : u[i] = s[i]
      /\ \A i \in 1 .. Len(t) : u[Len(s) + i] = t[i]
  BY ConcatIs
<1> HIDE DEF u
<1>2. Len(s) \in Nat /\ Len(t) \in Nat /\ Len(u) \in Nat
  BY <1>1
<1>3. Numbers(u) = l /\ Numbers(s) = x /\ Numbers(t) = y
  BY <1>1 DEF Numbers
<1>4. /\ l \in [1 .. Len(u) -> N] /\ x \in [1 .. Len(s) -> N] /\ y \in [1 .. Len(t) -> N]
  OBVIOUS
<1>5. /\ \A i \in 1 .. Len(u) : l[i] = u[i][1]
      /\ \A i \in 1 .. Len(s) : x[i] = s[i][1]
      /\ \A i \in 1 .. Len(t) : y[i] = t[i][1]
  OBVIOUS
<1> HIDE DEF l, x, y, N
<1>6. /\ l \in Seq(N) /\ Len(l) = Len(u) /\ x \in Seq(N) /\ Len(x) = Len(s)
      /\ y \in Seq(N) /\ Len(y) = Len(t)
  BY <1>2, <1>4, FunctionIs
<1>7. /\ x \o y \in Seq(N) /\ Len(x \o y) = Len(x) + Len(y)
      /\ \A i \in 1 .. Len(x) : (x \o y)[i] = x[i]
      /\ \A i \in 1 .. Len(y) : (x \o y)[Len(x) + i] = y[i]
  <2>1. x \in Seq(N) /\ y \in Seq(N)
    BY <1>6
  <2> QED BY <2>1, ConcatIs
<1>8. ASSUME NEW i \in 1 .. Len(l) PROVE l[i] = (x \o y)[i]
  <2>1. CASE i <= Len(s)
    <3>1. i \in 1 .. Len(s) /\ i \in 1 .. Len(u)
      BY <1>2, <1>6, <2>1
    <3> QED BY <1>1, <1>5, <1>6, <1>7, <3>1, SMTT(40)
  <2>2. CASE i > Len(s)
    <3>1. i - Len(s) \in 1 .. Len(t) /\ i \in 1 .. Len(u) /\ Len(s) + (i - Len(s)) = i
      BY <1>1, <1>2, <1>6, <2>2
    <3>2. u[i] = t[i - Len(s)] /\ (x \o y)[i] = y[i - Len(s)]
      BY <1>1, <1>6, <1>7, <3>1
    <3> QED BY <1>5, <3>1, <3>2
  <2>3. i <= Len(s) \/ i > Len(s)
    BY <1>2, <1>6
  <2> QED BY <2>1, <2>2, <2>3
<1>9. l = x \o y
  <2>1. Len(l) = Len(x \o y)
    BY <1>1, <1>6, <1>7
  <2> QED BY <1>6, <1>7, <1>8, <2>1, SameSeq
<1> QED BY <1>3, <1>9 DEF u

LEMMA NumbersTwo ==
    ASSUME NEW a, NEW b
    PROVE  /\ Numbers(<<a>>) = <<a[1]>> /\ Numbers(<<a, b>>) = <<a[1], b[1]>>
           /\ \A d : Numbers(<<a, b, d>>) = <<a[1], b[1], d[1]>>
<1>1. Numbers(<<a>>) = [i \in 1 .. 1 |-> <<a>>[i][1]]
  BY DEF Numbers
<1>2. Numbers(<<a, b>>) = [i \in 1 .. 2 |-> <<a, b>>[i][1]]
  BY DEF Numbers
<1>3. ASSUME NEW d PROVE Numbers(<<a, b, d>>) = <<a[1], b[1], d[1]>>
  <2>1. Numbers(<<a, b, d>>) = [i \in 1 .. 3 |-> <<a, b, d>>[i][1]]
    BY DEF Numbers
  <2> QED BY <2>1
<1> QED BY <1>1, <1>2, <1>3

LEMMA TwoIs ==
    ASSUME NEW S, NEW x \in S, NEW y \in S
    PROVE  <<x, y>> \in Seq(S)
OBVIOUS

\* An operation and what it says.
Does(op, says) == <<op, says>>

LEMMA DoesIs == \A op, says : Does(op, says)[1] = op
BY DEF Does

\* What read_until() skips.
SkippedOps == {Op.SEQUENCE, Op.PUTROOTFH, Op.PUTFH, Op.LOOKUP}

Looking(w) == \E m \in Nat : w = [i \in 1 .. m |-> w[i]] /\ \A i \in 1 .. m : w[i][1] = Op.LOOKUP

\* The numbers n, behind some that are skipped.
Leads(w, n) == \E p \in Seq(SkippedOps) : w = p \o n

Walked(a, b, walk, t) == <<a, b>> \o walk \o t

LEMMA NumbersWalk ==
    ASSUME NEW a, a[1] \in SkippedOps, NEW b, b[1] \in SkippedOps, NEW walk, Looking(walk),
           NEW S, NEW t \in Seq(S)
    PROVE  Leads(Numbers(Walked(a, b, walk, t)), Numbers(t))
<1>0. PICK m \in Nat : walk = [i \in 1 .. m |-> walk[i]] /\ \A i \in 1 .. m : walk[i][1] = Op.LOOKUP
  BY DEF Looking
<1> DEFINE U == {a, b} \union {walk[i] : i \in 1 .. m} \union S
<1>1. <<a, b>> \in Seq(U) /\ t \in Seq(U)
  OBVIOUS
<1>2. walk \in Seq(U) /\ Len(walk) = m
  <2>1. walk \in [1 .. m -> U]
    BY <1>0
  <2> HIDE DEF U
  <2> QED BY <2>1, FunctionIs
<1> HIDE DEF U
<1>3. <<a, b>> \o walk \in Seq(U)
  BY <1>1, <1>2, ConcatIs
<1>4. /\ Numbers(Walked(a, b, walk, t)) = Numbers(<<a, b>> \o walk) \o Numbers(t)
      /\ Numbers(<<a, b>> \o walk) = Numbers(<<a, b>>) \o Numbers(walk)
  BY <1>1, <1>2, <1>3, NumbersConcat DEF Walked
<1>5. Numbers(<<a, b>>) \in Seq(SkippedOps)
  <2>1. Numbers(<<a, b>>) = <<a[1], b[1]>>
    BY NumbersTwo
  <2>2. <<a[1], b[1]>> \in Seq(SkippedOps)
    BY TwoIs
  <2> QED BY <2>1, <2>2
<1>6. Numbers(walk) \in Seq(SkippedOps)
  <2>1. Numbers(walk) = [i \in 1 .. m |-> walk[i][1]]
    BY <1>2 DEF Numbers
  <2>2. \A i \in 1 .. m : walk[i][1] \in SkippedOps
    BY <1>0 DEF SkippedOps
  <2> HIDE DEF SkippedOps
  <2> QED BY <2>1, <2>2
<1>7. Numbers(<<a, b>>) \o Numbers(walk) \in Seq(SkippedOps)
  BY <1>5, <1>6, ConcatIs
<1> QED BY <1>4, <1>7 DEF Leads

\* The operations that carry the call, behind those that lead to its file.
Carrying(x) == IF x.kind = "open" THEN <<Op.OPEN, Op.GETFH>> ELSE <<Which(x)>>

Kinds == {"exchange_id", "create_session", "root_fh", "reclaim", "open", "exists", "delete",
          "size", "read", "write", "lock", "unlock"}

LEMMA WhichIs ==
    ASSUME NEW x, x.kind \in Kinds
    PROVE  /\ x.kind = "exchange_id" => Which(x) = Op.EXCHANGE_ID
           /\ x.kind = "create_session" => Which(x) = Op.CREATE_SESSION
           /\ x.kind \in {"root_fh", "exists"} => Which(x) = Op.GETFH
           /\ x.kind = "reclaim" => Which(x) = Op.RECLAIM_COMPLETE
           /\ x.kind = "open" => Which(x) = Op.OPEN
           /\ x.kind = "delete" => Which(x) = Op.REMOVE
           /\ x.kind = "size" => Which(x) = Op.GETATTR
           /\ x.kind = "read" => Which(x) = Op.READ
           /\ x.kind = "write" => Which(x) = Op.WRITE
           /\ x.kind = "lock" => Which(x) = Op.LOCK
           /\ x.kind = "unlock" => Which(x) = Op.LOCKU
           /\ Which(x) \in Nat /\ Which(x) \notin SkippedOps
<1>1. /\ x.kind = "exchange_id" => Which(x) = Op.EXCHANGE_ID
      /\ x.kind = "create_session" => Which(x) = Op.CREATE_SESSION
      /\ x.kind \in {"root_fh", "exists"} => Which(x) = Op.GETFH
      /\ x.kind = "reclaim" => Which(x) = Op.RECLAIM_COMPLETE
      /\ x.kind = "open" => Which(x) = Op.OPEN
      /\ x.kind = "delete" => Which(x) = Op.REMOVE
      /\ x.kind = "size" => Which(x) = Op.GETATTR
      /\ x.kind = "read" => Which(x) = Op.READ
      /\ x.kind = "write" => Which(x) = Op.WRITE
      /\ x.kind = "lock" => Which(x) = Op.LOCK
      /\ x.kind = "unlock" => Which(x) = Op.LOCKU
  BY DEF Which
<1> QED BY <1>1, OpIs DEF Kinds, SkippedOps

LEMMA CallKind ==
    ASSUME NEW x \in NoFileCalls \union FileCalls
    PROVE  /\ x.kind \in Kinds
           /\ x \in FileCalls <=> x.kind \in {"size", "read", "write", "lock", "unlock"}
           /\ x.kind \in {"open", "exists", "delete"} => x.path \in Path
<1>1. CASE x \in [kind : {"exchange_id", "create_session", "root_fh", "reclaim"}]
  <2>1. x.kind \in {"exchange_id", "create_session", "root_fh", "reclaim"}
    BY <1>1
  <2>2. x \notin FileCalls
    BY <2>1, FileCallIs
  <2> QED BY <2>1, <2>2 DEF Kinds
<1>2. CASE x \in NameCalls
  <2>1. x.kind \in {"exists", "delete"} /\ x.path \in Path
    BY <1>2, NameCallIs
  <2>2. x \notin FileCalls
    BY <2>1, FileCallIs
  <2> QED BY <2>1, <2>2 DEF Kinds
<1>3. CASE x \in OpenCalls
  <2>1. x.kind = "open" /\ x.path \in Path
    BY <1>3, OpenCallIs
  <2>2. x \notin FileCalls
    BY <2>1, FileCallIs
  <2> QED BY <2>1, <2>2 DEF Kinds
<1>4. CASE x \in FileCalls
  <2>1. x.kind \in {"size", "read", "write", "lock", "unlock"}
    BY <1>4, FileCallIs
  <2> QED BY <1>4, <2>1 DEF Kinds
<1> QED BY <1>1, <1>2, <1>3, <1>4 DEF NoFileCalls

LEMMA NamesAre ==
    ASSUME NEW z \in Path
    PROVE  /\ Names(z) = PathOf(z) /\ Names(z) \in Seq(Name)
           /\ Front(Names(z)) \in Seq(Name)
<1>1. z \in Name
  BY InputAssumption DEF Name
<1> QED BY <1>1, SplitDivides, PathOfType

LEMMA WalkIs ==
    ASSUME NEW path \in Seq(Name)
    PROVE  Looking(Walk(path))
<1> DEFINE m == Len(path)
           w == Walk(path)
<1>1. m \in Nat /\ w = [i \in 1 .. m |-> <<Op.LOOKUP, <<path[i]>>>>]
  BY DEF Walk
<1>2. w = [i \in 1 .. m |-> w[i]] /\ \A i \in 1 .. m : w[i][1] = Op.LOOKUP
  BY <1>1
<1> QED BY <1>1, <1>2 DEF Looking

LEMMA PutsAre ==
    /\ PutSession[1] \in SkippedOps /\ PutRoot[1] \in SkippedOps
    /\ \A h : PutHandle(h)[1] \in SkippedOps
BY DEF PutSession, PutRoot, PutHandle, SkippedOps

\* A request leads to its file, and then does what the call is for.
LEMMA MeantIs ==
    ASSUME NEW x \in NoFileCalls \union FileCalls
    PROVE  Leads(Numbers(Meant(x)), Carrying(x))
<1>0. x.kind \in Kinds /\ (x.kind \in {"open", "exists", "delete"} => x.path \in Path)
  BY CallKind
<1>1. \A n : Leads(<<n>>, <<n>>)
  <2>1. \A n : <<>> \in Seq(SkippedOps) /\ <<n>> = <<>> \o <<n>>
    OBVIOUS
  <2> QED BY <2>1 DEF Leads
<1>2. ASSUME NEW op, NEW says
      PROVE  Leads(Numbers(Asked(op, says)), <<op>>)
  <2> DEFINE o == Does(op, says)
  <2>1. Asked(op, says) = <<PutSession, PutHandle(srv.fh), o>> /\ o[1] = op
    BY DEF Asked, Does
  <2> HIDE DEF o
  <2>2. Numbers(Asked(op, says)) = <<PutSession[1], PutHandle(srv.fh)[1], op>>
    BY <2>1, NumbersTwo
  <2>3. /\ <<PutSession[1], PutHandle(srv.fh)[1]>> \in Seq(SkippedOps)
        /\ <<PutSession[1], PutHandle(srv.fh)[1], op>>
             = <<PutSession[1], PutHandle(srv.fh)[1]>> \o <<op>>
    BY PutsAre
  <2> QED BY <2>2, <2>3 DEF Leads
<1>3. ASSUME NEW op, NEW says, NEW a, a \in {PutRoot, PutHandle(srv.root)}, NEW walk, Looking(walk)
      PROVE  Leads(Numbers(Walked(PutSession, a, walk, <<Does(op, says)>>)), <<op>>)
  <2> DEFINE o == Does(op, says)
             t == <<o>>
             q == PutSession
  <2>1. o[1] = op /\ q[1] \in SkippedOps /\ a[1] \in SkippedOps
    BY <1>3, PutsAre, DoesIs
  <2> HIDE DEF o, q
  <2>2. Numbers(t) = <<o[1]>>
    BY NumbersTwo
  <2> DEFINE S == {o}
  <2>3. t \in Seq(S)
    BY OneIs
  <2> HIDE DEF t, S
  <2>4. Leads(Numbers(Walked(q, a, walk, t)), Numbers(t))
    BY <1>3, <2>1, <2>3, NumbersWalk
  <2> QED BY <2>1, <2>2, <2>4 DEF t, o, q
<1>4. CASE x.kind = "exchange_id"
  <2> DEFINE o == Does(Op.EXCHANGE_ID, SaidClient)
  <2>1. Meant(x) = <<o>> /\ o[1] = Op.EXCHANGE_ID
    BY <1>4, DoesIs DEF Meant, Does
  <2> HIDE DEF o
  <2>2. Numbers(Meant(x)) = <<Op.EXCHANGE_ID>> /\ Carrying(x) = <<Op.EXCHANGE_ID>>
    BY <1>0, <1>4, <2>1, NumbersTwo, WhichIs DEF Carrying
  <2> QED BY <1>1, <2>2
<1>5. CASE x.kind = "create_session"
  <2> DEFINE o == Does(Op.CREATE_SESSION, SaidSession)
  <2>1. Meant(x) = <<o>> /\ o[1] = Op.CREATE_SESSION
    BY <1>5, DoesIs DEF Meant, Does
  <2> HIDE DEF o
  <2>2. Numbers(Meant(x)) = <<Op.CREATE_SESSION>> /\ Carrying(x) = <<Op.CREATE_SESSION>>
    BY <1>0, <1>5, <2>1, NumbersTwo, WhichIs DEF Carrying
  <2> QED BY <1>1, <2>2
<1>6. CASE x.kind = "root_fh"
  <2> DEFINE o == Does(Op.GETFH, <<>>)
  <2>1. Meant(x) = <<PutSession, PutRoot, o>> /\ o[1] = Op.GETFH
    BY <1>6, DoesIs DEF Meant, Does
  <2> HIDE DEF o
  <2>2. Numbers(Meant(x)) = <<PutSession[1], PutRoot[1], o[1]>>
    BY <2>1, NumbersTwo
  <2>4. Carrying(x) = <<Op.GETFH>>
    BY <1>0, <1>6, WhichIs DEF Carrying
  <2>3. /\ <<PutSession[1], PutRoot[1]>> \in Seq(SkippedOps)
        /\ <<PutSession[1], PutRoot[1], Op.GETFH>> = <<PutSession[1], PutRoot[1]>> \o <<Op.GETFH>>
    BY PutsAre, TwoIs
  <2> QED BY <2>1, <2>2, <2>3, <2>4 DEF Leads
<1>7. CASE x.kind = "reclaim"
  <2> DEFINE o == Does(Op.RECLAIM_COMPLETE, <<<<0>>>>)
  <2>1. Meant(x) = <<PutSession, o>> /\ o[1] = Op.RECLAIM_COMPLETE
    BY <1>7, DoesIs DEF Meant, Does
  <2> HIDE DEF o
  <2>2. Numbers(Meant(x)) = <<PutSession[1], Op.RECLAIM_COMPLETE>>
        /\ Carrying(x) = <<Op.RECLAIM_COMPLETE>>
    BY <1>0, <1>7, <2>1, NumbersTwo, WhichIs DEF Carrying
  <2>3. /\ <<PutSession[1]>> \in Seq(SkippedOps)
        /\ <<PutSession[1], Op.RECLAIM_COMPLETE>> = <<PutSession[1]>> \o <<Op.RECLAIM_COMPLETE>>
    BY PutsAre, OneIs
  <2> QED BY <2>2, <2>3 DEF Leads
<1>8. CASE x.kind = "open"
  <2> DEFINE o == Does(Op.OPEN, SaidOpen(x))
             g == Does(Op.GETFH, <<>>)
             t == <<o, g>>
             w == Walk(Front(Names(x.path)))
             h == PutHandle(srv.root)
             q == PutSession
  <2>1. Meant(x) = Walked(q, h, w, t)
    BY <1>8 DEF Meant, Walked, Does
  <2>2. /\ Looking(w) /\ q[1] \in SkippedOps /\ h[1] \in SkippedOps
        /\ o[1] = Op.OPEN /\ g[1] = Op.GETFH
    BY <1>0, <1>8, NamesAre, WalkIs, PutsAre, DoesIs
  <2> HIDE DEF o, g, w, h, q
  <2>3. Numbers(t) = <<o[1], g[1]>>
    BY NumbersTwo
  <2> DEFINE S == {o, g}
  <2>6. t \in Seq(S)
    BY TwoIs
  <2>4. Carrying(x) = <<Op.OPEN, Op.GETFH>>
    BY <1>8 DEF Carrying
  <2> HIDE DEF t, S
  <2>5. Leads(Numbers(Walked(q, h, w, t)), Numbers(t))
    BY <2>2, <2>6, NumbersWalk
  <2> QED BY <2>1, <2>2, <2>3, <2>4, <2>5
<1>9. CASE x.kind = "exists"
  <2>1. Meant(x) = Walked(PutSession, PutRoot, Walk(Names(x.path)), <<Does(Op.GETFH, <<>>)>>)
    BY <1>9 DEF Meant, Walked, Does
  <2>2. Carrying(x) = <<Op.GETFH>>
    BY <1>0, <1>9, WhichIs DEF Carrying
  <2>3. Looking(Walk(Names(x.path)))
    BY <1>0, <1>9, NamesAre, WalkIs
  <2> QED BY <1>3, <2>1, <2>2, <2>3
<1>10. CASE x.kind = "delete"
  <2>1. Meant(x) = Walked(PutSession, PutHandle(srv.root), Walk(Front(Names(x.path))),
                          <<Does(Op.REMOVE, <<Last(Names(x.path))>>)>>)
    BY <1>10 DEF Meant, Walked, Does
  <2>2. Carrying(x) = <<Op.REMOVE>>
    BY <1>0, <1>10, WhichIs DEF Carrying
  <2>3. Looking(Walk(Front(Names(x.path))))
    BY <1>0, <1>10, NamesAre, WalkIs
  <2> QED BY <1>3, <2>1, <2>2, <2>3
<1>11. CASE x.kind \in {"size", "read", "write", "lock", "unlock"}
  <2>1. Carrying(x) = <<Which(x)>>
    BY <1>11 DEF Carrying
  <2>2. \E says : Meant(x) = Asked(Which(x), says)
    BY <1>11 DEF Meant, Which
  <2> QED BY <1>2, <2>1, <2>2
<1> QED BY <1>0, <1>4, <1>5, <1>6, <1>7, <1>8, <1>9, <1>10, <1>11 DEF Kinds

LEMMA SeqWider ==
    ASSUME NEW S, NEW T, S \subseteq T, NEW s \in Seq(S)
    PROVE  s \in Seq(T)
OBVIOUS

LEMMA NumbersType ==
    ASSUME NEW x \in NoFileCalls \union FileCalls
    PROVE  Numbers(Meant(x)) \in Seq(Nat) /\ Len(Numbers(Meant(x))) = Len(Meant(x))
<1> DEFINE m == Numbers(Meant(x))
<1>1. PICK p \in Seq(SkippedOps) : m = p \o Carrying(x)
  BY MeantIs DEF Leads
<1>2. Carrying(x) \in Seq(Nat)
  <2>1. x.kind \in Kinds
    BY CallKind
  <2>2. Which(x) \in Nat
    BY <2>1, WhichIs
  <2>3. CASE x.kind = "open"
    <3>1. <<Op.OPEN, Op.GETFH>> \in Seq(Nat)
      BY OpIs
    <3> QED BY <2>3, <3>1 DEF Carrying
  <2>4. CASE x.kind # "open"
    BY <2>2, <2>4 DEF Carrying
  <2> QED BY <2>3, <2>4
<1>3. SkippedOps \subseteq Nat
  BY OpIs DEF SkippedOps
<1> DEFINE y == Carrying(x)
<1> HIDE DEF SkippedOps
<1>4. p \in Seq(Nat) /\ y \in Seq(Nat)
  BY <1>1, <1>2, <1>3, SeqWider
<1> HIDE DEF y
<1>5. p \o y \in Seq(Nat)
  BY <1>4, ConcatIs
<1>6. m \in Seq(Nat)
  BY <1>1, <1>5 DEF y
<1>7. DOMAIN m = DOMAIN Meant(x)
  BY DEF Numbers
<1> QED BY <1>6, <1>7

-----------------------------------------------------------------------------
\* What the server knows.

LEMMA AceType ==
    ASSUME NEW name \in Name
    PROVE  Ace(name) \in Seq(Nat)
<1>1. <<0, 0, 0>> \in Seq(Nat) /\ String(name) \in Seq(Nat)
  BY StringFits
<1> QED BY <1>1, ConcatIs DEF Ace

LEMMA DelegationsType == Delegations \subseteq Seq(Nat)
<1> DEFINE a == <<1, 1, 1, 1>>
           b == <<1, 1, 1, 1, 1>>
           d == <<1>>
           x == <<1, 1, 91, 92, 93, 0>>
           y == <<2, 1, 91, 92, 93, 0, 1, 0, 4096>>
           o == <<0>>
           p == <<3, 0>>
           q == <<3, 1, 0>>
           r == <<3, 2, 1>>
<1>1. a \in Name /\ b \in Name /\ d \in Name
  BY LetterIs DEF Name
<1>2. o \in Seq(Nat) /\ p \in Seq(Nat) /\ q \in Seq(Nat) /\ r \in Seq(Nat)
  OBVIOUS
<1>3. x \in Seq(Nat) /\ y \in Seq(Nat)
  OBVIOUS
<1>4. Delegations = {o, x \o Ace(a), x \o Ace(b), y \o Ace(d), p, q, r}
  BY DEF Delegations
<1> HIDE DEF a, b, d, x, y, o, p, q, r
<1>5. x \o Ace(a) \in Seq(Nat) /\ x \o Ace(b) \in Seq(Nat) /\ y \o Ace(d) \in Seq(Nat)
  <2>1. Ace(a) \in Seq(Nat) /\ Ace(b) \in Seq(Nat) /\ Ace(d) \in Seq(Nat)
    BY <1>1, AceType
  <2> QED BY <1>3, <2>1, ConcatIs
<1> QED BY <1>2, <1>4, <1>5

LEMMA HandleType == Handle \subseteq Name
<1>1. <<1, 2, 1>> \in Name
  BY LetterIs DEF Name
<1>2. FhSize \in Nat
  BY SizeAssumption, WIs
<1>3. [i \in 1 .. FhSize |-> 2] \in Name
  BY <1>2, LetterIs DEF Name
<1> QED BY <1>1, <1>3 DEF Handle

LEMMA KnowingType ==
    ASSUME srv \in Server, NEW x \in NoFileCalls \union FileCalls, NEW s \in Knowing(x)
    PROVE  s \in Server /\ [s EXCEPT !.slot = srv.slot + 1] \in Server
<1>1. ASSUME NEW t \in Server, NEW n \in Nat
      PROVE  [t EXCEPT !.slot = n] \in Server
  BY DEF Server
<1>0. srv.slot + 1 \in Nat /\ x.kind \in Kinds
  BY ServerIs, CallKind
<1>2. s \in Server
  <2>1. CASE x.kind = "exchange_id"
    <3>1. s = [srv EXCEPT !.clientid = <<5, 6>>, !.seqid = 3]
      BY <2>1 DEF Knowing
    <3>2. <<5, 6>> \in [1 .. 2 -> Nat]
      OBVIOUS
    <3> DEFINE id == <<5, 6>>
    <3>3. s = [srv EXCEPT !.clientid = id, !.seqid = 3] /\ id \in [1 .. 2 -> Nat]
      BY <3>1, <3>2
    <3> HIDE DEF id
    <3> QED BY <3>3 DEF Server
  <2>2. CASE x.kind = "create_session"
    <3>1. PICK n \in ServerLimit :
            s = [srv EXCEPT !.session = <<11, 12, 13, 14>>, !.slot = 0, !.limit = n]
      BY <2>2 DEF Knowing
    <3>2. n \in Nat
      BY InputAssumption, WIs
    <3> DEFINE id == <<11, 12, 13, 14>>
    <3>3. id \in Four
      BY DEF Four
    <3>4. s = [srv EXCEPT !.session = id, !.slot = 0, !.limit = n]
      BY <3>1
    <3> HIDE DEF id
    <3> QED BY <3>2, <3>3, <3>4 DEF Server
  <2>3. CASE x.kind = "open"
    <3>1. PICK h \in Handle :
            s = [srv EXCEPT !.fh = h, !.open = <<srv.open[1] + 1, 71, 72, 73>>,
                            !.latest = <<srv.open[1] + 1, 71, 72, 73>>]
      BY <2>3 DEF Knowing
    <3>2. h \in Name /\ srv.open[1] + 1 \in Nat
      BY HandleType, ServerIs DEF Four
    <3> DEFINE i == srv.open[1] + 1
               id == <<i, 71, 72, 73>>
    <3>3. id \in Four
      <4> HIDE DEF i
      <4> QED BY <3>2 DEF Four, i
    <3>4. s = [srv EXCEPT !.fh = h, !.open = id, !.latest = id]
      BY <3>1
    <3> HIDE DEF id
    <3> QED BY <3>2, <3>3, <3>4 DEF Server
  <2>4. CASE x.kind = "size"
    <3>1. s = [srv EXCEPT !.value = Be64(W + 9)]
      BY <2>4 DEF Knowing
    <3>2. Be64(W + 9) \in Seq(Nat)
      BY WIs, Be64Type
    <3> QED BY <3>1, <3>2 DEF Server
  <2>5. CASE x.kind = "read"
    <3>1. PICK d \in Data : s = [srv EXCEPT !.value = d]
      BY <2>5 DEF Knowing
    <3>2. d \in Seq(Nat)
      BY InputAssumption, NameIs DEF Name
    <3> QED BY <3>1, <3>2 DEF Server
  <2>6. CASE x.kind \in {"lock", "unlock"}
    <3>1. s = [srv EXCEPT !.latest = <<srv.latest[1] + 1, 81, 82, 83>>]
      BY <2>6 DEF Knowing
    <3>2. srv.latest[1] + 1 \in Nat
      BY ServerIs DEF Four
    <3> DEFINE i == srv.latest[1] + 1
               id == <<i, 81, 82, 83>>
    <3>3. id \in Four
      <4> HIDE DEF i
      <4> QED BY <3>2 DEF Four, i
    <3>4. s = [srv EXCEPT !.latest = id]
      BY <3>1
    <3> HIDE DEF id
    <3> QED BY <3>3, <3>4 DEF Server
  <2>7. CASE x.kind \in {"root_fh", "reclaim", "exists", "delete", "write"}
    BY <2>7 DEF Knowing
  <2> QED BY <1>0, <2>1, <2>2, <2>3, <2>4, <2>5, <2>6, <2>7 DEF Kinds
<1> QED BY <1>0, <1>1, <1>2

-----------------------------------------------------------------------------
\* What a call leaves in the client.

LEMMA GetType ==
    ASSUME NEW r \in Seq(Nat)
    PROVE  /\ \A i : Get(r, i) \in Nat
           /\ \A i : \A n \in Nat : Take(r, i, n) \in [1 .. n -> Nat]
<1>1. \A i : Get(r, i) \in Nat
  <2>1. Junk \in Nat
    BY WIs DEF Junk
  <2> QED BY <2>1 DEF Get
<1> QED BY <1>1 DEF Take

LEMMA FileHandleType ==
    ASSUME NEW r \in Seq(Nat), NEW at
    PROVE  FileHandle(r, at) \in Name
<1> DEFINE n == Get(r, at + 2)
           w == Take(r, at + 3, FhSize)
<1>1. FhSize \in Nat /\ n \in Nat /\ w \in [1 .. FhSize -> Nat]
  BY SizeAssumption, WIs, GetType
<1>2. <<>> \in Name
  BY DEF Name
<1> HIDE DEF n, w
<1>3. n <= FhSize => Letters(w, n) \in Name
  BY <1>1, LettersType
<1> QED BY <1>2, <1>3 DEF FileHandle, n, w

LEMMA OutcomesType ==
    ASSUME c \in Client, f \in File \union {NoFile}, NEW x \in NoFileCalls \union FileCalls,
           x \in FileCalls => f \in File, NEW r \in Seq(Nat), NEW o \in Outcomes(x, r)
    PROVE  /\ o.c \in Client /\ o.f \in File \union {NoFile} /\ o.ok \in BOOLEAN
           /\ x.kind # "open" /\ x \notin FileCalls => o.f = f
<1> DEFINE Fine == /\ o.c \in Client /\ o.f \in File \union {NoFile} /\ o.ok \in BOOLEAN
                   /\ x.kind # "open" /\ x \notin FileCalls => o.f = f
           at == ReadUntil(r, Which(x)) + 1
<1>1. CASE o = Failed
  BY <1>1 DEF Failed, Outcome
<1>2. CASE o \in Parse(x, r, at)
  <2>1. \A i : Get(r, i) \in Nat
    BY GetType
  <2>2. FhSize \in Nat
    BY SizeAssumption, WIs
  <2>3. \A i : /\ Take(r, i, 2) \in [1 .. 2 -> Nat] /\ Take(r, i, 4) \in [1 .. 4 -> Nat]
               /\ Take(r, i, 5) \in [1 .. 5 -> Nat] /\ Take(r, i, FhSize) \in [1 .. FhSize -> Nat]
    <3>1. 2 \in Nat /\ 4 \in Nat /\ 5 \in Nat
      OBVIOUS
    <3> QED BY <2>2, <3>1, GetType
  <2> HIDE DEF at
  <2>4. CASE x.kind = "exchange_id"
    <3>1. o = Outcome(TRUE, [c EXCEPT !.clientid = Take(r, at, 2),
                                      !.serverSequence = Get(r, at + 2)], f, <<>>)
      BY <1>2, <2>4 DEF Parse
    <3>2. [c EXCEPT !.clientid = Take(r, at, 2), !.serverSequence = Get(r, at + 2)] \in Client
      BY <2>1, <2>3 DEF Client
    <3> QED BY <3>1, <3>2 DEF Outcome
  <2>5. CASE x.kind = "create_session"
    <3> DEFINE k == [c EXCEPT !.session = Take(r, at, 4)]
               n == Take(r, at + 7, 5)
    <3>1. o = Outcome(TRUE, AtMost(k, n), f, <<>>)
      BY <1>2, <2>5 DEF Parse
    <3>2. k \in Client /\ n \in [1 .. 5 -> Nat]
      BY <2>3 DEF Client, Four
    <3> HIDE DEF k, n
    <3>3. /\ Min2(k.maxreq, n[1]) \in Nat /\ Min2(k.maxresp, n[2]) \in Nat
          /\ Min2(k.maxops, n[4]) \in Nat /\ Min2(k.maxreqs, n[5]) \in Nat
      BY <3>2, ClientIs DEF Min2
    <3>4. AtMost(k, n) \in Client
      BY <3>2, <3>3 DEF AtMost, Client
    <3> QED BY <3>1, <3>4 DEF Outcome
  <2>6. CASE x.kind = "root_fh"
    <3>1. CASE Get(r, at) > FhSize
      <4>1. o = Failed
        BY <1>2, <2>6, <3>1 DEF Parse
      <4> QED BY <1>1, <4>1
    <3>2. CASE ~(Get(r, at) > FhSize)
      <4> DEFINE n == Get(r, at)
                 w == Take(r, at + 1, FhSize)
                 k == [c EXCEPT !.root = Letters(w, n)]
      <4>1. o = Outcome(TRUE, k, f, <<>>)
        BY <1>2, <2>6, <3>2 DEF Parse
      <4>2. w \in [1 .. FhSize -> Nat] /\ n \in Nat /\ n <= 4 * FhSize
        BY <2>1, <2>2, <2>3, <3>2
      <4> HIDE DEF n, w
      <4>3. Letters(w, n) \in Name
        BY <2>2, <4>2, LettersType
      <4>4. k \in Client
        BY <4>3 DEF Client
      <4> HIDE DEF k
      <4> QED BY <4>1, <4>4 DEF Outcome
    <3> QED BY <3>1, <3>2
  <2>7. CASE x.kind = "open"
    <3> DEFINE fh == FileHandle(r, ParseOpen(r, at))
               id == Take(r, at, 4)
               g == [fh |-> fh, open |-> id, latest |-> id]
    <3>1. o = Failed \/ o = Outcome(TRUE, c, g, <<>>)
      BY <1>2, <2>7 DEF Parse
    <3>2. fh \in Name /\ id \in Four
      BY <2>3, FileHandleType DEF Four
    <3> HIDE DEF fh, id
    <3>3. g \in File
      BY <3>2 DEF File
    <3> HIDE DEF g
    <3>4. CASE o = Outcome(TRUE, c, g, <<>>)
      BY <2>7, <3>3, <3>4 DEF Outcome
    <3> QED BY <1>1, <3>1, <3>4
  <2>8. CASE x.kind = "size"
    <3>1. o = Outcome(TRUE, c, f, Take(r, Len(r) - 1, 2))
      BY <1>2, <2>8 DEF Parse
    <3> QED BY <3>1 DEF Outcome
  <2>9. CASE x.kind = "read"
    <3>1. o = Outcome(TRUE, c, f, Letters(Take(r, at + 2, Len(r)), Get(r, at + 1)))
      BY <1>2, <2>9 DEF Parse
    <3> QED BY <3>1 DEF Outcome
  <2>10. CASE x.kind \in {"lock", "unlock"}
    <3> DEFINE id == Take(r, at, 4)
               g == [f EXCEPT !.latest = id]
    <3>1. o = Outcome(TRUE, c, g, <<>>)
      BY <1>2, <2>10 DEF Parse
    <3>2. x \in FileCalls /\ f \in File
      BY <2>10, CallKind
    <3>3. id \in Four
      BY <2>3 DEF Four
    <3> HIDE DEF id
    <3>4. g \in File
      BY <3>2, <3>3 DEF File
    <3> HIDE DEF g
    <3> QED BY <3>1, <3>2, <3>4 DEF Outcome
  <2>11. CASE x.kind \in {"reclaim", "exists", "delete", "write"}
    <3>1. o = Outcome(TRUE, c, f, <<>>)
      BY <1>2, <2>11 DEF Parse
    <3> QED BY <3>1 DEF Outcome
  <2>12. x.kind \in Kinds
    BY CallKind
  <2> QED BY <2>4, <2>5, <2>6, <2>7, <2>8, <2>9, <2>10, <2>11, <2>12 DEF Kinds
<1> QED BY <1>1, <1>2 DEF Outcomes

-----------------------------------------------------------------------------
\* The inductive invariant, action by action.

Whole(b) ==
    /\ b \in Buffer /\ b.start <= b.end /\ Len(b.contents) = b.capacity
    /\ b.end <= b.capacity /\ b.capacity >= 24 /\ ~b.over

LEMMA EmptiedIsWhole ==
    ASSUME NEW b, Whole(b)
    PROVE  Whole([b EXCEPT !.start = b.end])
<1> DEFINE e == [b EXCEPT !.start = b.end]
<1>1. b \in Buffer /\ b.end \in Nat
  BY DEF Whole, Buffer
<1>2. /\ e \in Buffer /\ e.start = b.end /\ e.end = b.end /\ e.capacity = b.capacity
      /\ e.over = b.over /\ e.contents = b.contents
  BY <1>1 DEF Buffer
<1> HIDE DEF e
<1>3. Whole(e)
  BY <1>1, <1>2 DEF Whole
<1> QED BY <1>3 DEF e

LEMMA EndedIsWhole ==
    ASSUME NEW b \in Buffer, b.start = 0, Len(b.contents) = b.capacity, b.capacity >= 24, ~b.over,
           NEW m \in Nat, m <= b.capacity
    PROVE  /\ Whole([b EXCEPT !.end = m]) /\ [b EXCEPT !.end = m].start = 0
           /\ [b EXCEPT !.end = m].capacity = b.capacity
<1> DEFINE e == [b EXCEPT !.end = m]
<1>1. /\ e \in Buffer /\ e.start = 0 /\ e.end = m /\ e.capacity = b.capacity
      /\ e.over = b.over /\ e.contents = b.contents
  BY DEF Buffer
<1> HIDE DEF e
<1>2. Whole(e)
  BY <1>1 DEF Whole
<1> QED BY <1>1, <1>2 DEF e

LEMMA SoundIsWhole ==
    ASSUME NEW b, Sound(b)
    PROVE  Whole(b) /\ b.start = 0 /\ b.end \in Nat
BY DEF Sound, Whole, Buffer

\* The calls that may begin, and the one in progress.
Allowed == IF up < 4 THEN {[kind |-> Startup[up + 1]]}
           ELSE IF f = NoFile THEN NameCalls \union OpenCalls ELSE FileCalls

LEMMA AllowedIs ==
    ASSUME up \in 0 .. 4, f \in File \union {NoFile}, NEW x \in Allowed
    PROVE  /\ x \in NoFileCalls \union FileCalls /\ x \in Call
           /\ x \in FileCalls => f \in File
           /\ up < 4 => x.kind # "open" /\ x \notin FileCalls
<1>1. CASE up < 4
  <2>1. up + 1 \in 1 .. 4 /\ x = [kind |-> Startup[up + 1]]
    BY <1>1 DEF Allowed
  <2>2. Startup[up + 1] \in {"exchange_id", "create_session", "root_fh", "reclaim"}
    BY <2>1 DEF Startup
  <2>3. x \in [kind : {"exchange_id", "create_session", "root_fh", "reclaim"}]
    BY <2>1, <2>2
  <2>4. x.kind \in {"exchange_id", "create_session", "root_fh", "reclaim"}
    BY <2>3
  <2>5. x \in NoFileCalls
    BY <2>3 DEF NoFileCalls
  <2>6. x.kind # "open" /\ x \notin FileCalls
    BY <2>4, <2>5, CallKind
  <2> QED BY <2>3, <2>5, <2>6 DEF Call
<1>2. CASE up = 4 /\ f = NoFile
  <2>1. x \in NameCalls \union OpenCalls
    BY <1>2 DEF Allowed
  <2>2. x.kind \in {"exists", "delete", "open"}
    BY <2>1, NameCallIs, OpenCallIs
  <2>3. x \notin FileCalls
    BY <2>2, FileCallIs
  <2> QED BY <1>2, <2>1, <2>3 DEF NoFileCalls, Call
<1>3. CASE up = 4 /\ f # NoFile
  <2>1. x \in FileCalls /\ f \in File
    BY <1>3 DEF Allowed
  <2> QED BY <1>3, <2>1 DEF Call
<1> QED BY <1>1, <1>2, <1>3

LEMMA IInvIs ==
    ASSUME IInv
    PROVE  /\ Whole(forward) /\ Whole(reverse) /\ c \in Client /\ srv \in Server
           /\ f \in File \union {NoFile} /\ up \in 0 .. 4 /\ calls \in 0 .. MaxCalls
           /\ pc \in {"send", "frame", "body", "parse"} => call \in Allowed
           /\ wire \in Seq(Nat) /\ socket \in Seq(Nat) /\ frame \in Nat /\ got \in Nat
BY DEF IInv, TypeOK, CallAllowed, BuffersHold, Whole, Allowed

LEMMA SetType ==
    ASSUME NEW s \in Seq(Nat), NEW i, NEW n \in Nat
    PROVE  [s EXCEPT ![i] = n] \in Seq(Nat)
<1> DEFINE t == [s EXCEPT ![i] = n]
<1>1. Len(s) \in Nat /\ s \in [1 .. Len(s) -> Nat]
  OBVIOUS
<1>2. t \in [1 .. Len(s) -> Nat]
  BY <1>1
<1> HIDE DEF t
<1>3. t \in Seq(Nat)
  BY <1>1, <1>2, FunctionIs
<1> QED BY <1>3 DEF t

LEMMA FramedType ==
    ASSUME NEW b, Sound(b), b.end >= OpCountLoc, NEW n \in Nat
    PROVE  Framed(b, n) \in Seq(Nat)
<1> DEFINE w == SubSeq(b.contents, 1, b.end)
           m == 4 * (b.end - 1)
<1>1. b.contents \in Seq(Nat) /\ b.end \in Nat /\ b.end <= Len(b.contents) /\ b.start = 0
  BY DEF Sound, Buffer
<1>2. w \in Seq(Nat)
  BY <1>1, FrontIs
<1>3. m \in Nat
  BY <1>1 DEF OpCountLoc
<1>4. Framed(b, n) = [w EXCEPT ![1] = m, ![OpCountLoc] = n]
  <2>1. 0 + 1 = 1 /\ b.end - 0 = b.end
    BY <1>1
  <2> QED BY <1>1, <2>1 DEF Framed, Contents, Length
<1> DEFINE first == [w EXCEPT ![1] = m]
<1> HIDE DEF w, m
<1>5. first \in Seq(Nat)
  BY <1>2, <1>3, SetType
<1>6. Framed(b, n) = [first EXCEPT ![OpCountLoc] = n]
  BY <1>4
<1> HIDE DEF first
<1> QED BY <1>5, <1>6, SetType

LEMMA InitHolds == Init => IInv
<1> SUFFICES ASSUME Init PROVE IInv
  OBVIOUS
<1>1. Whole(NewBuffer)
  <2> DEFINE w == [i \in 1 .. Capacity |-> Junk]
  <2>1. Capacity \in Nat /\ Capacity >= 24 /\ Junk \in Nat
    BY SizeAssumption, WIs DEF Junk
  <2>2. w \in [1 .. Capacity -> Nat]
    BY <2>1
  <2> HIDE DEF w
  <2>3. w \in Seq(Nat) /\ Len(w) = Capacity
    BY <2>1, <2>2, FunctionIs
  <2>4. NewBuffer = [start |-> 0, end |-> 0, capacity |-> Capacity, over |-> FALSE, contents |-> w]
    BY DEF NewBuffer, w
  <2> QED BY <2>1, <2>3, <2>4 DEF Whole, Buffer
<1>2. c \in Client
  <2>1. PICK digits \in Setting :
          c = [xid |-> 100, clientid |-> <<0, 0>>, session |-> <<0, 0, 0, 0>>, sequence |-> 0,
               serverSequence |-> 0, root |-> <<>>, maxreq |-> 1048576, maxresp |-> 1048576,
               maxops |-> ConfigU64(digits, 16), maxreqs |-> 32]
    BY SMT DEF Init
  <2> DEFINE big == 1048576
             two == <<0, 0>>
             four == <<0, 0, 0, 0>>
             ops == ConfigU64(digits, 16)
  <2>2. big \in Nat
    BY SMT
  <2>3. two \in [1 .. 2 -> Nat] /\ four \in Four /\ <<>> \in Name
    BY DEF Four, Name
  <2>4. ops \in Nat
    <3>1. digits \in Seq(0 .. 9) /\ 16 \in Nat
      BY InputAssumption
    <3> QED BY <3>1, ConfigType
  <2>5. c = [xid |-> 100, clientid |-> two, session |-> four, sequence |-> 0,
             serverSequence |-> 0, root |-> <<>>, maxreq |-> big, maxresp |-> big,
             maxops |-> ops, maxreqs |-> 32]
    BY <2>1
  <2> HIDE DEF big, two, four, ops
  <2> QED BY <2>2, <2>3, <2>4, <2>5 DEF Client
<1>3. srv \in Server
  <2> DEFINE two == <<0, 0>>
             four == <<0, 0, 0, 0>>
             root == [i \in 1 .. RootLength |-> 1]
             none == <<>>
  <2>1. two \in [1 .. 2 -> Nat] /\ four \in Four /\ none \in Name /\ none \in Seq(Nat)
    BY DEF Four, Name
  <2>2. root \in Name
    <3>1. RootLength \in Nat
      BY SizeAssumption, WIs
    <3> QED BY <3>1, OnesType
  <2>3. srv = [clientid |-> two, seqid |-> 0, session |-> four, slot |-> 0, root |-> root,
               fh |-> none, open |-> four, latest |-> four, limit |-> 0, value |-> none]
    BY SMT DEF Init
  <2> HIDE DEF two, four, root, none
  <2> QED BY <2>1, <2>2, <2>3 DEF Server
<1>4. /\ pc = "idle" /\ call = [kind |-> "none"] /\ calls = 0 /\ up = 0 /\ f = NoFile
      /\ result = [ok |-> TRUE, value |-> <<>>] /\ forward = NewBuffer /\ reverse = NewBuffer
      /\ frame = 0 /\ got = 0 /\ wire = <<>> /\ socket = <<>> /\ sent = <<>>
  BY SMT DEF Init
<1>5. TypeOK
  <2>1. call \in Call /\ calls \in 0 .. MaxCalls
    BY <1>4, SizeAssumption DEF Call
  <2>2. wire \in Seq(Nat) /\ socket \in Seq(Nat) /\ sent \in Seq(Nat)
    BY <1>4
  <2>3. {forward, reverse} \subseteq Buffer
        /\ \A b \in {forward, reverse} : b.start <= b.end /\ Len(b.contents) = b.capacity
    BY <1>1, <1>4 DEF Whole
  <2> QED BY <1>2, <1>3, <1>4, <2>1, <2>2, <2>3 DEF TypeOK
<1>6. CallAllowed /\ BuffersHold /\ OneReply
  BY <1>1, <1>4 DEF CallAllowed, BuffersHold, OneReply, Whole
<1> QED BY <1>5, <1>6 DEF IInv

\* allocate_rpc() and push_*: the buffer is emptied and holds what is pushed.
LEMMA BeginStep ==
    ASSUME IInv, NEW x \in Allowed, Begin(x), calls' \in 0 .. MaxCalls
    PROVE  IInv'
<1> DEFINE k == [c EXCEPT !.xid = @ + 1, !.sequence = IF x.kind = "create_session" THEN 1 ELSE @]
           old == IF up < 4 THEN reverse ELSE forward
           b == Build(old, k.xid, Request(k, x))
<1>0. /\ Whole(forward) /\ Whole(reverse) /\ c \in Client /\ srv \in Server
      /\ f \in File \union {NoFile} /\ up \in 0 .. 4
      /\ wire \in Seq(Nat) /\ socket \in Seq(Nat) /\ frame \in Nat /\ got \in Nat
  BY IInvIs
<1>1. k \in Client
  <2>1. c.xid + 1 \in Nat
    BY <1>0, ClientIs
  <2> QED BY <1>0, <2>1 DEF Client
<1>2. x \in NoFileCalls \union FileCalls /\ x \in Call /\ (x \in FileCalls => f \in File)
  BY <1>0, AllowedIs
<1>3. /\ pc = "idle" /\ pc' = "send" /\ call' = x
      /\ c' = [k EXCEPT !.sequence = IF InSession(x) THEN @ + 1 ELSE @,
                        !.serverSequence = IF x.kind = "create_session" THEN @ + 1 ELSE @]
      /\ IF up < 4 THEN reverse' = b /\ forward' = forward
                   ELSE forward' = b /\ reverse' = reverse
      /\ f' = f /\ result' = result /\ up' = up /\ frame' = frame /\ got' = got
      /\ wire' = wire /\ socket' = socket /\ srv' = srv /\ sent' = sent /\ meant' = meant
  BY DEF Begin, network, server
<1>4. Sound(b) /\ b.end >= OpCountLoc
  <2>1. /\ old \in Buffer /\ Len(old.contents) = old.capacity /\ old.capacity >= 24 /\ ~old.over
    BY <1>0 DEF Whole
  <2>2. k.xid \in Nat /\ Request(k, x) \in Seq(Operation)
    BY <1>1, <1>2, ClientIs, RequestType
  <2> HIDE DEF old, k
  <2> QED BY <2>1, <2>2, BuildIs
<1> HIDE DEF old, b
<1>5. c' \in Client
  <2> HIDE DEF k
  <2>1. k.sequence + 1 \in Nat /\ k.serverSequence + 1 \in Nat
    BY <1>1, ClientIs
  <2> QED BY <1>1, <1>3, <2>1 DEF Client
<1>6. Whole(forward') /\ Whole(reverse') /\ (IF up < 4 THEN reverse' = b ELSE forward' = b)
  BY <1>0, <1>3, <1>4, SoundIsWhole
<1> HIDE DEF k
<1>7. TypeOK'
  BY <1>0, <1>2, <1>3, <1>5, <1>6 DEF TypeOK, IInv, Whole
<1>8. CallAllowed'
  BY <1>3 DEF CallAllowed, IInv, Allowed
<1>9. BuffersHold'
  BY <1>0, <1>3, <1>4, <1>6, SoundIsWhole DEF BuffersHold, Whole
<1>10. OneReply'
  BY <1>3 DEF OneReply, IInv
<1> QED BY <1>7, <1>8, <1>9, <1>10 DEF IInv

LEMMA ConnectStep ==
    ASSUME IInv, Connect
    PROVE  IInv'
<1>1. Begin([kind |-> Startup[up + 1]]) /\ up < 4 /\ calls' = calls
  BY DEF Connect
<1>2. [kind |-> Startup[up + 1]] \in Allowed
  BY <1>1 DEF Allowed
<1>3. calls' \in 0 .. MaxCalls
  BY <1>1, IInvIs
<1> QED BY <1>1, <1>2, <1>3, BeginStep

LEMMA UseStep ==
    ASSUME IInv, Use
    PROVE  IInv'
<1>1. up = 4 /\ calls < (IF f = NoFile THEN MaxCalls - 1 ELSE MaxCalls) /\ calls' = calls + 1
  BY DEF Use
<1>2. PICK x \in IF f = NoFile THEN NameCalls \union OpenCalls ELSE FileCalls : Begin(x)
  BY DEF Use
<1>3. x \in Allowed
  BY <1>1 DEF Allowed
<1>4. calls' \in 0 .. MaxCalls
  BY <1>1, IInvIs, SizeAssumption
<1> QED BY <1>2, <1>3, <1>4, BeginStep

LEMMA CloseStep ==
    ASSUME IInv, Close
    PROVE  IInv'
<1>1. /\ pc = "idle" /\ f' = NoFile
      /\ UNCHANGED <<pc, call, calls, c, result, up, forward, reverse, frame, got, wire, socket,
                     srv, sent, meant>>
  BY DEF Close, network, server
<1>2. TypeOK'
  BY <1>1 DEF IInv, TypeOK
<1>3. CallAllowed' /\ BuffersHold' /\ OneReply'
  BY <1>1 DEF IInv, CallAllowed, BuffersHold, OneReply
<1> QED BY <1>2, <1>3 DEF IInv

\* rpc_send(): the reply is as long as its first word says.
LEMMA SendStep ==
    ASSUME IInv, Send
    PROVE  IInv'
<1> DEFINE b == IF up < 4 THEN reverse ELSE forward
           ops == Meant(call)
           named == Numbers(ops)
           Done(s) == IF InSession(call) THEN [s EXCEPT !.slot = srv.slot + 1] ELSE s
           Opened(n) == call.kind = "open" /\ n = Len(ops)
<1>0. /\ Whole(forward) /\ Whole(reverse) /\ c \in Client /\ srv \in Server
      /\ f \in File \union {NoFile} /\ up \in 0 .. 4
      /\ wire \in Seq(Nat) /\ socket \in Seq(Nat) /\ frame \in Nat /\ got \in Nat
  BY IInvIs
<1>1. /\ pc = "send" /\ pc' = "frame" /\ sent' = Framed(b, Len(Request(c, call)))
      /\ UNCHANGED <<call, calls, c, f, result, up, forward, reverse, frame, got, socket>>
  BY DEF Send, client
<1>2. call \in NoFileCalls \union FileCalls /\ (call \in FileCalls => f \in File)
  BY <1>0, <1>1, IInvIs, AllowedIs
<1>3. sent' \in Seq(Nat)
  <2>1. Request(c, call) \in Seq(Operation)
    BY <1>0, <1>2, RequestType
  <2>2. b.start = 0 /\ b.end >= OpCountLoc
    BY <1>1 DEF IInv, BuffersHold
  <2>3. Sound(b)
    BY <1>0, <2>2 DEF Whole, Sound
  <2> HIDE DEF b
  <2>4. Len(Request(c, call)) \in Nat
    BY <2>1
  <2> QED BY <1>1, <2>2, <2>3, <2>4, FramedType
<1>4. named \in Seq(Nat) /\ Len(named) = Len(ops)
  BY <1>2, NumbersType
<1>5. srv' \in Server /\ \E o \in Seq(Nat), status \in Nat, d \in Seq(Nat) :
                              wire' = Reply(c.xid, o, status, srv', d)
  <2>1. PICK d \in IF call.kind = "open" THEN Delegations ELSE {<<>>} :
           \/ \E s \in Knowing(call) : srv' = Done(s) /\ wire' = Reply(c.xid, named, 0, srv', d)
           \/ \E n \in 1 .. Len(ops) : \E s \in IF Opened(n) THEN Knowing(call) ELSE {srv} :
                srv' = Done(s) /\ wire' = Reply(c.xid, SubSeq(named, 1, n), 2, srv', d)
    BY DEF Send, Numbers
  <2>2. d \in Seq(Nat)
    <3>1. <<>> \in Seq(Nat)
      OBVIOUS
    <3> QED BY <2>1, <3>1, DelegationsType
  <2>3. ASSUME NEW s \in Server PROVE Done(s) \in Server
    <3>1. srv.slot + 1 \in Nat
      BY <1>0, ServerIs
    <3> QED BY <3>1 DEF Server
  <2>4. Knowing(call) \subseteq Server
    BY <1>0, <1>2, KnowingType
  <2> HIDE DEF named, ops, Done, Opened
  <2>5. CASE \E s \in Knowing(call) : srv' = Done(s) /\ wire' = Reply(c.xid, named, 0, srv', d)
    BY <1>4, <2>2, <2>3, <2>4, <2>5
  <2>6. CASE \E n \in 1 .. Len(ops) : \E s \in IF Opened(n) THEN Knowing(call) ELSE {srv} :
                srv' = Done(s) /\ wire' = Reply(c.xid, SubSeq(named, 1, n), 2, srv', d)
    <3>1. PICK n \in 1 .. Len(ops) : \E s \in IF Opened(n) THEN Knowing(call) ELSE {srv} :
                srv' = Done(s) /\ wire' = Reply(c.xid, SubSeq(named, 1, n), 2, srv', d)
      BY <2>6
    <3>2. srv' \in Server
      BY <1>0, <2>3, <2>4, <3>1
    <3> DEFINE o == SubSeq(named, 1, n)
    <3>3. o \in Seq(Nat)
      <4>1. n \in Nat /\ n <= Len(named)
        BY <1>4
      <4> QED BY <1>4, <4>1, FrontIs
    <3>4. wire' = Reply(c.xid, o, 2, srv', d) /\ 2 \in Nat
      BY <3>1
    <3> HIDE DEF o
    <3> QED BY <2>2, <3>2, <3>3, <3>4
  <2> QED BY <2>1, <2>5, <2>6
<1>6. wire' \in Seq(Nat) /\ Len(wire') > 9 /\ wire'[1] = 4 * (Len(wire') - 1)
  <2>1. PICK o \in Seq(Nat), status \in Nat, d \in Seq(Nat) :
              wire' = Reply(c.xid, o, status, srv', d)
    BY <1>5
  <2> DEFINE xid == c.xid
             t == srv'
             r == Reply(xid, o, status, t, d)
  <2>2. xid \in Nat /\ t \in Server /\ wire' = r
    BY <1>0, <1>5, <2>1, ClientIs
  <2> HIDE DEF xid, t
  <2>3. r \in Seq(Nat) /\ Len(r) > 9 /\ r[1] = 4 * (Len(r) - 1)
    BY <2>2, ReplyIs
  <2> HIDE DEF r
  <2> QED BY <2>2, <2>3
<1> HIDE DEF b, ops, named, Done, Opened
<1>7. TypeOK'
  BY <1>0, <1>1, <1>3, <1>5, <1>6 DEF TypeOK, IInv
<1>8. CallAllowed' /\ BuffersHold'
  BY <1>1 DEF CallAllowed, BuffersHold, IInv
<1>9. OneReply'
  <2>1. socket = <<>> /\ socket' = <<>>
    BY <1>1 DEF OneReply, IInv
  <2>2. <<>> \o wire' = wire' /\ Len(<<>>) = 0
    BY <1>6, ConcatEmpty
  <2>3. Len(wire') \in Nat
    BY <1>6
  <2> QED BY <1>1, <1>6, <2>1, <2>2, <2>3 DEF OneReply
<1> QED BY <1>7, <1>8, <1>9 DEF IInv

LEMMA Sums ==
    ASSUME NEW a \in Nat, NEW b \in Nat, NEW x \in Nat, NEW y \in Nat, NEW g \in Nat,
           a + b = x + y
    PROVE  g + a + b = g + x + y
OBVIOUS

LEMMA ArriveStep ==
    ASSUME IInv, Arrive
    PROVE  IInv'
<1>1. PICK n \in Burst :
        /\ wire # <<>>
        /\ socket' = socket \o SubSeq(wire, 1, Min2(n, Len(wire)))
        /\ wire' = SubSeq(wire, Min2(n, Len(wire)) + 1, Len(wire))
        /\ UNCHANGED <<pc, call, calls, c, f, result, up, forward, reverse, frame, got, srv,
                       sent, meant>>
  BY DEF Arrive, client, server
<1> DEFINE m == Min2(n, Len(wire))
           x == SubSeq(wire, 1, m)
           y == SubSeq(wire, m + 1, Len(wire))
<1>2. wire \in Seq(Nat) /\ socket \in Seq(Nat) /\ n \in Nat
  BY <1>1, IInvIs, SizeAssumption
<1>3. m \in Nat /\ m <= Len(wire)
  BY <1>2 DEF Min2
<1>4. x \in Seq(Nat) /\ Len(x) = m /\ y \in Seq(Nat) /\ Len(y) = Len(wire) - m /\ x \o y = wire
  BY <1>2, <1>3, Halves
<1>5. socket' = socket \o x /\ wire' = y
  BY <1>1
<1> HIDE DEF x, y, m
<1>6. /\ socket' \in Seq(Nat) /\ wire' \in Seq(Nat)
      /\ Len(socket') + Len(wire') = Len(socket) + Len(wire)
      /\ socket' \o wire' = socket \o wire
  <2>1. socket \o x \in Seq(Nat) /\ Len(socket \o x) = Len(socket) + Len(x)
    BY <1>2, <1>4, ConcatIs
  <2>2. (socket \o x) \o y = socket \o (x \o y)
    <3>1. socket \in Seq(Nat) /\ x \in Seq(Nat) /\ y \in Seq(Nat)
      BY <1>2, <1>4
    <3> QED BY <3>1, WordsAssoc, Zenon
  <2> QED BY <1>2, <1>3, <1>4, <1>5, <2>1, <2>2
<1>7. TypeOK'
  BY <1>1, <1>6 DEF TypeOK, IInv
<1>8. CallAllowed' /\ BuffersHold'
  BY <1>1 DEF CallAllowed, BuffersHold, IInv
<1>9. OneReply'
  <2>1. pc \in {"frame", "body"}
    BY <1>1 DEF OneReply, IInv, TypeOK
  <2>2. /\ Len(socket) \in Nat /\ Len(wire) \in Nat /\ Len(socket') \in Nat
        /\ Len(wire') \in Nat /\ got \in Nat
    BY <1>2, <1>6, IInvIs
  <2>3. Len(socket') + Len(wire') = Len(socket) + Len(wire)
    BY <1>6
  <2>4. got + Len(socket') + Len(wire') = got + Len(socket) + Len(wire)
    BY <2>2, <2>3, Sums
  <2>5. CASE pc = "frame"
    <3>1. /\ Len(socket) + Len(wire) > 1
          /\ (socket \o wire)[1] = 4 * (Len(socket) + Len(wire) - 1)
      BY <2>5 DEF OneReply, IInv
    <3>2. (socket' \o wire')[1] = 4 * (Len(socket') + Len(wire') - 1)
      <4> DEFINE u == socket \o wire
                 v == socket' \o wire'
                 h == Len(socket) + Len(wire)
                 l == Len(socket') + Len(wire')
      <4>1. v = u /\ l = h /\ u[1] = 4 * (h - 1)
        BY <1>6, <2>3, <3>1
      <4> HIDE DEF u, v, h, l
      <4>2. v[1] = 4 * (l - 1)
        BY <4>1
      <4> QED BY <4>2 DEF v, l
    <3> QED BY <1>1, <2>3, <2>5, <3>1, <3>2 DEF OneReply
  <2>6. CASE pc = "body"
    BY <1>1, <2>4, <2>6 DEF OneReply, IInv
  <2> QED BY <2>1, <2>5, <2>6
<1> QED BY <1>7, <1>8, <1>9 DEF IInv

\* read_fully() makes room for as many words as the first one announces.
LEMMA ReadFrameStep ==
    ASSUME IInv, ReadFrame
    PROVE  IInv'
<1> DEFINE e == Extend(Reset(reverse), frame')
           all == socket \o wire
<1>1. /\ pc = "frame" /\ socket # <<>> /\ frame' = FrameWords(Head(socket)) /\ got' = 0
      /\ socket' = Tail(socket) /\ reverse' = e /\ pc' = "body"
      /\ UNCHANGED <<call, calls, c, f, result, up, forward, wire, srv, sent, meant>>
  BY DEF ReadFrame, client, server
<1>2. wire \in Seq(Nat) /\ socket \in Seq(Nat) /\ Whole(reverse) /\ Whole(forward)
  BY IInvIs
<1>3. Len(socket) \in Nat /\ Len(wire) \in Nat /\ Len(socket) > 0 /\ Head(socket) = socket[1]
      /\ socket' \in Seq(Nat) /\ Len(socket') = Len(socket) - 1
  BY <1>1, <1>2
<1>4. Len(socket) + Len(wire) > 1 /\ socket[1] = 4 * (Len(socket) + Len(wire) - 1)
  <2>1. all[1] = 4 * (Len(socket) + Len(wire) - 1) /\ Len(socket) + Len(wire) > 1
    BY <1>1 DEF IInv, OneReply
  <2>2. all[1] = socket[1]
    BY <1>2, <1>3, ConcatIs
  <2> QED BY <2>1, <2>2
<1>5. frame' = Len(socket) + Len(wire) - 1 /\ frame' \in Nat
  BY <1>1, <1>3, <1>4 DEF FrameWords
<1>6. Sound(e) /\ frame' <= e.capacity /\ e.start = 0
  <2>1. Sound(Reset(reverse)) /\ Reset(reverse).end = 0
    BY <1>2, ResetIs DEF Whole
  <2> DEFINE n == frame'
             z == Reset(reverse)
  <2>2. n \in Nat
    BY <1>5
  <2> HIDE DEF n, z
  <2>3. Sound(Extend(z, n)) /\ z.end + n <= Extend(z, n).capacity
    BY <2>1, <2>2, ExtendIs DEF z
  <2> QED BY <2>1, <2>2, <2>3 DEF n, z, Sound
<1> HIDE DEF e, all
<1>7. Whole(reverse')
  BY <1>1, <1>6, SoundIsWhole
<1>8. TypeOK'
  BY <1>1, <1>2, <1>3, <1>5, <1>7 DEF TypeOK, IInv, Whole
<1>9. CallAllowed' /\ BuffersHold'
  BY <1>1, <1>2, <1>7 DEF CallAllowed, BuffersHold, IInv, Whole
<1>10. OneReply'
  BY <1>1, <1>3, <1>4, <1>5, <1>6 DEF OneReply
<1> QED BY <1>8, <1>9, <1>10 DEF IInv

\* read_fully() asks for a whole frame each time, and the reply has no more than that.
LEMMA ReadBodyStep ==
    ASSUME IInv, ReadBody
    PROVE  IInv'
<1> DEFINE n == Min2(Len(socket), frame)
           x == SubSeq(socket, 1, n)
           y == SubSeq(socket, n + 1, Len(socket))
           s == Store(reverse, Place, x)
           e == [s EXCEPT !.end = IF got' = frame THEN frame ELSE 0]
<1>1. /\ pc = "body" /\ n > 0 /\ got' = got + n /\ reverse' = e /\ socket' = y
      /\ pc' = IF got' >= frame THEN "parse" ELSE "body"
      /\ UNCHANGED <<call, calls, c, f, result, up, forward, frame, wire, srv, sent, meant>>
  BY DEF ReadBody, client, server
<1>2. /\ wire \in Seq(Nat) /\ socket \in Seq(Nat) /\ Whole(reverse) /\ Whole(forward)
      /\ frame \in Nat /\ got \in Nat
  BY IInvIs
<1>3. /\ got + Len(socket) + Len(wire) = frame /\ got < frame
      /\ frame <= reverse.capacity /\ reverse.start = 0
  BY <1>1 DEF IInv, OneReply
<1>4. Len(socket) \in Nat /\ Len(wire) \in Nat
  BY <1>2
<1>5. n = Len(socket) /\ n \in Nat /\ n <= Len(socket) /\ got + n <= frame
  BY <1>2, <1>3, <1>4 DEF Min2
<1>6. x \in Seq(Nat) /\ Len(x) = n /\ y \in Seq(Nat) /\ Len(y) = 0
  <2>1. x \in Seq(Nat) /\ Len(x) = n /\ y \in Seq(Nat) /\ Len(y) = Len(socket) - n
    BY <1>2, <1>5, Halves
  <2> QED BY <1>4, <1>5, <2>1
<1> HIDE DEF n, x, y
<1>7. /\ s \in Buffer /\ s.start = 0 /\ s.capacity = reverse.capacity /\ ~s.over
      /\ Len(s.contents) = s.capacity
  <2> DEFINE p == Place
  <2>1. p = got /\ p \in Nat
    BY <1>2, <1>3 DEF Place
  <2>2. reverse \in Buffer /\ Len(reverse.contents) = reverse.capacity /\ ~reverse.over
        /\ reverse.capacity \in Nat
    BY <1>2 DEF Whole, Buffer
  <2>3. p + Len(x) <= reverse.capacity
    BY <1>2, <1>3, <1>5, <1>6, <2>1, <2>2
  <2> HIDE DEF p
  <2>4. PICK t \in Seq(Nat) : Store(reverse, p, x) = [reverse EXCEPT !.contents = t]
                             /\ Len(t) = reverse.capacity
    BY <1>6, <2>1, <2>2, <2>3, StoreIs
  <2>5. s = [reverse EXCEPT !.contents = t]
    BY <2>4 DEF p
  <2> HIDE DEF s
  <2> QED BY <1>3, <2>2, <2>4, <2>5 DEF Buffer
<1> HIDE DEF s
<1>8. got' \in Nat /\ got' <= frame /\ (got' >= frame => got' = frame)
  <2>1. got' = got + n /\ n \in Nat /\ got + n <= frame /\ got \in Nat /\ frame \in Nat
    BY <1>1, <1>2, <1>5
  <2> QED BY <2>1
<1>9. Whole(e) /\ e.start = 0 /\ e.capacity = reverse.capacity
  <2> DEFINE m == IF got' = frame THEN frame ELSE 0
  <2>1. m \in Nat /\ m <= reverse.capacity
    BY <1>2, <1>3 DEF Whole, Buffer
  <2> HIDE DEF m
  <2>2. e = [s EXCEPT !.end = m]
    BY DEF m
  <2> HIDE DEF e
  <2>3. s.capacity >= 24
    BY <1>2, <1>7 DEF Whole
  <2> QED BY <1>7, <2>1, <2>2, <2>3, EndedIsWhole
<1> HIDE DEF e
<1>10. TypeOK'
  <2>1. pc' \in {"parse", "body"}
    BY <1>1
  <2>2. {forward', reverse'} \subseteq Buffer
        /\ \A b \in {forward', reverse'} : b.start <= b.end /\ Len(b.contents) = b.capacity
    BY <1>1, <1>2, <1>9 DEF Whole
  <2> QED BY <1>1, <1>6, <1>8, <2>1, <2>2 DEF TypeOK, IInv
<1>11. CallAllowed'
  BY <1>1 DEF CallAllowed, IInv
<1>12. BuffersHold'
  BY <1>1, <1>2, <1>9 DEF BuffersHold, Whole
<1>13. OneReply'
  <2>1. CASE got' >= frame
    <3>1. got' = frame' /\ pc' = "parse"
      BY <1>1, <1>8, <2>1
    <3>2. Len(wire) = 0
      BY <1>1, <1>2, <1>3, <1>4, <1>5, <1>8, <2>1
    <3>3. wire' = <<>> /\ socket' = <<>>
      BY <1>1, <1>2, <1>6, <3>2
    <3> QED BY <3>1, <3>3 DEF OneReply
  <2>2. CASE ~(got' >= frame)
    <3>1. got' < frame /\ got' + 0 + Len(wire) = frame
      BY <1>1, <1>2, <1>3, <1>4, <1>5, <1>8, <2>2
    <3> QED BY <1>1, <1>3, <1>6, <1>9, <2>2, <3>1 DEF OneReply
  <2> QED BY <2>1, <2>2
<1> QED BY <1>10, <1>11, <1>12, <1>13 DEF IInv

\* base_transact(): the reply has been taken apart, and the buffer is empty again.
LEMMA ReturnStep ==
    ASSUME IInv, Return
    PROVE  IInv'
<1> DEFINE e == [reverse EXCEPT !.start = reverse.end]
<1>1. PICK o \in (IF got = frame THEN Outcomes(call, Contents(reverse)) ELSE {Failed}) :
         /\ c' = o.c /\ f' = o.f /\ result' = [ok |-> o.ok, value |-> o.value]
         /\ up' = IF up < 4 /\ o.ok THEN up + 1 ELSE up
         /\ pc' = IF up < 4 /\ ~o.ok THEN "closed" ELSE "idle"
  BY DEF Return
<1>2. /\ pc = "parse" /\ reverse' = e
      /\ UNCHANGED <<call, calls, forward, frame, got, wire, socket, srv, sent, meant>>
  BY DEF Return, network, server
<1>3. /\ Whole(reverse) /\ Whole(forward) /\ c \in Client /\ f \in File \union {NoFile}
      /\ up \in 0 .. 4 /\ call \in Allowed
  BY <1>2, IInvIs
<1>4. /\ call \in NoFileCalls \union FileCalls /\ (call \in FileCalls => f \in File)
      /\ (up < 4 => call.kind # "open" /\ call \notin FileCalls)
  BY <1>3, AllowedIs
<1>5. Contents(reverse) \in Seq(Nat)
  <2>1. reverse.start \in Nat /\ reverse.end \in Nat /\ reverse.start <= reverse.end
        /\ reverse.end <= Len(reverse.contents) /\ reverse.contents \in Seq(Nat)
    BY <1>3 DEF Whole, Buffer
  <2> QED BY <2>1, PartIs DEF Contents
<1>6. /\ o.c \in Client /\ o.f \in File \union {NoFile} /\ o.ok \in BOOLEAN
      /\ call.kind # "open" /\ call \notin FileCalls => o.f = f
  <2>1. CASE o \in Outcomes(call, Contents(reverse))
    BY <1>3, <1>4, <1>5, <2>1, OutcomesType
  <2>2. CASE o = Failed
    BY <1>3, <2>2 DEF Failed, Outcome
  <2> QED BY <1>1, <2>1, <2>2
<1>7. Whole(e)
  BY <1>3, EmptiedIsWhole
<1>8. up' \in 0 .. 4 /\ pc' \in {"idle", "closed"} /\ (up' < 4 => up < 4)
  BY <1>1, <1>3
<1> HIDE DEF e
<1>9. TypeOK'
  <2>1. {forward', reverse'} \subseteq Buffer
        /\ \A b \in {forward', reverse'} : b.start <= b.end /\ Len(b.contents) = b.capacity
    BY <1>2, <1>3, <1>7 DEF Whole
  <2>2. DOMAIN result' = {"ok", "value"} /\ result'.ok \in BOOLEAN
    BY <1>1, <1>6
  <2> QED BY <1>1, <1>2, <1>6, <1>8, <2>1, <2>2 DEF TypeOK, IInv
<1>10. CallAllowed'
  <2>1. up < 4 => f = NoFile
    BY DEF IInv, CallAllowed
  <2> QED BY <1>1, <1>4, <1>6, <1>8, <2>1 DEF CallAllowed
<1>11. BuffersHold'
  BY <1>2, <1>3, <1>7, <1>8 DEF BuffersHold, Whole
<1>12. OneReply'
  BY <1>2, <1>8 DEF OneReply, IInv
<1> QED BY <1>9, <1>10, <1>11, <1>12 DEF IInv

\* The types, the call in progress, the buffers and the reply belong together in
\* every state: a call is one that rpc_connection() or the VFS makes then, both
\* buffers are within their memory, and read_fully() works on exactly one reply.
THEOREM TypeCorrect == Spec => []IInv
<1>1. ASSUME IInv, [Next]_vars PROVE IInv'
  <2>1. CASE UNCHANGED vars
    BY <1>1, <2>1 DEF vars, client, network, server, IInv, TypeOK, CallAllowed, BuffersHold,
                      OneReply
  <2> QED BY <1>1, <2>1, ConnectStep, UseStep, CloseStep, SendStep, ArriveStep, ReadFrameStep,
             ReadBodyStep, ReturnStep DEF Next
<1> QED BY InitHolds, <1>1, PTL DEF Spec

\* Nothing is written past the end of a buffer: buffer_extend() makes room for all that
\* is pushed and for the reply, allocate_rpc() needs none for the number of operations,
\* and read_fully() writes no more than the reply has.
THEOREM NoOverrunHolds == Spec => []NoOverrun
<1>1. IInv => NoOverrun
  BY DEF IInv, BuffersHold, NoOverrun
<1> QED BY <1>1, TypeCorrect, PTL

\* When a call returns, read_fully() has taken the whole reply and no more.
THEOREM ReplyTakenHolds == Spec => []ReplyTaken
<1>1. IInv => ReplyTaken
  BY DEF IInv, OneReply, ReplyTaken
<1> QED BY <1>1, TypeCorrect, PTL
=============================================================================
