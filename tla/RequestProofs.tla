----------------------------- MODULE RequestProofs -----------------------------
(***************************************************************************)
(* What the server reads in a request is what the call means: every field  *)
(* that was pushed lies where the grammar looks for it, and says what the  *)
(* server has handed out.                                                  *)
(***************************************************************************)
EXTENDS ReplyProofs

-----------------------------------------------------------------------------
\* FlattenSeq, sequence by sequence.
LEMMA JoinsOnce ==
    ASSUME NEW S, NEW s \in Seq(Seq(S)), NEW g, NEW h, Joins(g, s), Joins(h, s)
    PROVE  \A i \in 0 .. Len(s) : g[i] = h[i]
<1> DEFINE n == Len(s)
           T == {i \in 0 .. n : g[i] = h[i]}
<1>1. n \in Nat
  OBVIOUS
<1>2. 0 \in T
  BY <1>1 DEF Joins
<1>3. ASSUME NEW i \in 1 .. n, i - 1 \in T PROVE i \in T
  <2>1. g[i] = g[i - 1] \o s[i] /\ h[i] = h[i - 1] \o s[i]
    BY DEF Joins
  <2>2. g[i - 1] = h[i - 1] /\ i \in 0 .. n
    BY <1>1, <1>3
  <2>3. g[i] = h[i]
    BY <2>1, <2>2, Zenon
  <2> QED BY <2>2, <2>3
<1> HIDE DEF n, T
<1>4. \A i \in 0 .. n : i \in T
  BY <1>1, <1>2, <1>3, Induction
<1> QED BY <1>4 DEF T, n

LEMMA FlattenJoins ==
    ASSUME NEW S, NEW s \in Seq(Seq(S)), NEW h, Joins(h, s)
    PROVE  FlattenSeq(s) = h[Len(s)]
<1>1. PICK g \in [0 .. Len(s) -> Seq(S)] : Joins(g, s) /\ FlattenSeq(s) = g[Len(s)]
  BY FlattenIs
<1>2. \A i \in 0 .. Len(s) : g[i] = h[i]
  BY <1>1, JoinsOnce
<1>3. Len(s) \in 0 .. Len(s)
  OBVIOUS
<1> QED BY <1>1, <1>2, <1>3

LEMMA FlattenFew ==
    /\ FlattenSeq(<<>>) = <<>>
    /\ \A u \in Seq(Nat) : FlattenSeq(<<u>>) = u
<1>1. FlattenSeq(<<>>) = <<>>
  BY DEF FlattenSeq
<1>2. ASSUME NEW u \in Seq(Nat) PROVE FlattenSeq(<<u>>) = u
  <2> DEFINE s == <<u>>
             h == [i \in 0 .. 1 |-> IF i = 0 THEN <<>> ELSE u]
  <2>1. s \in Seq(Seq(Nat)) /\ Len(s) = 1 /\ s[1] = u
    OBVIOUS
  <2>2. h[0] = <<>> /\ h[1] = u
    OBVIOUS
  <2> HIDE DEF s, h
  <2>3. h[1] = h[0] \o s[1]
    BY <2>1, <2>2, ConcatEmpty
  <2>4. \A i \in 1 .. Len(s) : i = 1 /\ i - 1 = 0
    BY <2>1
  <2>5. Joins(h, s)
    BY <2>2, <2>3, <2>4 DEF Joins
  <2>6. FlattenSeq(s) = h[1]
    BY <2>1, <2>5, FlattenJoins
  <2> QED BY <2>2, <2>6 DEF s
<1> QED BY <1>1, <1>2

LEMMA FlattenConcat ==
    ASSUME NEW s \in Seq(Seq(Nat)), NEW t \in Seq(Seq(Nat))
    PROVE  /\ s \o t \in Seq(Seq(Nat))
           /\ FlattenSeq(s \o t) = FlattenSeq(s) \o FlattenSeq(t)
<1> DEFINE st == s \o t
           m == Len(s)
           n == Len(t)
<1>1. m \in Nat /\ n \in Nat
  OBVIOUS
<1>2. /\ st \in Seq(Seq(Nat)) /\ Len(st) = m + n
      /\ \A i \in 1 .. m : st[i] = s[i]
      /\ \A i \in 1 .. n : st[m + i] = t[i]
  BY ConcatIs
<1>3. PICK g \in [0 .. m -> Seq(Nat)] : Joins(g, s) /\ FlattenSeq(s) = g[m]
  BY FlattenIs
<1>4. PICK h \in [0 .. n -> Seq(Nat)] : Joins(h, t) /\ FlattenSeq(t) = h[n]
  BY FlattenIs
<1> DEFINE j == [i \in 0 .. m + n |-> IF i <= m THEN g[i] ELSE g[m] \o h[i - m]]
<1>5. \A i \in 0 .. n : j[m + i] = g[m] \o h[i]
  <2>1. ASSUME NEW i \in 0 .. n PROVE j[m + i] = g[m] \o h[i]
    <3>1. m + i \in 0 .. m + n /\ (m + i) - m = i /\ (m + i <= m <=> i = 0)
      BY <1>1
    <3>2. CASE i = 0
      <4>0. m \in 0 .. m
        BY <1>1
      <4>1. h[0] = <<>> /\ g[m] \in Seq(Nat)
        <5>1. h[0] = <<>>
          BY <1>4, Zenon DEF Joins
        <5> HIDE DEF j, m
        <5>2. g[m] \in Seq(Nat)
          BY <1>3, <4>0
        <5> QED BY <5>1, <5>2
      <4>2. g[m] \o <<>> = g[m]
        BY <4>1, ConcatEmpty
      <4>3. j[m + i] = g[m]
        BY <1>1, <3>2
      <4> QED BY <3>2, <4>1, <4>2, <4>3
    <3>3. CASE i # 0
      <4>1. ~(m + i <= m)
        BY <3>1, <3>3
      <4> QED BY <3>1, <4>1
    <3> QED BY <3>2, <3>3
  <2> QED BY <2>1
<1>6. \A i \in 0 .. m : j[i] = g[i]
  BY <1>1
<1> HIDE DEF j, m, n, st
<1>7. j[0] = <<>>
  BY <1>1, <1>3, <1>6 DEF Joins
<1>8. ASSUME NEW i \in 1 .. m + n PROVE j[i] = j[i - 1] \o st[i]
  <2>1. CASE i <= m
    <3>1. i \in 1 .. m /\ i \in 0 .. m /\ i - 1 \in 0 .. m
      BY <1>1, <2>1
    <3>2. g[i] = g[i - 1] \o s[i]
      BY <1>3, <3>1 DEF Joins, m
    <3> QED BY <1>2, <1>6, <3>1, <3>2
  <2>2. CASE ~(i <= m)
    <3> DEFINE k == i - m
    <3>1. k \in 1 .. n /\ k \in 0 .. n /\ k - 1 \in 0 .. n /\ i = m + k /\ i - 1 = m + (k - 1)
      BY <1>1, <2>2
    <3> HIDE DEF k
    <3>2. h[k] = h[k - 1] \o t[k]
      BY <1>4, <3>1 DEF Joins, n
    <3>3. g[m] \in Seq(Nat) /\ h[k - 1] \in Seq(Nat) /\ t[k] \in Seq(Nat)
      <4>1. m \in 0 .. m
        BY <1>1
      <4>2. t[k] \in Seq(Nat)
        BY <3>1 DEF n
      <4> QED BY <1>3, <1>4, <3>1, <4>1, <4>2
    <3> DEFINE x == g[m]
               y == h[k - 1]
               z == t[k]
    <3>4. x \in Seq(Nat) /\ y \in Seq(Nat) /\ z \in Seq(Nat)
      BY <3>3
    <3>5. j[i] = x \o h[k] /\ j[i - 1] = x \o y /\ st[i] = z /\ h[k] = y \o z
      <4>1. j[i] = x \o h[k]
        BY <1>5, <3>1
      <4>2. j[i - 1] = x \o y
        BY <1>5, <3>1
      <4>3. st[i] = z
        BY <1>2, <3>1
      <4> QED BY <3>2, <4>1, <4>2, <4>3
    <3> HIDE DEF x, y, z
    <3>6. (x \o y) \o z = x \o (y \o z)
      BY <3>4, ConcatAssoc, SMTT(40)
    <3> QED BY <3>5, <3>6
  <2> QED BY <2>1, <2>2
<1>9. Joins(j, st)
  BY <1>2, <1>7, <1>8 DEF Joins
<1>10. FlattenSeq(st) = j[m + n]
  BY <1>2, <1>9, FlattenJoins
<1>11. n \in 0 .. n
  BY <1>1
<1> QED BY <1>2, <1>3, <1>4, <1>5, <1>10, <1>11 DEF st, m, n

\* What is put one after the other twice is put one after the other.
LEMMA FlattenTwice ==
    ASSUME NEW n \in Nat, NEW s \in [1 .. n -> Seq(Seq(Nat))]
    PROVE  /\ [i \in 1 .. n |-> FlattenSeq(s[i])] \in Seq(Seq(Nat))
           /\ FlattenSeq(FlattenSeq(s)) = FlattenSeq([i \in 1 .. n |-> FlattenSeq(s[i])])
<1> DEFINE t == [i \in 1 .. n |-> FlattenSeq(s[i])]
<1>1. s \in Seq(Seq(Seq(Nat))) /\ Len(s) = n
  OBVIOUS
<1>2. t \in Seq(Seq(Nat)) /\ Len(t) = n /\ \A i \in 1 .. n : t[i] = FlattenSeq(s[i])
  <2>1. \A i \in 1 .. n : s[i] \in Seq(Seq(Nat))
    OBVIOUS
  <2>2. \A i \in 1 .. n : FlattenSeq(s[i]) \in Seq(Nat)
    BY <2>1, FlattenType
  <2>3. t \in [1 .. n -> Seq(Nat)]
    BY <2>2
  <2> QED BY <2>3
<1>3. PICK g \in [0 .. n -> Seq(Seq(Nat))] : Joins(g, s) /\ FlattenSeq(s) = g[n]
  BY <1>1, FlattenIs
<1> DEFINE h == [i \in 0 .. n |-> FlattenSeq(g[i])]
<1>4. \A i \in 0 .. n : h[i] = FlattenSeq(g[i])
  OBVIOUS
<1> HIDE DEF t, h
<1>5. h[0] = <<>>
  <2>1. g[0] = <<>> /\ 0 \in 0 .. n
    BY <1>3 DEF Joins
  <2> QED BY <1>4, <2>1, FlattenFew
<1>6. ASSUME NEW i \in 1 .. n PROVE h[i] = h[i - 1] \o t[i]
  <2>1. i \in 0 .. n /\ i - 1 \in 0 .. n
    OBVIOUS
  <2>2. g[i] = g[i - 1] \o s[i]
    BY <1>1, <1>3 DEF Joins
  <2> DEFINE x == g[i - 1]
             y == s[i]
  <2>3. x \in Seq(Seq(Nat)) /\ y \in Seq(Seq(Nat)) /\ g[i] = x \o y
    BY <2>1, <2>2
  <2>4. h[i] = FlattenSeq(g[i]) /\ h[i - 1] = FlattenSeq(x) /\ t[i] = FlattenSeq(y)
    BY <1>2, <1>4, <2>1
  <2> HIDE DEF x, y
  <2>5. FlattenSeq(x \o y) = FlattenSeq(x) \o FlattenSeq(y)
    BY <2>3, FlattenConcat
  <2> QED BY <2>3, <2>4, <2>5
<1>7. Joins(h, t)
  BY <1>2, <1>5, <1>6 DEF Joins
<1>8. FlattenSeq(t) = h[n]
  BY <1>2, <1>7, FlattenJoins
<1>9. h[n] = FlattenSeq(FlattenSeq(s))
  <2>1. n \in 0 .. n
    OBVIOUS
  <2> QED BY <1>3, <1>4, <2>1
<1> QED BY <1>2, <1>8, <1>9 DEF t

-----------------------------------------------------------------------------
\* The words u lie in w from the place at on, all of them.
Lies(w, at, u) == At(w, at, u) /\ at > 0 /\ at + Len(u) <= Len(w) + 1

LEMMA LiesIs ==
    ASSUME NEW w \in Seq(Nat), NEW at \in Nat, NEW u \in Seq(Nat), Lies(w, at, u)
    PROVE  \A j \in 1 .. Len(u) : at + j - 1 \in 1 .. Len(w) /\ WordAt(w, at + j - 1) = u[j]
<1> DEFINE n == Len(u)
           m == Len(w)
<1>1. n \in Nat /\ m \in Nat /\ at > 0 /\ at + n <= m + 1
  BY DEF Lies
<1>2. \A j \in 1 .. n : Get(w, at + j - 1) = u[j]
  BY DEF Lies, At
<1>3. DOMAIN w = 1 .. m
  OBVIOUS
<1> HIDE DEF n, m
<1>4. ASSUME NEW j \in 1 .. n
      PROVE  at + j - 1 \in 1 .. m /\ WordAt(w, at + j - 1) = u[j]
  <2>1. at + j - 1 \in 1 .. m
    BY <1>1
  <2>2. at + j - 1 \in DOMAIN w
    BY <1>3, <2>1
  <2> QED BY <1>2, <2>1, <2>2 DEF Get, WordAt
<1> QED BY <1>4 DEF n, m

LEMMA LiesConcat ==
    ASSUME NEW w \in Seq(Nat), NEW at \in Nat, NEW u \in Seq(Nat), NEW v \in Seq(Nat),
           Lies(w, at, u \o v)
    PROVE  Lies(w, at, u) /\ Lies(w, at + Len(u), v)
<1> DEFINE m == Len(u)
           n == Len(v)
           k == Len(w)
<1>1. m \in Nat /\ n \in Nat /\ k \in Nat /\ Len(u \o v) = m + n
  BY ConcatIs
<1>2. At(w, at, u \o v) /\ at > 0 /\ at + (m + n) <= k + 1
  BY <1>1 DEF Lies
<1>3. At(w, at, u) /\ At(w, at + m, v)
  BY <1>2, AtConcat
<1> HIDE DEF m, n, k
<1>4. at + m <= k + 1 /\ at + m > 0 /\ (at + m) + n <= k + 1
  BY <1>1, <1>2
<1> QED BY <1>2, <1>3, <1>4 DEF Lies, m, n, k

\* Sequences put one behind the other lie one behind the other.
LEMMA JoinLies ==
    ASSUME NEW w \in Seq(Nat), NEW at \in Nat, NEW s \in Seq(Seq(Nat)),
           NEW g \in [0 .. Len(s) -> Seq(Nat)], Joins(g, s), Lies(w, at, g[Len(s)])
    PROVE  \A k \in 1 .. Len(s) : Lies(w, at + Len(g[k - 1]), s[k])
<1> DEFINE n == Len(s)
           T == {k \in 0 .. n : Lies(w, at, g[n - k])}
<1>1. n \in Nat /\ \A k \in 1 .. n : s[k] \in Seq(Nat)
  OBVIOUS
<1> HIDE DEF n
<1>2. ASSUME NEW k \in 1 .. n
      PROVE  /\ g[k - 1] \in Seq(Nat) /\ s[k] \in Seq(Nat) /\ g[k] = g[k - 1] \o s[k]
  <2>1. k - 1 \in 0 .. n /\ 0 .. n = 0 .. Len(s)
    BY <1>1 DEF n
  <2>2. g[k - 1] \in Seq(Nat)
    BY <2>1
  <2>3. g[k] = g[k - 1] \o s[k]
    BY DEF Joins, n
  <2> QED BY <1>1, <2>2, <2>3
<1>3. ASSUME NEW k \in 1 .. n, Lies(w, at, g[k])
      PROVE  Lies(w, at, g[k - 1]) /\ Lies(w, at + Len(g[k - 1]), s[k])
  <2> DEFINE u == g[k - 1]
             v == s[k]
  <2>1. u \in Seq(Nat) /\ v \in Seq(Nat) /\ Lies(w, at, u \o v)
    BY <1>2, <1>3
  <2> HIDE DEF u, v
  <2>2. Lies(w, at, u) /\ Lies(w, at + Len(u), v)
    BY <2>1, LiesConcat
  <2> QED BY <2>2 DEF u, v
<1>4. 0 \in T
  BY <1>1 DEF n
<1>5. ASSUME NEW k \in 1 .. n, k - 1 \in T PROVE k \in T
  <2>1. n - (k - 1) \in 1 .. n /\ (n - (k - 1)) - 1 = n - k /\ k \in 0 .. n
    BY <1>1
  <2>2. Lies(w, at, g[n - (k - 1)])
    BY <1>5
  <2>3. Lies(w, at, g[n - k])
    BY <1>3, <2>1, <2>2
  <2> QED BY <2>1, <2>3
<1>6. \A k \in 0 .. n : k \in T
  <2> HIDE DEF T
  <2> QED BY <1>1, <1>4, <1>5, Induction
<1>7. ASSUME NEW k \in 1 .. n
      PROVE  Lies(w, at + Len(g[k - 1]), s[k])
  <2>1. n - k \in 0 .. n /\ n - (n - k) = k
    BY <1>1
  <2>2. Lies(w, at, g[n - (n - k)])
    BY <1>6, <2>1
  <2>3. Lies(w, at, g[k])
    BY <2>1, <2>2
  <2> QED BY <1>3, <2>3
<1> QED BY <1>7 DEF n

LEMMA JoinGrows ==
    ASSUME NEW S, NEW s \in Seq(Seq(S)), NEW g \in [0 .. Len(s) -> Seq(S)], Joins(g, s)
    PROVE  \A k \in 1 .. Len(s) :
             /\ g[k - 1] \in Seq(S) /\ s[k] \in Seq(S) /\ g[k] = g[k - 1] \o s[k]
             /\ Len(g[k]) = Len(g[k - 1]) + Len(s[k])
<1>1. ASSUME NEW k \in 1 .. Len(s)
      PROVE  /\ g[k - 1] \in Seq(S) /\ s[k] \in Seq(S) /\ g[k] = g[k - 1] \o s[k]
             /\ Len(g[k]) = Len(g[k - 1]) + Len(s[k])
  <2> DEFINE u == g[k - 1]
             v == s[k]
  <2>1. k - 1 \in 0 .. Len(s)
    OBVIOUS
  <2>2. u \in Seq(S) /\ v \in Seq(S) /\ g[k] = u \o v
    <3>1. u \in Seq(S)
      BY <2>1
    <3>2. v \in Seq(S)
      OBVIOUS
    <3>3. g[k] = u \o v
      BY Zenon DEF Joins
    <3> QED BY <3>1, <3>2, <3>3
  <2> HIDE DEF u, v
  <2>3. Len(u \o v) = Len(u) + Len(v)
    BY <2>2, ConcatIs
  <2> QED BY <2>2, <2>3 DEF u, v
<1> QED BY <1>1

-----------------------------------------------------------------------------
\* Words that, wherever they lie, are a field of a kind and say a value.
Kind == {"u32", "u64", "other", "session", "string", "how"}

Item(kind, u, v) ==
    \A w \in Seq(Nat) : \A at \in Nat :
        Lies(w, at, u) => Width(kind, w, at) = Len(u) /\ Field(kind, w, at) = v

\* As many words as lie there are taken.
LEMMA SpanIs ==
    ASSUME NEW w \in Seq(Nat), NEW at \in Nat, NEW u \in Seq(Nat), Lies(w, at, u)
    PROVE  Span(w, at, Len(u)) = u
<1> DEFINE n == Len(u)
           m == Len(w)
           s == Span(w, at, n)
<1>1. n \in Nat /\ m \in Nat /\ at > 0 /\ at + n <= m + 1
  BY DEF Lies
<1>2. \A j \in 1 .. n : WordAt(w, at + j - 1) = u[j]
  BY LiesIs
<1>3. Min2(n, m) = n
  <2> HIDE DEF n, m
  <2>1. n <= m
    BY <1>1
  <2> QED BY <1>1, <2>1 DEF Min2
<1>4. s = [j \in 1 .. n |-> WordAt(w, at + j - 1)]
  BY <1>3 DEF Span
<1>5. s = [j \in 1 .. n |-> u[j]]
  <2> HIDE DEF s, n
  <2> QED BY <1>2, <1>4
<1>6. u = [j \in 1 .. n |-> u[j]]
  OBVIOUS
<1> QED BY <1>5, <1>6

LEMMA FixedItem ==
    ASSUME NEW kind \in {"u32", "u64", "other", "session"}, NEW u \in Seq(Nat),
           Len(u) = Fixed[kind]
    PROVE  Item(kind, u, u)
<1>1. ASSUME NEW w \in Seq(Nat), NEW at \in Nat, Lies(w, at, u)
      PROVE  Width(kind, w, at) = Len(u) /\ Field(kind, w, at) = u
  <2>1. kind # "string" /\ kind # "how"
    OBVIOUS
  <2>2. Width(kind, w, at) = Len(u)
    BY <2>1 DEF Width
  <2>3. Span(w, at, Len(u)) = u
    BY <1>1, SpanIs
  <2> QED BY <2>1, <2>2, <2>3 DEF Field
<1> QED BY <1>1 DEF Item

LEMMA HowItem ==
    ASSUME NEW u \in {<< 0 >>, <<1, 0, 2, 0, 2, 4, 420>>}
    PROVE  Item("how", u, u)
<1>1. u \in Seq(Nat) /\ Len(u) = (IF u[1] = 1 THEN 7 ELSE 1) /\ 1 \in 1 .. Len(u)
  <2>1. CASE u = <<0>>
    BY <2>1
  <2>2. CASE u = <<1, 0, 2, 0, 2, 4, 420>>
    BY <2>2
  <2> QED BY <2>1, <2>2
<1>2. ASSUME NEW w \in Seq(Nat), NEW at \in Nat, Lies(w, at, u)
      PROVE  Width("how", w, at) = Len(u) /\ Field("how", w, at) = u
  <2>1. WordAt(w, at) = u[1]
    <3>1. WordAt(w, at + 1 - 1) = u[1] /\ at + 1 - 1 = at
      BY <1>1, <1>2, LiesIs
    <3> QED BY <3>1
  <2>2. Width("how", w, at) = Len(u)
    BY <1>1, <2>1 DEF Width
  <2>3. Span(w, at, Len(u)) = u
    BY <1>1, <1>2, SpanIs
  <2> QED BY <2>2, <2>3 DEF Field
<1> QED BY <1>2 DEF Item

\* A name, a handle or data is read as it was written.
LEMMA StringItem ==
    ASSUME NEW s \in Name, Len(s) < W - 3
    PROVE  Item("string", String(s), s)
<1> DEFINE n == Len(s)
           u == <<n>>
           v == Words(s)
           p == (n + 3) \div 4
<1>1. s \in Seq(Nat) /\ n \in Nat /\ W \in Nat
  BY NameIs, WIs
<1>2. v \in Seq(Nat) /\ Len(v) = p /\ p \in Nat /\ n <= 4 * p
  <2>1. v \in Seq(Nat) /\ Len(v) = Pad(n) \div 4
    BY <1>1, StringType
  <2>2. Pad(n) \div 4 = p
    BY <1>1, PadIs
  <2> HIDE DEF n, v
  <2>3. p \in Nat /\ n <= 4 * p
    BY <1>1
  <2> QED BY <2>1, <2>2, <2>3
<1>3. u \in Seq(Nat) /\ Len(u) = 1 /\ u[1] = n
  BY <1>1
<1>4. String(s) = u \o v /\ Len(u \o v) = 1 + p
  BY <1>2, <1>3, ConcatIs DEF String
<1>5. v = [i \in 1 .. p |-> Word(s, i)]
  BY <1>1, <1>2, PadIs DEF Words
<1> HIDE DEF u, v
<1>6. ASSUME NEW w \in Seq(Nat), NEW at \in Nat, Lies(w, at, u \o v)
      PROVE  Width("string", w, at) = 1 + p /\ Field("string", w, at) = s
  <2>1. Lies(w, at, u) /\ Lies(w, at + 1, v)
    BY <1>2, <1>3, <1>6, LiesConcat
  <2>2. WordAt(w, at) = n
    <3>1. WordAt(w, at + 1 - 1) = u[1] /\ at + 1 - 1 = at
      BY <1>3, <2>1, LiesIs
    <3> QED BY <1>3, <3>1
  <2>3. Span(w, at + 1, p) = v
    <3> DEFINE i == at + 1
    <3>1. i \in Nat /\ Lies(w, i, v)
      BY <2>1
    <3> HIDE DEF i, p
    <3>2. Span(w, i, Len(v)) = v
      BY <1>2, <3>1, SpanIs
    <3> QED BY <1>2, <3>2 DEF i
  <2>4. Min2(n, 4 * Len(w)) = n
    <3> DEFINE m == Len(w)
    <3>1. m \in Nat /\ at + 1 + p <= m + 1 /\ at > 0
      BY <1>2, <2>1 DEF Lies
    <3> HIDE DEF m, n, p
    <3>2. n <= 4 * m
      BY <1>1, <1>2, <3>1
    <3>3. Min2(n, 4 * m) = n
      BY <1>1, <3>1, <3>2 DEF Min2
    <3> QED BY <3>3 DEF m
  <2>5. Letters(v, n) = s
    <3>1. ASSUME NEW k \in 1 .. n
          PROVE  (v[(k-1) \div 4 + 1] \div Weight[((k-1) % 4) + 1]) % 4 = s[k]
      <4> DEFINE j == (k-1) \div 4 + 1
      <4>1. j \in 1 .. p
        BY <1>1
      <4>2. v[j] = Word(s, j)
        <5> HIDE DEF j, p
        <5> QED BY <1>5, <4>1
      <4> QED BY <4>2, WordBack
    <3>2. Letters(v, n) = [k \in 1 .. n |-> s[k]]
      BY <3>1 DEF Letters
    <3>3. s = [k \in 1 .. n |-> s[k]]
      BY <1>1
    <3> QED BY <3>2, <3>3
  <2>6. Width("string", w, at) = 1 + p
    BY <2>2 DEF Width
  <2>7. Field("string", w, at) = Letters(v, n)
    BY <2>2, <2>3, <2>4, Zenon DEF Field
  <2> QED BY <2>5, <2>6, <2>7
<1> QED BY <1>4, <1>6 DEF Item

-----------------------------------------------------------------------------
\* Fields one behind the other: their kinds, the words pushed and what they say.
Reading(kinds, us, vs) ==
    /\ kinds \in Seq(Kind) /\ us \in Seq(Seq(Nat)) /\ vs \in Seq(Seq(Nat))
    /\ Len(kinds) = Len(us) /\ Len(vs) = Len(us)
    /\ \A k \in 1 .. Len(us) : Item(kinds[k], us[k], vs[k])

LEMMA ReadingFew ==
    /\ Reading(<<>>, <<>>, <<>>)
    /\ \A kind \in Kind : \A u, v \in Seq(Nat) :
          Item(kind, u, v) => Reading(<<kind>>, <<u>>, <<v>>)
<1>1. Reading(<<>>, <<>>, <<>>)
  BY DEF Reading
<1>2. ASSUME NEW kind \in Kind, NEW u \in Seq(Nat), NEW v \in Seq(Nat), Item(kind, u, v)
      PROVE  Reading(<<kind>>, <<u>>, <<v>>)
  <2> DEFINE a == <<kind>>
             b == <<u>>
             e == <<v>>
  <2>1. /\ a \in Seq(Kind) /\ Len(a) = 1 /\ a[1] = kind
        /\ b \in Seq(Seq(Nat)) /\ Len(b) = 1 /\ b[1] = u
        /\ e \in Seq(Seq(Nat)) /\ Len(e) = 1 /\ e[1] = v
    OBVIOUS
  <2> HIDE DEF a, b, e
  <2>2. \A k \in 1 .. Len(b) : k = 1
    BY <2>1
  <2>3. \A k \in 1 .. Len(b) : Item(a[k], b[k], e[k])
    BY <1>2, <2>1, <2>2
  <2>4. Reading(a, b, e)
    BY <2>1, <2>3 DEF Reading
  <2> QED BY <2>4 DEF a, b, e
<1> QED BY <1>1, <1>2

LEMMA ReadingConcat ==
    ASSUME NEW kinds, NEW us, NEW vs, Reading(kinds, us, vs),
           NEW others, NEW xs, NEW ys, Reading(others, xs, ys)
    PROVE  Reading(kinds \o others, us \o xs, vs \o ys)
<1> DEFINE m == Len(us)
           n == Len(xs)
           a == kinds \o others
           b == us \o xs
           e == vs \o ys
<1>1. /\ kinds \in Seq(Kind) /\ us \in Seq(Seq(Nat)) /\ vs \in Seq(Seq(Nat))
      /\ Len(kinds) = m /\ Len(vs) = m /\ m \in Nat
      /\ \A k \in 1 .. m : Item(kinds[k], us[k], vs[k])
  BY DEF Reading
<1>2. /\ others \in Seq(Kind) /\ xs \in Seq(Seq(Nat)) /\ ys \in Seq(Seq(Nat))
      /\ Len(others) = n /\ Len(ys) = n /\ n \in Nat
      /\ \A k \in 1 .. n : Item(others[k], xs[k], ys[k])
  BY DEF Reading
<1>3. /\ a \in Seq(Kind) /\ Len(a) = m + n
      /\ \A k \in 1 .. m : a[k] = kinds[k]
      /\ \A k \in 1 .. n : a[m + k] = others[k]
  <2>1. kinds \in Seq(Kind) /\ others \in Seq(Kind)
    BY <1>1, <1>2
  <2>2. /\ kinds \o others \in Seq(Kind) /\ Len(kinds \o others) = Len(kinds) + Len(others)
        /\ \A i \in 1 .. Len(kinds) : (kinds \o others)[i] = kinds[i]
        /\ \A i \in 1 .. Len(others) : (kinds \o others)[Len(kinds) + i] = others[i]
    BY <2>1, ConcatIs
  <2>3. Len(kinds) = m /\ Len(others) = n
    BY <1>1, <1>2
  <2> HIDE DEF m, n
  <2> QED BY <2>1, <2>2, <2>3
<1>4. /\ b \in Seq(Seq(Nat)) /\ Len(b) = m + n
      /\ \A k \in 1 .. m : b[k] = us[k]
      /\ \A k \in 1 .. n : b[m + k] = xs[k]
  <2>1. us \in Seq(Seq(Nat)) /\ xs \in Seq(Seq(Nat))
    BY <1>1, <1>2
  <2>2. /\ us \o xs \in Seq(Seq(Nat)) /\ Len(us \o xs) = Len(us) + Len(xs)
        /\ \A i \in 1 .. Len(us) : (us \o xs)[i] = us[i]
        /\ \A i \in 1 .. Len(xs) : (us \o xs)[Len(us) + i] = xs[i]
    BY <2>1, ConcatIs
  <2>3. Len(us) = m /\ Len(xs) = n
    BY <1>1, <1>2
  <2> HIDE DEF m, n
  <2> QED BY <2>1, <2>2, <2>3
<1>5. /\ e \in Seq(Seq(Nat)) /\ Len(e) = m + n
      /\ \A k \in 1 .. m : e[k] = vs[k]
      /\ \A k \in 1 .. n : e[m + k] = ys[k]
  <2>1. vs \in Seq(Seq(Nat)) /\ ys \in Seq(Seq(Nat))
    BY <1>1, <1>2
  <2>2. /\ vs \o ys \in Seq(Seq(Nat)) /\ Len(vs \o ys) = Len(vs) + Len(ys)
        /\ \A i \in 1 .. Len(vs) : (vs \o ys)[i] = vs[i]
        /\ \A i \in 1 .. Len(ys) : (vs \o ys)[Len(vs) + i] = ys[i]
    BY <2>1, ConcatIs
  <2>3. Len(vs) = m /\ Len(ys) = n
    BY <1>1, <1>2
  <2> HIDE DEF m, n
  <2> QED BY <2>1, <2>2, <2>3
<1> HIDE DEF m, n, a, b, e
<1>6. ASSUME NEW k \in 1 .. m + n PROVE Item(a[k], b[k], e[k])
  <2>1. CASE k <= m
    <3>1. k \in 1 .. m
      BY <1>1, <2>1
    <3> QED BY <1>1, <1>3, <1>4, <1>5, <3>1
  <2>2. CASE ~(k <= m)
    <3> DEFINE j == k - m
    <3>1. j \in 1 .. n /\ k = m + j
      BY <1>1, <1>2, <2>2
    <3> HIDE DEF j
    <3> QED BY <1>2, <1>3, <1>4, <1>5, <3>1
  <2> QED BY <2>1, <2>2
<1>7. Reading(a, b, e)
  BY <1>3, <1>4, <1>5, <1>6 DEF Reading
<1> QED BY <1>7 DEF a, b, e

\* Fields that lie one behind the other are read one behind the other, to the end of
\* the last.
LEMMA FieldsAre ==
    ASSUME NEW w \in Seq(Nat), NEW at \in Nat, NEW kinds, NEW us, NEW vs,
           Reading(kinds, us, vs), Lies(w, at, FlattenSeq(us))
    PROVE  /\ Places(kinds, w, at)[Len(kinds)] = at + Len(FlattenSeq(us))
           /\ [k \in 1 .. Len(kinds) |-> Field(kinds[k], w, Places(kinds, w, at)[k - 1])] = vs
<1> DEFINE n == Len(kinds)
<1>1. /\ us \in Seq(Seq(Nat)) /\ vs \in Seq(Seq(Nat)) /\ n \in Nat
      /\ Len(us) = n /\ Len(vs) = n
      /\ \A k \in 1 .. n : Item(kinds[k], us[k], vs[k])
  BY DEF Reading
<1> HIDE DEF n
<1>2. PICK g \in [0 .. Len(us) -> Seq(Nat)] : Joins(g, us) /\ FlattenSeq(us) = g[Len(us)]
  BY <1>1, FlattenIs
<1>3. \A k \in 0 .. n : g[k] \in Seq(Nat) /\ Len(g[k]) \in Nat
  BY <1>1, <1>2
<1>4. /\ \A k \in 1 .. n : Lies(w, at + Len(g[k - 1]), us[k])
      /\ \A k \in 1 .. n : Len(g[k]) = Len(g[k - 1]) + Len(us[k])
  <2>1. Lies(w, at, g[Len(us)])
    BY <1>2
  <2>2. \A k \in 1 .. Len(us) : Lies(w, at + Len(g[k - 1]), us[k])
    BY <1>1, <1>2, <2>1, JoinLies
  <2>3. \A k \in 1 .. Len(us) :
          /\ g[k - 1] \in Seq(Nat) /\ us[k] \in Seq(Nat) /\ g[k] = g[k - 1] \o us[k]
          /\ Len(g[k]) = Len(g[k - 1]) + Len(us[k])
    BY <1>1, <1>2, JoinGrows
  <2> QED BY <1>1, <2>2, <2>3
<1> DEFINE h == [k \in 0 .. n |-> at + Len(g[k])]
<1>5. \A k \in 0 .. n : h[k] = at + Len(g[k]) /\ h[k] \in Nat
  BY <1>3
<1>6. h[0] = at
  <2>1. g[0] = <<>> /\ 0 \in 0 .. n
    BY <1>1, <1>2 DEF Joins
  <2>2. Len(g[0]) = 0
    BY <2>1
  <2> HIDE DEF h
  <2> QED BY <1>5, <2>1, <2>2
<1> HIDE DEF h
<1>7. ASSUME NEW k \in 1 .. n
      PROVE  /\ h[k] = After(kinds[k], w, h[k - 1])
             /\ Field(kinds[k], w, h[k - 1]) = vs[k]
  <2>1. k \in 0 .. n /\ k - 1 \in 0 .. n
    BY <1>1
  <2> DEFINE i == h[k - 1]
             u == us[k]
             a == Len(g[k - 1])
             b == Len(u)
  <2>2. a \in Nat /\ b \in Nat /\ i = at + a /\ i \in Nat /\ h[k] = at + (a + b)
    <3>1. u \in Seq(Nat)
      BY <1>1
    <3>2. b \in Nat
      BY <3>1
    <3> HIDE DEF u, b
    <3>3. Len(g[k]) = a + b
      BY <1>4 DEF u, b
    <3> HIDE DEF a
    <3>4. a \in Nat
      BY <1>3, <2>1 DEF a
    <3>5. i = at + a /\ i \in Nat
      BY <1>5, <2>1 DEF a
    <3>6. h[k] = at + (a + b)
      BY <1>5, <2>1, <3>3
    <3> QED BY <3>2, <3>4, <3>5, <3>6
  <2>3. Lies(w, i, u)
    BY <1>4, <2>2
  <2>4. Item(kinds[k], u, vs[k])
    BY <1>1
  <2> HIDE DEF i, u, a, b
  <2>5. Width(kinds[k], w, i) = b /\ Field(kinds[k], w, i) = vs[k]
    BY <2>2, <2>3, <2>4 DEF Item, b
  <2>6. After(kinds[k], w, i) = (at + a) + b /\ (at + a) + b = at + (a + b)
    BY <2>2, <2>5 DEF After
  <2> QED BY <2>2, <2>5, <2>6 DEF i
<1> DEFINE place[k \in 0 .. n] == IF k = 0 THEN at ELSE After(kinds[k], w, place[k - 1])
<1>8. Places(kinds, w, at) = place
  BY DEF Places, n
<1>9. h = [k \in 0 .. n |-> IF k = 0 THEN at ELSE After(kinds[k], w, h[k - 1])]
  <2>1. h = [k \in 0 .. n |-> h[k]]
    BY DEF h
  <2>2. ASSUME NEW k \in 0 .. n
        PROVE  h[k] = IF k = 0 THEN at ELSE After(kinds[k], w, h[k - 1])
    <3>1. CASE k = 0
      BY <1>6, <3>1
    <3>2. CASE k # 0
      <4>1. k \in 1 .. n
        BY <1>1, <3>2
      <4> QED BY <1>7, <3>2, <4>1
    <3> QED BY <3>1, <3>2
  <2> QED BY <2>1, <2>2
<1>10. place = [k \in 0 .. n |-> IF k = 0 THEN at ELSE After(kinds[k], w, place[k - 1])]
  BY <1>9
<1> HIDE DEF place
<1>11. \A k \in 0 .. n : place[k] = h[k]
  <2> DEFINE T == {k \in 0 .. n : place[k] = h[k]}
  <2>1. 0 \in T
    <3>1. 0 \in 0 .. n
      BY <1>1
    <3>2. place[0] = at
      BY <1>10, <3>1
    <3> QED BY <1>6, <3>1, <3>2
  <2>2. ASSUME NEW k \in 1 .. n, k - 1 \in T PROVE k \in T
    <3>1. k \in 0 .. n /\ k # 0 /\ place[k - 1] = h[k - 1]
      BY <1>1, <2>2
    <3>2. place[k] = After(kinds[k], w, place[k - 1])
      BY <1>10, <3>1, Zenon
    <3>3. place[k] = h[k]
      BY <1>7, <3>1, <3>2
    <3> QED BY <3>1, <3>3
  <2> HIDE DEF T
  <2>3. \A k \in 0 .. n : k \in T
    BY <1>1, <2>1, <2>2, Induction
  <2> QED BY <2>3 DEF T
<1>12. place[n] = at + Len(FlattenSeq(us))
  <2>1. n \in 0 .. n
    BY <1>1
  <2>2. FlattenSeq(us) = g[n]
    BY <1>1, <1>2
  <2> QED BY <1>5, <1>11, <2>1, <2>2
<1>13. \A k \in 1 .. n : Field(kinds[k], w, place[k - 1]) = vs[k]
  <2>1. ASSUME NEW k \in 1 .. n PROVE Field(kinds[k], w, place[k - 1]) = vs[k]
    <3>1. k - 1 \in 0 .. n
      BY <1>1
    <3>2. place[k - 1] = h[k - 1]
      BY <1>11, <3>1
    <3> QED BY <1>7, <3>2
  <2> QED BY <2>1
<1>14. vs = [k \in 1 .. n |-> vs[k]]
  BY <1>1
<1>15. [k \in 1 .. n |-> Field(kinds[k], w, place[k - 1])] = vs
  BY <1>13, <1>14
<1> QED BY <1>8, <1>12, <1>15 DEF n

-----------------------------------------------------------------------------
\* An operation is read as it was pushed.
WordsOf(op) == FlattenSeq(<<Be32(op[1])>> \o op[2])

\* The words of an operation, however they were pushed, are those of its fields.
Reads(kinds, us, vs) ==
    \E xs \in Seq(Seq(Nat)) : FlattenSeq(xs) = FlattenSeq(us) /\ Reading(kinds, xs, vs)

OpReads(op, m) ==
    op \in Operation /\ m \in Operation /\ m[1] = op[1] /\ Reads(Grammar(op[1]), op[2], m[2])

LEMMA WordsOfIs ==
    ASSUME NEW op \in Operation
    PROVE  /\ op[1] \in Nat /\ op[2] \in Seq(Seq(Nat)) /\ FlattenSeq(op[2]) \in Seq(Nat)
           /\ <<Be32(op[1])>> \o op[2] \in Seq(Seq(Nat))
           /\ WordsOf(op) = Be32(op[1]) \o FlattenSeq(op[2])
           /\ WordsOf(op) \in Seq(Nat) /\ Len(WordsOf(op)) = 1 + Len(FlattenSeq(op[2]))
<1> DEFINE b == Be32(op[1])
           u == <<b>>
           v == op[2]
           x == FlattenSeq(v)
<1>1. op[1] \in Nat /\ v \in Seq(Seq(Nat))
  BY DEF Operation
<1>2. b \in Seq(Nat) /\ Len(b) = 1
  BY <1>1, Be32Type
<1> HIDE DEF b
<1>3. u \in Seq(Seq(Nat))
  BY <1>2
<1>4. FlattenSeq(u) = b
  BY <1>2, FlattenFew
<1> HIDE DEF u, v
<1>5. u \o v \in Seq(Seq(Nat)) /\ FlattenSeq(u \o v) = FlattenSeq(u) \o x
  BY <1>1, <1>3, FlattenConcat
<1>6. x \in Seq(Nat)
  BY <1>1, FlattenType
<1> HIDE DEF x
<1>7. b \o x \in Seq(Nat) /\ Len(b \o x) = Len(b) + Len(x)
  BY <1>2, <1>6, ConcatIs
<1>8. WordsOf(op) = b \o x
  BY <1>4, <1>5 DEF WordsOf, b, u, v
<1>9. Len(WordsOf(op)) = 1 + Len(x)
  BY <1>2, <1>7, <1>8
<1> QED BY <1>1, <1>5, <1>6, <1>7, <1>8, <1>9 DEF b, u, v, x

LEMMA OpIsRead ==
    ASSUME NEW w \in Seq(Nat), NEW at \in Nat, NEW op, NEW m, OpReads(op, m),
           Lies(w, at, WordsOf(op))
    PROVE  ReadOp(w, at) = m /\ AfterOp(w, at) = at + Len(WordsOf(op))
<1> DEFINE n == op[1]
           kinds == Grammar(n)
           x == FlattenSeq(op[2])
           b == Be32(n)
           i == at + 1
<1>1. op \in Operation /\ m \in Operation /\ m[1] = n /\ Reads(kinds, op[2], m[2])
  BY DEF OpReads
<1>0. PICK us \in Seq(Seq(Nat)) : FlattenSeq(us) = x /\ Reading(kinds, us, m[2])
  BY <1>1 DEF Reads
<1>2. /\ n \in Nat /\ op[2] \in Seq(Seq(Nat)) /\ x \in Seq(Nat)
      /\ WordsOf(op) = b \o x /\ Len(WordsOf(op)) = 1 + Len(x)
  BY <1>1, WordsOfIs
<1>3. b \in Seq(Nat) /\ Len(b) = 1 /\ b[1] = n
  BY <1>2 DEF Be32
<1> HIDE DEF n, kinds, x, b
<1>4. Lies(w, at, b) /\ Lies(w, at + Len(b), x)
  BY <1>2, <1>3, LiesConcat
<1>5. WordAt(w, at) = n
  <2>1. \A j \in 1 .. Len(b) : WordAt(w, at + j - 1) = b[j]
    BY <1>3, <1>4, LiesIs
  <2>2. 1 \in 1 .. Len(b) /\ at + 1 - 1 = at
    BY <1>3
  <2>3. WordAt(w, at + 1 - 1) = b[1]
    BY <2>1, <2>2
  <2> QED BY <1>3, <2>2, <2>3
<1>6. i \in Nat /\ Lies(w, i, FlattenSeq(us))
  BY <1>3, <1>4, <1>0
<1> HIDE DEF i
<1>7. /\ Places(kinds, w, i)[Len(kinds)] = i + Len(x)
      /\ [k \in 1 .. Len(kinds) |-> Field(kinds[k], w, Places(kinds, w, i)[k - 1])] = m[2]
  <2> DEFINE vs == m[2]
  <2>1. Reading(kinds, us, vs) /\ i \in Nat /\ Lies(w, i, FlattenSeq(us))
    BY <1>6, <1>0
  <2> HIDE DEF vs
  <2>2. /\ Places(kinds, w, i)[Len(kinds)] = i + Len(FlattenSeq(us))
        /\ [k \in 1 .. Len(kinds) |-> Field(kinds[k], w, Places(kinds, w, i)[k - 1])] = vs
    BY <2>1, FieldsAre
  <2> QED BY <1>0, <2>2 DEF vs
<1>8. Grammar(WordAt(w, at)) = kinds /\ FieldsAt(w, at) = Places(kinds, w, i)
  BY <1>5 DEF FieldsAt, kinds, i
<1>9. ReadOp(w, at) = <<n, m[2]>>
  BY <1>5, <1>7, <1>8, Zenon DEF ReadOp
<1>10. m = <<n, m[2]>>
  BY <1>1 DEF Operation
<1>11. AfterOp(w, at) = i + Len(x)
  BY <1>7, <1>8, Zenon DEF AfterOp
<1>12. i + Len(x) = at + (1 + Len(x))
  <2> DEFINE l == Len(x)
  <2>1. l \in Nat
    BY <1>2
  <2> HIDE DEF l
  <2>2. (at + 1) + l = at + (1 + l)
    BY <2>1
  <2> QED BY <2>2 DEF i, l
<1> QED BY <1>2, <1>9, <1>10, <1>11, <1>12

\* All the operations of a request, one behind the other.
ReadsAll(ops, ms) ==
    /\ ops \in Seq(Operation) /\ ms \in Seq(Operation) /\ Len(ms) = Len(ops)
    /\ \A i \in 1 .. Len(ops) : OpReads(ops[i], ms[i])

LEMMA PushedWords ==
    ASSUME NEW ops \in Seq(Operation)
    PROVE  \E s \in Seq(Seq(Nat)) :
             /\ Len(s) = Len(ops) /\ \A i \in 1 .. Len(ops) : s[i] = WordsOf(ops[i])
             /\ FlattenSeq(Pushed(ops)) = FlattenSeq(s)
<1> DEFINE n == Len(ops)
           l == [i \in 1 .. n |-> <<Be32(ops[i][1])>> \o ops[i][2]]
           s == [i \in 1 .. n |-> FlattenSeq(l[i])]
<1>1. n \in Nat /\ DOMAIN ops = 1 .. n /\ \A i \in 1 .. n : ops[i] \in Operation
  OBVIOUS
<1> HIDE DEF n
<1>2. \A i \in 1 .. n : l[i] \in Seq(Seq(Nat)) /\ FlattenSeq(l[i]) = WordsOf(ops[i])
  <2>1. ASSUME NEW i \in 1 .. n
        PROVE  l[i] \in Seq(Seq(Nat)) /\ FlattenSeq(l[i]) = WordsOf(ops[i])
    <3>1. ops[i] \in Operation
      BY <1>1
    <3>2. <<Be32(ops[i][1])>> \o ops[i][2] \in Seq(Seq(Nat))
      BY <3>1, WordsOfIs
    <3> QED BY <3>2 DEF WordsOf
  <2> QED BY <2>1
<1>3. l \in [1 .. n -> Seq(Seq(Nat))]
  BY <1>2
<1>4. Pushed(ops) = FlattenSeq(l)
  BY <1>1, Zenon DEF Pushed
<1> HIDE DEF l
<1>5. s \in Seq(Seq(Nat)) /\ FlattenSeq(FlattenSeq(l)) = FlattenSeq(s)
  BY <1>1, <1>3, FlattenTwice
<1>6. Len(s) = n /\ \A i \in 1 .. n : s[i] = WordsOf(ops[i])
  BY <1>1, <1>2
<1> HIDE DEF s
<1> QED BY <1>4, <1>5, <1>6 DEF n

\* The server reads every operation, and the request ends where the last one does.
LEMMA UnderstandIs ==
    ASSUME NEW w \in Seq(Nat), NEW ops, NEW ms, ReadsAll(ops, ms), NEW xid,
           Len(w) = 23 + Len(FlattenSeq(Pushed(ops))), w[1] = 4 * (Len(w) - 1), w[2] = xid,
           w[9] = 36, w[23] = Len(ops), Lies(w, 24, FlattenSeq(Pushed(ops)))
    PROVE  Understand(w) = [frame |-> TRUE, whole |-> TRUE, xid |-> xid, ops |-> ms]
<1> DEFINE n == Len(ops)
           first == 24
<1>1. /\ ops \in Seq(Operation) /\ ms \in Seq(Operation) /\ Len(ms) = n /\ n \in Nat
      /\ \A i \in 1 .. n : OpReads(ops[i], ms[i])
  BY DEF ReadsAll
<1>2. PICK s \in Seq(Seq(Nat)) :
        /\ Len(s) = Len(ops) /\ \A i \in 1 .. Len(ops) : s[i] = WordsOf(ops[i])
        /\ FlattenSeq(Pushed(ops)) = FlattenSeq(s)
  BY <1>1, PushedWords
<1>3. PICK g \in [0 .. Len(s) -> Seq(Nat)] : Joins(g, s) /\ FlattenSeq(s) = g[Len(s)]
  BY FlattenIs
<1>4. \A i \in 1 .. Len(s) : Lies(w, first + Len(g[i - 1]), s[i])
  <2>1. Lies(w, first, g[Len(s)]) /\ first \in Nat
    BY <1>2, <1>3
  <2> HIDE DEF first
  <2> QED BY <1>3, <2>1, JoinLies
<1>5. \A i \in 1 .. Len(s) :
        /\ g[i - 1] \in Seq(Nat) /\ s[i] \in Seq(Nat) /\ g[i] = g[i - 1] \o s[i]
        /\ Len(g[i]) = Len(g[i - 1]) + Len(s[i])
  BY <1>3, JoinGrows, ZenonT(60)
<1> DEFINE l == [i \in 0 .. n |-> Len(g[i])]
           h == [i \in 0 .. n |-> first + l[i]]
<1>6. Len(s) = n /\ \A i \in 1 .. n : s[i] = WordsOf(ops[i]) /\ ops[i] \in Operation
  BY <1>1, <1>2
<1>7. first \in Nat /\ first = 24
  OBVIOUS
<1> HIDE DEF n, first
<1>8. \A i \in 0 .. n : l[i] = Len(g[i]) /\ l[i] \in Nat /\ h[i] = first + l[i] /\ h[i] \in Nat
  <2>1. \A i \in 0 .. n : g[i] \in Seq(Nat)
    BY <1>3, <1>6
  <2> QED BY <1>7, <2>1
<1>9. l[0] = 0
  <2>1. g[0] = <<>> /\ 0 \in 0 .. n
    BY <1>1, <1>3 DEF Joins
  <2>2. Len(g[0]) = 0
    BY <2>1
  <2> HIDE DEF l
  <2> QED BY <1>8, <2>1, <2>2
<1> HIDE DEF l
<1>10. h[0] = first
  <2>1. 0 \in 0 .. n
    BY <1>1
  <2> QED BY <1>7, <1>9, <2>1
<1> HIDE DEF h
<1>11. ASSUME NEW i \in 1 .. n
       PROVE  /\ i \in 0 .. n /\ i - 1 \in 0 .. n
              /\ l[i] > l[i - 1] /\ ReadOp(w, h[i - 1]) = ms[i] /\ AfterOp(w, h[i - 1]) = h[i]
  <2> DEFINE op == ops[i]
             u == WordsOf(op)
             m == ms[i]
             a == l[i - 1]
             b == Len(u)
             at == h[i - 1]
  <2>1. i \in 0 .. n /\ i - 1 \in 0 .. n /\ i \in 1 .. Len(s)
    BY <1>1, <1>6
  <2>2. s[i] = u /\ op \in Operation /\ OpReads(op, m)
    BY <1>1, <1>6
  <2>3. Len(g[i - 1]) = a /\ a \in Nat /\ at = first + a /\ at \in Nat
    BY <1>8, <2>1
  <2>4. l[i] = Len(g[i]) /\ h[i] = first + l[i]
    BY <1>8, <2>1
  <2>5. Lies(w, at, u)
    BY <1>4, <2>1, <2>2, <2>3
  <2> HIDE DEF op, m, at, a
  <2>6. b \in Nat /\ b >= 1
    <3>1. Len(u) = 1 + Len(FlattenSeq(op[2])) /\ FlattenSeq(op[2]) \in Seq(Nat)
      BY <2>2, WordsOfIs
    <3> DEFINE q == Len(FlattenSeq(op[2]))
    <3>2. q \in Nat /\ b = 1 + q
      BY <3>1
    <3> HIDE DEF q, b
    <3> QED BY <3>2
  <2>7. ReadOp(w, at) = m /\ AfterOp(w, at) = at + b
    BY <2>2, <2>3, <2>5, OpIsRead
  <2>8. l[i] = a + b
    <3>1. Len(g[i]) = Len(g[i - 1]) + Len(s[i])
      BY <1>5, <2>1
    <3> QED BY <2>2, <2>3, <2>4, <3>1
  <2> HIDE DEF u, b
  <2>9. l[i] > a /\ h[i] = at + b
    BY <1>7, <2>3, <2>4, <2>6, <2>8
  <2> QED BY <2>1, <2>7, <2>9 DEF m, at, a
<1>12. l[n] >= n
  <2> DEFINE T == {i \in 0 .. n : l[i] >= i}
  <2>1. 0 \in T
    BY <1>1, <1>9
  <2>2. ASSUME NEW i \in 1 .. n, i - 1 \in T PROVE i \in T
    <3>1. i \in 0 .. n /\ i - 1 \in 0 .. n /\ l[i] > l[i - 1] /\ l[i - 1] >= i - 1
      BY <1>11, <2>2
    <3>2. l[i] \in Nat /\ l[i - 1] \in Nat
      BY <1>8, <3>1
    <3> QED BY <3>1, <3>2
  <2> HIDE DEF T
  <2>3. \A i \in 0 .. n : i \in T
    BY <1>1, <2>1, <2>2, Induction
  <2>4. n \in T
    BY <1>1, <2>3
  <2> QED BY <2>4 DEF T
<1>13. l[n] = Len(FlattenSeq(Pushed(ops))) /\ l[n] \in Nat /\ h[n] = first + l[n]
  <2>1. n \in 0 .. n
    BY <1>1
  <2> QED BY <1>2, <1>3, <1>6, <1>8, <2>1
<1>14. Len(w) = 23 + l[n] /\ Min2(n, Len(w)) = n /\ h[n] = Len(w) + 1 /\ Len(w) \in Nat
  <2>1. Len(w) = 23 + l[n]
    BY <1>13
  <2> DEFINE m == Len(w)
  <2>2. m = 23 + l[n]
    BY <2>1
  <2> HIDE DEF m
  <2>3. m \in Nat /\ n <= m /\ h[n] = m + 1
    BY <1>1, <1>7, <1>12, <1>13, <2>2
  <2>4. Min2(n, m) = n
    BY <1>1, <2>3 DEF Min2
  <2> QED BY <2>2, <2>3, <2>4 DEF m
<1>15. WordAt(w, 9) = 36 /\ WordAt(w, 23) = n
  <2>1. DOMAIN w = 1 .. Len(w) /\ 9 \in 1 .. Len(w) /\ 23 \in 1 .. Len(w)
    BY <1>13, <1>14
  <2> QED BY <2>1 DEF WordAt, n
<1> DEFINE tag   == 10 + WordAt(w, 9) \div 4 + 2
           count == Min2(WordAt(w, tag + 2), Len(w))
           place[i \in 0 .. count] == IF i = 0 THEN tag + 3 ELSE AfterOp(w, place[i - 1])
<1>16. Understand(w) =
         [frame |-> w[1] = 4 * (Len(w) - 1), whole |-> place[count] = Len(w) + 1, xid |-> w[2],
          ops |-> [i \in 1 .. count |-> ReadOp(w, place[i - 1])]]
  BY DEF Understand
<1>17. tag + 2 = 23 /\ tag + 3 = first
  BY <1>7, <1>15, SMTT(40)
<1> HIDE DEF tag
<1>18. count = n
  BY <1>14, <1>15, <1>17
<1> HIDE DEF count
<1>19. h = [i \in 0 .. count |-> IF i = 0 THEN tag + 3 ELSE AfterOp(w, h[i - 1])]
  <2>1. h = [i \in 0 .. n |-> h[i]]
    BY DEF h
  <2>2. ASSUME NEW i \in 0 .. n
        PROVE  h[i] = IF i = 0 THEN tag + 3 ELSE AfterOp(w, h[i - 1])
    <3>1. CASE i = 0
      BY <1>10, <1>17, <3>1
    <3>2. CASE i # 0
      <4>1. i \in 1 .. n
        BY <1>1, <3>2
      <4> QED BY <1>11, <3>2, <4>1
    <3> QED BY <3>1, <3>2
  <2> QED BY <1>18, <2>1, <2>2
<1>20. place = [i \in 0 .. count |-> IF i = 0 THEN tag + 3 ELSE AfterOp(w, place[i - 1])]
  BY <1>19
<1> HIDE DEF place
<1>21. \A i \in 0 .. n : place[i] = h[i]
  <2> DEFINE T == {i \in 0 .. n : place[i] = h[i]}
  <2>1. 0 \in T
    <3>1. 0 \in 0 .. count /\ 0 \in 0 .. n
      BY <1>1, <1>18
    <3>2. place[0] = tag + 3
      BY <1>20, <3>1
    <3> QED BY <1>10, <1>17, <3>1, <3>2
  <2>2. ASSUME NEW i \in 1 .. n, i - 1 \in T PROVE i \in T
    <3>1. i \in 0 .. n /\ i # 0 /\ place[i - 1] = h[i - 1] /\ i \in 0 .. count
      BY <1>1, <1>18, <2>2
    <3>2. place[i] = AfterOp(w, place[i - 1])
      BY <1>20, <3>1, Zenon
    <3>3. place[i] = h[i]
      BY <1>11, <3>1, <3>2
    <3> QED BY <3>1, <3>3
  <2> HIDE DEF T
  <2>3. \A i \in 0 .. n : i \in T
    BY <1>1, <2>1, <2>2, Induction
  <2> QED BY <2>3 DEF T
<1>22. place[count] = Len(w) + 1
  <2>1. n \in 0 .. n
    BY <1>1
  <2> QED BY <1>14, <1>18, <1>21, <2>1
<1>23. [i \in 1 .. count |-> ReadOp(w, place[i - 1])] = ms
  <2>1. ASSUME NEW i \in 1 .. n PROVE ReadOp(w, place[i - 1]) = ms[i]
    <3>1. i - 1 \in 0 .. n /\ ReadOp(w, h[i - 1]) = ms[i]
      BY <1>11
    <3> QED BY <1>21, <3>1
  <2>2. ms = [i \in 1 .. n |-> ms[i]]
    BY <1>1
  <2> QED BY <1>18, <2>1, <2>2
<1> QED BY <1>16, <1>22, <1>23

-----------------------------------------------------------------------------
\* The number of the call is the second word of the header, and the length of the
\* credential the ninth.
LEMMA HeaderWords ==
    ASSUME NEW xid \in Nat
    PROVE  FlattenSeq(Header(xid))[2] = xid /\ FlattenSeq(Header(xid))[9] = 36
<1> DEFINE s == Header(xid)
           w == FlattenSeq(s)
           one == 1
<1>1. s \in Seq(Seq(Nat)) /\ w \in Seq(Nat) /\ Len(w) = 22
  BY HeaderIs
<1>2. Len(s) = 18 /\ s[2] = <<xid>> /\ s[9] = <<36>> /\ \A i \in 1 .. 8 : Len(s[i]) = 1
  <2> DEFINE machine == String([i \in 1 .. 15 |-> 1])
  <2>1. s = <<Be32(0), Be32(xid), Be32(0), Be32(2), Be32(Program), Be32(4), Be32(1), Be32(1),
              Be32(36), Be32(5), machine, Be32(0), Be32(0), Be32(0), Be32(0), Be32(0), Be32(0),
              Be32(1)>>
    BY DEF Header
  <2> HIDE DEF machine, s
  <2>2. Len(s) = 18
    BY <2>1
  <2>3. s[2] = <<xid>> /\ s[9] = <<36>>
    BY <2>1 DEF Be32
  <2>4. ASSUME NEW i \in 1 .. 8 PROVE Len(s[i]) = 1
    <3>1. s[i] \in {Be32(0), Be32(1), Be32(2), Be32(4), Be32(xid), Be32(Program)}
      BY <2>1
    <3> QED BY <3>1 DEF Be32
  <2> QED BY <2>2, <2>3, <2>4
<1>3. PICK g \in [0 .. Len(s) -> Seq(Nat)] : Joins(g, s) /\ FlattenSeq(s) = g[Len(s)]
  BY <1>1, FlattenIs
<1> HIDE DEF s
<1>4. \A i \in 1 .. Len(s) :
        /\ g[i - 1] \in Seq(Nat) /\ s[i] \in Seq(Nat) /\ g[i] = g[i - 1] \o s[i]
        /\ Len(g[i]) = Len(g[i - 1]) + Len(s[i])
  BY <1>1, <1>3, JoinGrows, ZenonT(60)
<1>5. \A i \in 0 .. 8 : Len(g[i]) = i
  <2> DEFINE T == {i \in 0 .. 8 : Len(g[i]) = i}
  <2>1. 0 \in T
    BY <1>3 DEF Joins
  <2>2. ASSUME NEW i \in 1 .. 8, i - 1 \in T PROVE i \in T
    <3>0. Len(s[i]) = 1
      BY <1>2
    <3>1. i \in 0 .. 8 /\ i \in 1 .. Len(s) /\ Len(s[i]) = 1
      <4>1. 1 .. Len(s) = 1 .. 18
        BY <1>2
      <4>2. i \in 0 .. 8 /\ i \in 1 .. 18
        OBVIOUS
      <4> QED BY <3>0, <4>1, <4>2
    <3>2. Len(g[i - 1]) = i - 1
      BY <2>2
    <3>3. Len(g[i]) = Len(g[i - 1]) + Len(s[i])
      BY <1>4, <3>1
    <3>4. Len(g[i]) = i
      BY <3>1, <3>2, <3>3
    <3> QED BY <3>1, <3>4
  <2> HIDE DEF T
  <2>3. \A i \in 0 .. 8 : i \in T
    BY <2>1, <2>2, Induction
  <2> QED BY <2>3 DEF T
<1>6. one \in Nat /\ one = 1
  OBVIOUS
<1> HIDE DEF w, one
<1>7. \A i \in 1 .. Len(s) : Lies(w, one + Len(g[i - 1]), s[i])
  <2>1. Lies(w, one, w)
    BY <1>1, <1>6 DEF Lies, At, Get
  <2>2. Lies(w, one, g[Len(s)])
    BY <1>3, <2>1 DEF w
  <2> QED BY <1>1, <1>3, <1>6, <2>2, JoinLies
<1>8. Lies(w, 2, <<xid>>) /\ Lies(w, 9, <<36>>)
  <2>1. 2 \in 1 .. Len(s) /\ 9 \in 1 .. Len(s) /\ 2 - 1 = 1 /\ 9 - 1 = 8
    BY <1>2
  <2>2. Lies(w, one + Len(g[2 - 1]), s[2]) /\ Lies(w, one + Len(g[9 - 1]), s[9])
    BY <1>7, <2>1, Zenon
  <2>3. Len(g[1]) = 1 /\ Len(g[8]) = 8
    BY <1>5
  <2>4. one + Len(g[1]) = 2 /\ one + Len(g[8]) = 9
    BY <1>6, <2>3
  <2> QED BY <1>2, <2>1, <2>2, <2>4
<1>9. w[2] = xid /\ w[9] = 36
  BY <1>1, <1>8 DEF Lies, At, Get
<1> QED BY <1>9 DEF w, s

\* What a buffer holds when these operations have been pushed behind the header.
Holds(b, xid, ops) ==
    \E n \in Nat : Contents(b) = FlattenSeq(Header(xid)) \o <<n>> \o FlattenSeq(Pushed(ops))

\* A request that was built is read operation by operation, once rpc_send() has filled
\* in its length and the number of its operations.
THEOREM FramedIsRead ==
    ASSUME NEW b, Sound(b), NEW xid \in Nat, NEW ops, NEW ms, ReadsAll(ops, ms),
           Holds(b, xid, ops)
    PROVE  Understand(Framed(b, Len(ops)))
             = [frame |-> TRUE, whole |-> TRUE, xid |-> xid, ops |-> ms]
<1>0. PICK n \in Nat : Contents(b) = FlattenSeq(Header(xid)) \o <<n>> \o FlattenSeq(Pushed(ops))
  BY DEF Holds
<1> DEFINE h == FlattenSeq(Header(xid))
           o == <<n>>
           z == FlattenSeq(Pushed(ops))
           v == Contents(b)
           w == Framed(b, Len(ops))
           l == Len(z)
           k == Len(ops)
<1>1. h \in Seq(Nat) /\ Len(h) = 22 /\ h[2] = xid /\ h[9] = 36
  BY HeaderIs, HeaderWords
<1>2. o \in Seq(Nat) /\ Len(o) = 1
  OBVIOUS
<1>3. ops \in Seq(Operation) /\ k \in Nat
  BY DEF ReadsAll
<1>4. z \in Seq(Nat) /\ l \in Nat
  <2>1. z \in Seq(Nat)
    BY <1>3, PushedType, FlattenType
  <2> QED BY <2>1
<1>5. v = (h \o o) \o z
  BY <1>0
<1> HIDE DEF h, o, z, v
<1>6. /\ h \o o \in Seq(Nat) /\ Len(h \o o) = 23 /\ (h \o o)[2] = xid /\ (h \o o)[9] = 36
  <2>1. /\ h \o o \in Seq(Nat) /\ Len(h \o o) = Len(h) + Len(o)
        /\ \A i \in 1 .. Len(h) : (h \o o)[i] = h[i]
    <3>1. h \in Seq(Nat) /\ o \in Seq(Nat)
      BY <1>1, <1>2
    <3> QED BY <3>1, ConcatIs
  <2>2. 2 \in 1 .. Len(h) /\ 9 \in 1 .. Len(h)
    BY <1>1
  <2>3. (h \o o)[2] = h[2] /\ (h \o o)[9] = h[9]
    BY <2>1, <2>2
  <2>4. Len(h \o o) = 23
    BY <1>1, <1>2, <2>1
  <2> QED BY <1>1, <2>1, <2>3, <2>4
<1> DEFINE x == h \o o
<1>7. /\ v \in Seq(Nat) /\ Len(v) = 23 + l /\ v[2] = xid /\ v[9] = 36
      /\ \A j \in 1 .. l : v[23 + j] = z[j]
  <2>1. x \in Seq(Nat) /\ Len(x) = 23 /\ x[2] = xid /\ x[9] = 36 /\ v = x \o z
    BY <1>5, <1>6
  <2> HIDE DEF x
  <2>2. /\ v \in Seq(Nat) /\ Len(v) = Len(x) + Len(z)
        /\ \A i \in 1 .. Len(x) : v[i] = x[i]
        /\ \A i \in 1 .. Len(z) : v[Len(x) + i] = z[i]
    <3>1. x \in Seq(Nat) /\ z \in Seq(Nat) /\ v = x \o z
      BY <1>4, <2>1
    <3> QED BY <3>1, ConcatIs
  <2>3. 2 \in 1 .. Len(x) /\ 9 \in 1 .. Len(x)
    BY <2>1
  <2> QED BY <2>1, <2>2, <2>3
<1>8. w = [v EXCEPT ![1] = 4 * (Len(v) - 1), ![23] = k]
  <2>1. Length(b) = Len(v)
    <3> DEFINE t == b.contents
               e == b.end
    <3>1. t \in Seq(Nat) /\ e \in Nat /\ e <= Len(t) /\ b.start = 0
      BY DEF Sound, Buffer
    <3>2. v = SubSeq(t, 1, e)
      <4>1. 0 + 1 = 1
        OBVIOUS
      <4> QED BY <3>1, <4>1 DEF Contents, v
    <3>3. Length(b) = e - 0
      BY <3>1 DEF Length
    <3> HIDE DEF t, e
    <3>4. Len(v) = e
      BY <3>1, <3>2, FrontIs
    <3> QED BY <3>1, <3>3, <3>4
  <2> QED BY <2>1 DEF Framed, OpCountLoc, v
<1> DEFINE m == Len(v)
           frst == 4 * (m - 1)
<1>9. m = 23 + l /\ v \in [1 .. m -> Nat] /\ m \in Nat /\ frst \in Nat
  <2>1. v \in Seq(Nat) /\ m = 23 + l /\ l \in Nat
    BY <1>4, <1>7
  <2>2. v \in [1 .. m -> Nat]
    BY <2>1
  <2> HIDE DEF m, l
  <2>3. m \in Nat /\ frst \in Nat
    BY <2>1
  <2> QED BY <2>1, <2>2, <2>3
<1> HIDE DEF k, l, w
<1>10. /\ w \in [1 .. m -> Nat] /\ w[1] = frst /\ w[23] = k
       /\ \A i \in 1 .. m : i # 1 /\ i # 23 => w[i] = v[i]
  <2>1. w = [v EXCEPT ![1] = frst, ![23] = k] /\ 1 \in 1 .. m /\ 23 \in 1 .. m
    BY <1>4, <1>8, <1>9
  <2> HIDE DEF frst, m
  <2>2. w \in [1 .. m -> Nat]
    BY <1>3, <1>9, <2>1
  <2>3. w[23] = k
    BY <1>9, <2>1
  <2>4. w[1] = frst
    BY <1>9, <2>1
  <2>5. \A i \in 1 .. m : i # 1 /\ i # 23 => w[i] = v[i]
    BY <1>9, <2>1
  <2> QED BY <2>2, <2>3, <2>4, <2>5
<1> HIDE DEF m
<1>11. w \in Seq(Nat) /\ Len(w) = m /\ DOMAIN w = 1 .. m
  BY <1>9, <1>10, FunctionIs
<1>12. w[1] = 4 * (Len(w) - 1) /\ w[2] = xid /\ w[9] = 36 /\ w[23] = k /\ Len(w) = 23 + l
  <2>1. 2 \in 1 .. m /\ 9 \in 1 .. m
    BY <1>4, <1>9
  <2> QED BY <1>7, <1>9, <1>10, <1>11, <2>1
<1>13. Lies(w, 24, z)
  <2>1. ASSUME NEW j \in 1 .. l PROVE Get(w, 24 + j - 1) = z[j]
    <3>1. 24 + j - 1 = 23 + j /\ 23 + j \in 1 .. m /\ 23 + j # 1 /\ 23 + j # 23
      BY <1>4, <1>9
    <3>2. w[23 + j] = v[23 + j] /\ 23 + j \in DOMAIN w
      BY <1>10, <1>11, <3>1
    <3> QED BY <1>7, <3>1, <3>2 DEF Get
  <2>2. 24 + l <= Len(w) + 1
    BY <1>4, <1>9, <1>11
  <2> QED BY <2>1, <2>2 DEF Lies, At, l
<1> QED BY <1>11, <1>12, <1>13, UnderstandIs DEF w, z, k, l

-----------------------------------------------------------------------------
\* The fields of the operations.
Part(kind, u, v) == kind \in Kind /\ u \in Seq(Nat) /\ v \in Seq(Nat) /\ Item(kind, u, v)

LEMMA PartsRead ==
    ASSUME NEW n \in Nat, NEW kinds \in Seq(Kind), NEW us \in Seq(Seq(Nat)),
           NEW vs \in Seq(Seq(Nat)), Len(kinds) = n, Len(us) = n, Len(vs) = n,
           \A k \in 1 .. n : Part(kinds[k], us[k], vs[k])
    PROVE  Reading(kinds, us, vs)
<1>1. \A k \in 1 .. Len(us) : Item(kinds[k], us[k], vs[k])
  BY DEF Part
<1> QED BY <1>1 DEF Reading

LEMMA WordPart ==
    ASSUME NEW n \in Nat
    PROVE  Part("u32", Be32(n), <<n>>)
<1>1. Be32(n) = <<n>> /\ <<n>> \in Seq(Nat) /\ Len(<<n>>) = 1
  BY DEF Be32
<1>2. Fixed["u32"] = 1 /\ "u32" \in {"u32", "u64", "other", "session"} /\ "u32" \in Kind
  BY DEF Fixed, Kind
<1> DEFINE u == <<n>>
           kind == "u32"
<1>3. /\ u \in Seq(Nat) /\ Len(u) = Fixed[kind] /\ kind \in {"u32", "u64", "other", "session"}
      /\ kind \in Kind
  BY <1>1, <1>2
<1> HIDE DEF u, kind
<1>4. Part(kind, u, u)
  BY <1>3, FixedItem DEF Part
<1> QED BY <1>1, <1>4 DEF u, kind

LEMMA PlainPart ==
    ASSUME NEW u \in Seq(Nat)
    PROVE  /\ Len(u) = 2 => Part("u64", u, u)
           /\ Len(u) = 3 => Part("other", u, u)
           /\ Len(u) = 4 => Part("session", u, u)
<1>1. ASSUME NEW kind, kind \in {"u32", "u64", "other", "session"}, Len(u) = Fixed[kind]
      PROVE  Part(kind, u, u)
  <2>1. kind \in Kind
    BY <1>1 DEF Kind
  <2> QED BY <1>1, <2>1, FixedItem DEF Part
<1>2. Fixed["u64"] = 2 /\ Fixed["other"] = 3 /\ Fixed["session"] = 4
  BY DEF Fixed
<1> QED BY <1>1, <1>2

LEMMA StringPart ==
    ASSUME NEW s \in Name, Len(s) < W - 3
    PROVE  Part("string", String(s), s)
<1>1. Item("string", String(s), s)
  BY StringItem
<1>2. "string" \in Kind
  BY DEF Kind
<1>3. s \in Seq(Nat)
  BY NameIs
<1>4. String(s) \in Seq(Nat)
  BY StringFits
<1> QED BY <1>1, <1>2, <1>3, <1>4 DEF Part

LEMMA StateidReads ==
    ASSUME NEW s \in Four
    PROVE  Reading(StateidFields, Stateid(s), SaidId(s))
<1> DEFINE n == s[1]
           a == Be32(n)
           e == <<n>>
           b == Tail(s)
           four == 4
           kinds == <<"u32", "other">>
           us == <<a, b>>
           vs == <<e, b>>
<1>1. s \in Seq(Nat) /\ Len(s) = 4
  <2>1. s \in [1 .. four -> Nat] /\ four \in Nat
    BY DEF Four
  <2> HIDE DEF four
  <2>2. s \in Seq(Nat) /\ Len(s) = four
    BY <2>1, FunctionIs
  <2> QED BY <2>2 DEF four
<1>2. n \in Nat /\ b \in Seq(Nat) /\ Len(b) = 3
  <2>1. n \in Nat
    <3>1. 1 \in 1 .. 4
      OBVIOUS
    <3> QED BY <3>1 DEF Four
  <2>2. s # <<>>
    BY <1>1, NotEmpty, SMTT(40)
  <2>3. b \in Seq(Nat)
    BY <1>1, <2>2
  <2>4. Len(b) = 3
    BY <1>1, <2>2
  <2> QED BY <2>1, <2>3, <2>4
<1>3. Part("u32", a, e) /\ Part("other", b, b)
  BY <1>2, WordPart, PlainPart
<1> HIDE DEF a, e, b
<1>4. Len(kinds) = 2 /\ Len(us) = 2 /\ Len(vs) = 2
  OBVIOUS
<1>5. kinds \in Seq(Kind) /\ us \in Seq(Seq(Nat)) /\ vs \in Seq(Seq(Nat))
  BY <1>3 DEF Part
<1>6. \A k \in 1 .. 2 : Part(kinds[k], us[k], vs[k])
  BY <1>3
<1>7. kinds = StateidFields /\ us = Stateid(s) /\ vs = SaidId(s)
  BY DEF StateidFields, Stateid, SaidId, a, b, e
<1> HIDE DEF kinds, us, vs
<1>8. Reading(kinds, us, vs)
  BY <1>4, <1>5, <1>6, PartsRead
<1> QED BY <1>7, <1>8

LEMMA OwnerReads ==
    ASSUME NEW k \in Client, k.clientid = srv.clientid
    PROVE  Reading(OwnerFields, Owner(k), SaidOwner)
<1> DEFINE a == k.clientid
           o == OwnOwner
           b == String(o)
           two == 2
           kinds == <<"u64", "string">>
           us == <<a, b>>
           vs == <<a, o>>
<1>1. a \in Seq(Nat) /\ Len(a) = 2
  <2>1. a \in [1 .. two -> Nat] /\ two \in Nat
    BY DEF Client
  <2> HIDE DEF two, a
  <2>2. a \in Seq(Nat) /\ Len(a) = two
    BY <2>1, FunctionIs
  <2> QED BY <2>2 DEF two
<1>2. o \in Name /\ Len(o) < W - 3
  <2>1. o \in Name
    BY NamesType
  <2>2. Len(o) = 22
    BY DEF OwnOwner
  <2> HIDE DEF o
  <2> QED BY <2>1, <2>2, WIs
<1> HIDE DEF a, o
<1>3. Part("u64", a, a) /\ Part("string", b, o)
  BY <1>1, <1>2, PlainPart, StringPart
<1> HIDE DEF b
<1>4. Len(kinds) = 2 /\ Len(us) = 2 /\ Len(vs) = 2
  OBVIOUS
<1>5. kinds \in Seq(Kind) /\ us \in Seq(Seq(Nat)) /\ vs \in Seq(Seq(Nat))
  BY <1>3 DEF Part
<1>6. \A i \in 1 .. 2 : Part(kinds[i], us[i], vs[i])
  BY <1>3
<1>7. kinds = OwnerFields /\ us = Owner(k) /\ vs = SaidOwner
  BY DEF OwnerFields, Owner, SaidOwner, a, o, b
<1> HIDE DEF kinds, us, vs
<1>8. Reading(kinds, us, vs)
  BY <1>4, <1>5, <1>6, PartsRead
<1> QED BY <1>7, <1>8

LEMMA ChannelReads ==
    ASSUME NEW k \in Client
    PROVE  Reading(ChannelFields, ChannelAttrs(k),
                   <<<<0>>, <<k.maxreq>>, <<k.maxresp>>, <<1048576>>, <<k.maxops>>,
                     <<k.maxreqs>>, <<0>>>>)
<1> DEFINE n1 == 0
           n2 == k.maxreq
           n3 == k.maxresp
           n4 == 1048576
           n5 == k.maxops
           n6 == k.maxreqs
           word == "u32"
<1>1. n1 \in Nat /\ n4 \in Nat
  BY SMT
<1>2. n2 \in Nat /\ n3 \in Nat /\ n5 \in Nat /\ n6 \in Nat
  BY ClientIs
<1>3. ChannelAttrs(k) = <<Be32(n1), Be32(n2), Be32(n3), Be32(n4), Be32(n5), Be32(n6), Be32(n1)>>
  BY DEF ChannelAttrs
<1>4. ChannelFields = <<word, word, word, word, word, word, word>>
  BY DEF ChannelFields
<1> HIDE DEF n2, n3, n4, n5, n6, n1
<1>5. /\ Part(word, Be32(n1), <<n1>>) /\ Part(word, Be32(n2), <<n2>>)
      /\ Part(word, Be32(n3), <<n3>>) /\ Part(word, Be32(n4), <<n4>>)
      /\ Part(word, Be32(n5), <<n5>>) /\ Part(word, Be32(n6), <<n6>>)
  BY <1>1, <1>2, WordPart
<1> DEFINE a1 == Be32(n1)
           a2 == Be32(n2)
           a3 == Be32(n3)
           a4 == Be32(n4)
           a5 == Be32(n5)
           a6 == Be32(n6)
           b1 == <<n1>>
           b2 == <<n2>>
           b3 == <<n3>>
           b4 == <<n4>>
           b5 == <<n5>>
           b6 == <<n6>>
           kinds == <<word, word, word, word, word, word, word>>
           us == <<a1, a2, a3, a4, a5, a6, a1>>
           vs == <<b1, b2, b3, b4, b5, b6, b1>>
<1> HIDE DEF a1, a2, a3, a4, a5, a6, b1, b2, b3, b4, b5, b6, word
<1>6. /\ Part(word, a1, b1) /\ Part(word, a2, b2) /\ Part(word, a3, b3) /\ Part(word, a4, b4)
      /\ Part(word, a5, b5) /\ Part(word, a6, b6)
  BY <1>5 DEF a1, a2, a3, a4, a5, a6, b1, b2, b3, b4, b5, b6
<1>7. Len(kinds) = 7 /\ Len(us) = 7 /\ Len(vs) = 7
  OBVIOUS
<1>8. kinds \in Seq(Kind) /\ us \in Seq(Seq(Nat)) /\ vs \in Seq(Seq(Nat))
  BY <1>6 DEF Part
<1>9. \A i \in 1 .. 7 : Part(kinds[i], us[i], vs[i])
  BY <1>6
<1>10. us = ChannelAttrs(k) /\ vs = <<<<n1>>, <<n2>>, <<n3>>, <<n4>>, <<n5>>, <<n6>>, <<n1>>>>
  BY <1>3 DEF a1, a2, a3, a4, a5, a6, b1, b2, b3, b4, b5, b6
<1> HIDE DEF kinds, us, vs
<1>11. Reading(kinds, us, vs)
  BY <1>7, <1>8, <1>9, PartsRead
<1> QED BY <1>4, <1>10, <1>11 DEF n1, n2, n3, n4, n5, n6, kinds

LEMMA GrammarIs ==
    /\ Grammar(Op.SEQUENCE) = <<"session", "u32", "u32", "u32", "u32">>
    /\ \A op \in {Op.PUTFH, Op.LOOKUP, Op.REMOVE} : Grammar(op) = <<"string">>
    /\ Grammar(Op.RECLAIM_COMPLETE) = <<"u32">>
    /\ Grammar(Op.EXCHANGE_ID)
         = <<"u64", "string", "u32", "u32", "u32", "string", "string", "u64", "u32">>
    /\ Grammar(Op.CREATE_SESSION)
         = <<"u64", "u32", "u32">> \o ChannelFields \o ChannelFields \o <<"u32", "u32", "u32">>
    /\ Grammar(Op.OPEN) = <<"u32", "u32", "u32">> \o OwnerFields \o <<"how", "u32", "string">>
    /\ Grammar(Op.GETATTR) = <<"u32", "u32">>
    /\ Grammar(Op.READ) = StateidFields \o <<"u64", "u32">>
    /\ Grammar(Op.WRITE) = StateidFields \o <<"u64", "u32", "string">>
    /\ Grammar(Op.LOCK) = <<"u32", "u32", "u64", "u64", "u32", "u32">> \o StateidFields
                          \o <<"u32">> \o OwnerFields
    /\ Grammar(Op.LOCKU) = <<"u32", "u32">> \o StateidFields \o <<"u64", "u64">>
    /\ Grammar(Op.PUTROOTFH) = <<>> /\ Grammar(Op.GETFH) = <<>>
<1>1. Grammar(Op.SEQUENCE) = <<"session", "u32", "u32", "u32", "u32">>
  BY OpIs DEF Grammar
<1>2. \A op \in {Op.PUTFH, Op.LOOKUP, Op.REMOVE} : Grammar(op) = <<"string">>
  BY OpIs, SMTT(40) DEF Grammar
<1>3. Grammar(Op.RECLAIM_COMPLETE) = <<"u32">>
  BY OpIs DEF Grammar
<1>4. Grammar(Op.EXCHANGE_ID)
         = <<"u64", "string", "u32", "u32", "u32", "string", "string", "u64", "u32">>
  BY OpIs DEF Grammar
<1>5. Grammar(Op.CREATE_SESSION)
         = <<"u64", "u32", "u32">> \o ChannelFields \o ChannelFields \o <<"u32", "u32", "u32">>
  BY OpIs, SMTT(40) DEF Grammar
<1>6. Grammar(Op.OPEN) = <<"u32", "u32", "u32">> \o OwnerFields \o <<"how", "u32", "string">>
  BY OpIs, SMTT(40) DEF Grammar
<1>7. Grammar(Op.GETATTR) = <<"u32", "u32">>
  BY OpIs DEF Grammar
<1>8. Grammar(Op.READ) = StateidFields \o <<"u64", "u32">>
  BY OpIs DEF Grammar
<1>9. Grammar(Op.WRITE) = StateidFields \o <<"u64", "u32", "string">>
  BY OpIs DEF Grammar
<1>10. Grammar(Op.LOCK) = <<"u32", "u32", "u64", "u64", "u32", "u32">> \o StateidFields
                           \o <<"u32">> \o OwnerFields
  <2>1. /\ Op.LOCK # Op.SEQUENCE /\ Op.LOCK # Op.PUTFH /\ Op.LOCK # Op.LOOKUP
        /\ Op.LOCK # Op.REMOVE /\ Op.LOCK # Op.RECLAIM_COMPLETE /\ Op.LOCK # Op.EXCHANGE_ID
        /\ Op.LOCK # Op.CREATE_SESSION /\ Op.LOCK # Op.OPEN /\ Op.LOCK # Op.GETATTR
        /\ Op.LOCK # Op.READ /\ Op.LOCK # Op.WRITE /\ Op.LOCK # Op.LOCKU
    BY OpIs
  <2> QED BY <2>1, ZenonT(60) DEF Grammar
<1>11. Grammar(Op.LOCKU) = <<"u32", "u32">> \o StateidFields \o <<"u64", "u64">>
  BY OpIs, SMTT(40) DEF Grammar
<1>12. Grammar(Op.PUTROOTFH) = <<>> /\ Grammar(Op.GETFH) = <<>>
  BY OpIs DEF Grammar
<1> QED
  BY <1>1, <1>2, <1>3, <1>4, <1>5, <1>6, <1>7, <1>8, <1>9, <1>10, <1>11, <1>12

LEMMA OpSays ==
    ASSUME NEW n \in Nat, NEW kinds, NEW us, NEW vs, Grammar(n) = kinds, Reading(kinds, us, vs)
    PROVE  OpReads(<<n, us>>, <<n, vs>>)
<1>1. us \in Seq(Seq(Nat)) /\ vs \in Seq(Seq(Nat))
  BY DEF Reading
<1>2. <<n, us>> \in Operation /\ <<n, vs>> \in Operation
  BY <1>1, OperationIs
<1>3. Reads(Grammar(n), us, vs)
  BY <1>1 DEF Reads
<1> QED BY <1>2, <1>3 DEF OpReads

\* One or two fields behind one another.
LEMMA OnePart ==
    ASSUME NEW kind, NEW u, NEW v, Part(kind, u, v)
    PROVE  Reading(<<kind>>, <<u>>, <<v>>)
BY ReadingFew DEF Part

LEMMA TwoParts ==
    ASSUME NEW kind, NEW u, NEW v, Part(kind, u, v), NEW other, NEW x, NEW y, Part(other, x, y)
    PROVE  Reading(<<kind, other>>, <<u, x>>, <<v, y>>)
<1> DEFINE kinds == <<kind, other>>
           us == <<u, x>>
           vs == <<v, y>>
<1>1. Len(kinds) = 2 /\ Len(us) = 2 /\ Len(vs) = 2
  OBVIOUS
<1>2. kinds \in Seq(Kind) /\ us \in Seq(Seq(Nat)) /\ vs \in Seq(Seq(Nat))
  BY DEF Part
<1>3. \A i \in 1 .. 2 : Part(kinds[i], us[i], vs[i])
  OBVIOUS
<1> HIDE DEF kinds, us, vs
<1>4. Reading(kinds, us, vs)
  BY <1>1, <1>2, <1>3, PartsRead
<1> QED BY <1>4 DEF kinds, us, vs

LEMMA ThreeParts ==
    ASSUME NEW kind, NEW u, NEW v, Part(kind, u, v), NEW other, NEW x, NEW y, Part(other, x, y),
           NEW third, NEW z, NEW t, Part(third, z, t)
    PROVE  Reading(<<kind, other, third>>, <<u, x, z>>, <<v, y, t>>)
<1> DEFINE kinds == <<kind, other, third>>
           us == <<u, x, z>>
           vs == <<v, y, t>>
<1>1. Len(kinds) = 3 /\ Len(us) = 3 /\ Len(vs) = 3
  OBVIOUS
<1>2. kinds \in Seq(Kind) /\ us \in Seq(Seq(Nat)) /\ vs \in Seq(Seq(Nat))
  BY DEF Part
<1>3. \A i \in 1 .. 3 : Part(kinds[i], us[i], vs[i])
  OBVIOUS
<1> HIDE DEF kinds, us, vs
<1>4. Reading(kinds, us, vs)
  BY <1>1, <1>2, <1>3, PartsRead
<1> QED BY <1>4 DEF kinds, us, vs

LEMMA SequenceReads ==
    ASSUME NEW k \in Client, srv \in Server, k.session = srv.session, k.sequence = srv.slot + 1
    PROVE  OpReads(Sequence(k), PutSession)
<1> DEFINE a == k.session
           n == k.sequence
           zero == 0
           word == "u32"
           b == Be32(n)
           e == Be32(zero)
           o == <<n>>
           z == <<zero>>
           kinds == <<"session", word, word, word, word>>
           us == <<a, b, e, e, e>>
           vs == <<a, o, z, z, z>>
<1>1. a \in Seq(Nat) /\ Len(a) = 4 /\ n \in Nat /\ zero \in Nat
  BY ServerIs, ClientIs
<1> HIDE DEF a, n, zero
<1>2. Part("session", a, a) /\ Part(word, b, o) /\ Part(word, e, z)
  BY <1>1, PlainPart, WordPart
<1> HIDE DEF b, e, o, z, word
<1>3. Len(kinds) = 5 /\ Len(us) = 5 /\ Len(vs) = 5
  OBVIOUS
<1>4. kinds \in Seq(Kind) /\ us \in Seq(Seq(Nat)) /\ vs \in Seq(Seq(Nat))
  BY <1>2 DEF Part
<1>5. \A i \in 1 .. 5 : Part(kinds[i], us[i], vs[i])
  BY <1>2
<1>6. Grammar(Op.SEQUENCE) = kinds /\ Op.SEQUENCE \in Nat
  BY GrammarIs, OpIs DEF word
<1>7. Sequence(k) = <<Op.SEQUENCE, us>> /\ PutSession = <<Op.SEQUENCE, vs>>
  BY DEF Sequence, PutSession, a, n, zero, b, e, o, z
<1> HIDE DEF kinds, us, vs
<1>8. Reading(kinds, us, vs)
  BY <1>3, <1>4, <1>5, PartsRead
<1> QED BY <1>6, <1>7, <1>8, OpSays

\* A handle or a name is read as it was given.
LEMMA NamedReads ==
    ASSUME NEW op \in {Op.PUTFH, Op.LOOKUP, Op.REMOVE}, NEW s \in Name, Len(s) < W - 3
    PROVE  OpReads(<<op, <<String(s)>>>>, <<op, <<s>>>>)
<1>1. op \in Nat /\ Grammar(op) = <<"string">>
  <2>1. \A n \in {Op.PUTFH, Op.LOOKUP, Op.REMOVE} : Grammar(n) = <<"string">>
    BY GrammarIs
  <2>2. {Op.PUTFH, Op.LOOKUP, Op.REMOVE} \subseteq Nat
    BY OpIs
  <2> QED BY <2>1, <2>2
<1>2. Reading(<<"string">>, <<String(s)>>, <<s>>)
  BY StringPart, OnePart
<1> QED BY <1>1, <1>2, OpSays

LEMMA PlainReads ==
    ASSUME NEW op \in {Op.PUTROOTFH, Op.GETFH}
    PROVE  OpReads(<<op, <<>>>>, <<op, <<>>>>)
<1>1. op \in Nat /\ Grammar(op) = <<>> /\ Reading(<<>>, <<>>, <<>>)
  <2>1. Grammar(Op.PUTROOTFH) = <<>> /\ Grammar(Op.GETFH) = <<>>
    BY GrammarIs
  <2>2. {Op.PUTROOTFH, Op.GETFH} \subseteq Nat
    BY OpIs
  <2>3. Reading(<<>>, <<>>, <<>>)
    BY ReadingFew
  <2> QED BY <2>1, <2>2, <2>3
<1> QED BY <1>1, OpSays

LEMMA ReclaimReads == OpReads(<<Op.RECLAIM_COMPLETE, <<Be32(0)>>>>, <<Op.RECLAIM_COMPLETE, <<<<0>>>>>>)
<1>1. Op.RECLAIM_COMPLETE \in Nat /\ Grammar(Op.RECLAIM_COMPLETE) = <<"u32">>
  BY GrammarIs, OpIs
<1>2. Reading(<<"u32">>, <<Be32(0)>>, <<<<0>>>>)
  BY WordPart, OnePart
<1> QED BY <1>1, <1>2, OpSays

LEMMA GetattrReads ==
    OpReads(<<Op.GETATTR, <<Be32(1), Be32(16)>>>>, <<Op.GETATTR, <<<<1>>, <<16>>>>>>)
<1>1. Op.GETATTR \in Nat /\ Grammar(Op.GETATTR) = <<"u32", "u32">>
  BY GrammarIs, OpIs
<1>2. Part("u32", Be32(1), <<1>>) /\ Part("u32", Be32(16), <<16>>)
  BY WordPart
<1>3. Reading(<<"u32", "u32">>, <<Be32(1), Be32(16)>>, <<<<1>>, <<16>>>>)
  BY <1>2, TwoParts
<1> QED BY <1>1, <1>3, OpSays

\* EXCHANGE_ID.
LEMMA OnesPart ==
    ASSUME NEW n \in {12, 34}
    PROVE  Part("string", String([i \in 1 .. n |-> 1]), [i \in 1 .. n |-> 1])
<1> DEFINE s == [i \in 1 .. n |-> 1]
<1>1. s \in Name /\ Len(s) = n
  BY OnesType
<1> HIDE DEF s
<1>2. Len(s) < W - 3
  BY <1>1, WIs
<1>3. Part("string", String(s), s)
  BY <1>1, <1>2, StringPart
<1> QED BY <1>3 DEF s

LEMMA ExchangeReads == OpReads(ExchangeId, <<Op.EXCHANGE_ID, SaidClient>>)
<1> DEFINE a == Verifier
           o == CoOwner
           b == String(o)
           p == [i \in 1 .. 12 |-> 1]
           x == String(p)
           q == [i \in 1 .. 34 |-> 1]
           y == String(q)
           e == Be32(0)
           z == <<0>>
           g == Be32(1)
           h == <<1>>
           l == Be64(0)
           m == <<0, 0>>
           word == "u32"
           long == "u64"
           text == "string"
           kinds == <<long, text, word, word, word, text, text, long, word>>
           us == <<a, b, e, e, g, x, y, l, e>>
           vs == <<a, o, z, z, h, p, q, m, z>>
<1>1. Part(long, a, a)
  <2>1. a \in Seq(Nat) /\ Len(a) = 2
    BY DEF Verifier
  <2> HIDE DEF a
  <2> QED BY <2>1, PlainPart
<1>2. Part(text, b, o)
  <2>1. o \in Name /\ Len(o) = 16
    BY NamesType DEF CoOwner
  <2> HIDE DEF o
  <2>2. Len(o) < W - 3
    BY <2>1, WIs
  <2> QED BY <2>1, <2>2, StringPart
<1>3. Part(text, x, p) /\ Part(text, y, q)
  BY OnesPart
<1>4. Part(word, e, z) /\ Part(word, g, h)
  BY WordPart
<1>5. Part(long, l, m)
  <2>1. l = m
    <3>1. 0 \div W = 0 /\ 0 % W = 0
      BY WIs
    <3> QED BY <3>1 DEF Be64
  <2>2. m \in Seq(Nat) /\ Len(m) = 2
    OBVIOUS
  <2> HIDE DEF l, m
  <2> QED BY <2>1, <2>2, PlainPart
<1> HIDE DEF a, b, o, p, x, q, y, e, z, g, h, l, m, word, long, text
<1>6. Len(kinds) = 9 /\ Len(us) = 9 /\ Len(vs) = 9
  OBVIOUS
<1>7. kinds \in Seq(Kind) /\ us \in Seq(Seq(Nat)) /\ vs \in Seq(Seq(Nat))
  BY <1>1, <1>2, <1>3, <1>4, <1>5 DEF Part
<1>8. \A i \in 1 .. 9 : Part(kinds[i], us[i], vs[i])
  BY <1>1, <1>2, <1>3, <1>4, <1>5
<1>9. Grammar(Op.EXCHANGE_ID) = kinds /\ Op.EXCHANGE_ID \in Nat
  BY GrammarIs, OpIs DEF word, long, text
<1>10. ExchangeId = <<Op.EXCHANGE_ID, us>> /\ SaidClient = vs
  BY DEF ExchangeId, SaidClient, a, b, o, p, x, q, y, e, z, g, h, l, m
<1> HIDE DEF kinds, us, vs
<1>11. Reading(kinds, us, vs)
  BY <1>6, <1>7, <1>8, PartsRead
<1> QED BY <1>9, <1>10, <1>11, OpSays

LEMMA CreateReads ==
    ASSUME NEW k \in Client, c \in Client, k.clientid = srv.clientid,
           k.serverSequence = srv.seqid, k.maxreq = c.maxreq, k.maxresp = c.maxresp,
           k.maxops = c.maxops, k.maxreqs = c.maxreqs
    PROVE  OpReads(CreateSession(k), <<Op.CREATE_SESSION, SaidSession>>)
<1> DEFINE d == k.clientid
           n == k.serverSequence
           kinds == <<"u64", "u32", "u32">>
           us == <<d, Be32(n), Be32(1)>>
           vs == <<d, <<n>>, <<1>>>>
           channel == <<<<0>>, <<c.maxreq>>, <<c.maxresp>>, <<1048576>>, <<c.maxops>>,
                        <<c.maxreqs>>, <<0>>>>
           at == ChannelAttrs(k)
           last == <<"u32", "u32", "u32">>
           x == <<Be32(123), Be32(1), Be32(0)>>
           y == <<<<123>>, <<1>>, <<0>>>>
<1>1. Reading(kinds, us, vs)
  <2> DEFINE two == 2
             b == Be32(n)
             o == <<n>>
             e == Be32(1)
             z == <<1>>
  <2>1. d \in Seq(Nat) /\ Len(d) = 2 /\ n \in Nat
    <3>1. d \in [1 .. two -> Nat] /\ two \in Nat /\ n \in Nat
      BY DEF Client
    <3> HIDE DEF two, d
    <3>2. d \in Seq(Nat) /\ Len(d) = two
      BY <3>1, FunctionIs
    <3> QED BY <3>1, <3>2 DEF two
  <2> HIDE DEF d, n
  <2>2. Part("u64", d, d) /\ Part("u32", b, o) /\ Part("u32", e, z)
    BY <2>1, PlainPart, WordPart
  <2> HIDE DEF b, o, e, z
  <2>3. Reading(<<"u64", "u32", "u32">>, <<d, b, e>>, <<d, o, z>>)
    BY <2>2, ThreeParts
  <2> QED BY <2>3 DEF b, o, e, z
<1>2. Reading(ChannelFields, at, channel)
  BY ChannelReads
<1>3. Reading(last, x, y)
  <2>1. Part("u32", Be32(123), <<123>>) /\ Part("u32", Be32(1), <<1>>) /\ Part("u32", Be32(0), <<0>>)
    BY WordPart
  <2> QED BY <2>1, ThreeParts
<1>4. CreateSession(k) = <<Op.CREATE_SESSION, us \o at \o at \o x>>
  BY DEF CreateSession
<1>5. SaidSession = vs \o channel \o channel \o y
  BY DEF SaidSession
<1>6. /\ Grammar(Op.CREATE_SESSION) = kinds \o ChannelFields \o ChannelFields \o last
      /\ Op.CREATE_SESSION \in Nat
  BY GrammarIs, OpIs
<1> HIDE DEF kinds, us, vs, channel, at, last, x, y
<1>7. Reading(kinds \o ChannelFields, us \o at, vs \o channel)
  BY <1>1, <1>2, ReadingConcat
<1>8. Reading(kinds \o ChannelFields \o ChannelFields, us \o at \o at, vs \o channel \o channel)
  BY <1>2, <1>7, ReadingConcat
<1>9. Reading(kinds \o ChannelFields \o ChannelFields \o last, us \o at \o at \o x,
              vs \o channel \o channel \o y)
  BY <1>3, <1>8, ReadingConcat
<1> QED BY <1>4, <1>5, <1>6, <1>9, OpSays

\* OPEN: who creates a file says how in seven words, pushed one by one.
LEMMA WordsFlatten ==
    ASSUME NEW s \in Seq(Nat)
    PROVE  /\ [i \in 1 .. Len(s) |-> <<s[i]>>] \in Seq(Seq(Nat))
           /\ FlattenSeq([i \in 1 .. Len(s) |-> <<s[i]>>]) = s
<1> DEFINE n == Len(s)
           t == [i \in 1 .. n |-> <<s[i]>>]
           h == [i \in 0 .. n |-> SubSeq(s, 1, i)]
<1>1. n \in Nat /\ \A i \in 1 .. n : s[i] \in Nat
  OBVIOUS
<1>2. \A i \in 1 .. n : t[i] = <<s[i]>> /\ t[i] \in Seq(Nat)
  BY <1>1
<1>3. t \in Seq(Seq(Nat)) /\ Len(t) = n
  BY <1>1, <1>2
<1>4. h[0] = <<>> /\ h[n] = s
  <2>1. SubSeq(s, 1, 0) = <<>>
    BY FrontIs
  <2>2. SubSeq(s, 1, n) = s
    <3>1. /\ SubSeq(s, 1, n) \in Seq(Nat) /\ Len(SubSeq(s, 1, n)) = n
          /\ \A i \in 1 .. n : SubSeq(s, 1, n)[i] = s[i]
      BY <1>1, FrontIs
    <3> DEFINE u == SubSeq(s, 1, n)
    <3> HIDE DEF u
    <3>2. u \in Seq(Nat) /\ Len(u) = Len(s) /\ \A i \in 1 .. Len(u) : u[i] = s[i]
      BY <3>1 DEF u
    <3>3. u = s
      BY <3>2, SameSeq
    <3> QED BY <3>3 DEF u
  <2>3. 0 \in 0 .. n /\ n \in 0 .. n
    BY <1>1
  <2> QED BY <2>1, <2>2, <2>3
<1>5. ASSUME NEW i \in 1 .. n PROVE h[i] = h[i - 1] \o t[i]
  <2> DEFINE j == i - 1
  <2>1. j \in Nat /\ j < Len(s) /\ j + 1 = i /\ j \in 0 .. n /\ i \in 0 .. n
    BY <1>1
  <2>2. h[i] = SubSeq(s, 1, i) /\ h[j] = SubSeq(s, 1, j)
    BY <2>1
  <2> HIDE DEF j
  <2>3. SubSeq(s, 1, j + 1) = SubSeq(s, 1, j) \o <<s[j + 1]>>
    BY <2>1, FrontGrows
  <2>4. h[i] = h[j] \o t[i]
    BY <1>2, <2>1, <2>2, <2>3
  <2> QED BY <2>4 DEF j
<1> HIDE DEF h, t
<1>6. Joins(h, t)
  <2>1. \A i \in 1 .. Len(t) : h[i] = h[i - 1] \o t[i]
    BY <1>3, <1>5
  <2> QED BY <1>4, <2>1 DEF Joins
<1>7. FlattenSeq(t) = s
  BY <1>3, <1>4, <1>6, FlattenJoins
<1> QED BY <1>3, <1>7 DEF t, n

HowPushed(create) ==
    IF create THEN <<Be32(1), Be32(0), Be32(2), Be32(0), Be32(2), Be32(4), Be32(420)>>
    ELSE <<Be32(0)>>
HowSaid(create) == IF create THEN <<1, 0, 2, 0, 2, 4, 420>> ELSE <<0>>

LEMMA HowIs ==
    ASSUME NEW create \in BOOLEAN
    PROVE  /\ HowPushed(create) \in Seq(Seq(Nat))
           /\ FlattenSeq(HowPushed(create)) = HowSaid(create)
           /\ Part("how", HowSaid(create), HowSaid(create))
<1> DEFINE q == IF create
                THEN <<Be32(1), Be32(0), Be32(2), Be32(0), Be32(2), Be32(4), Be32(420)>>
                ELSE <<Be32(0)>>
           how == IF create THEN <<1, 0, 2, 0, 2, 4, 420>> ELSE <<0>>
           t == [i \in 1 .. Len(how) |-> <<how[i]>>]
<1>1. how \in {<<0>>, <<1, 0, 2, 0, 2, 4, 420>>}
  OBVIOUS
<1>2. how \in Seq(Nat)
  OBVIOUS
<1>3. q = t
  <2>1. CASE create
    <3> DEFINE w == <<1, 0, 2, 0, 2, 4, 420>>
               s == <<<<1>>, <<0>>, <<2>>, <<0>>, <<2>>, <<4>>, <<420>>>>
    <3>1. q = s /\ how = w
      BY <2>1 DEF Be32
    <3>2. Len(w) = 7
      OBVIOUS
    <3>3. \A i \in 1 .. 7 : s[i] = <<w[i]>>
      OBVIOUS
    <3>4. s = [i \in 1 .. 7 |-> s[i]]
      OBVIOUS
    <3> HIDE DEF s, w, how, q
    <3>5. [i \in 1 .. 7 |-> s[i]] = [i \in 1 .. 7 |-> <<w[i]>>]
      BY <3>3
    <3> QED BY <3>1, <3>2, <3>4, <3>5
  <2>2. CASE ~create
    <3> DEFINE w == <<0>>
               s == <<<<0>>>>
    <3>1. q = s /\ how = w
      BY <2>2 DEF Be32
    <3>2. Len(w) = 1
      OBVIOUS
    <3>3. \A i \in 1 .. 1 : s[i] = <<w[i]>>
      OBVIOUS
    <3>4. s = [i \in 1 .. 1 |-> s[i]]
      OBVIOUS
    <3> HIDE DEF s, w, how, q
    <3>5. [i \in 1 .. 1 |-> s[i]] = [i \in 1 .. 1 |-> <<w[i]>>]
      BY <3>3
    <3> QED BY <3>1, <3>2, <3>4, <3>5
  <2> QED BY <2>1, <2>2
<1> HIDE DEF q, how
<1>4. t \in Seq(Seq(Nat)) /\ FlattenSeq(t) = how
  BY <1>2, WordsFlatten
<1> HIDE DEF t
<1>5. Part("how", how, how)
  <2>1. Item("how", how, how)
    BY <1>1, HowItem
  <2>2. "how" \in Kind
    BY DEF Kind
  <2> QED BY <1>2, <2>1, <2>2 DEF Part
<1> QED BY <1>3, <1>4, <1>5 DEF q, how, HowPushed, HowSaid

LEMMA IsConcat ==
    ASSUME NEW S, NEW p \in Seq(S), NEW q \in Seq(S), NEW r \in Seq(S),
           Len(r) = Len(p) + Len(q), \A n \in 1 .. Len(p) : r[n] = p[n],
           \A n \in 1 .. Len(q) : r[Len(p) + n] = q[n]
    PROVE  p \o q = r
OBVIOUS

LEMMA OneTwo ==
    ASSUME NEW S, NEW a \in S, NEW b \in S, NEW e \in S
    PROVE  <<a>> \o <<b, e>> = <<a, b, e>>
<1> DEFINE p == <<a>>
           q == <<b, e>>
           r == <<a, b, e>>
<1>1. p \in Seq(S) /\ q \in Seq(S) /\ r \in Seq(S)
  OBVIOUS
<1>2. /\ Len(p) = 1 /\ p[1] = a /\ Len(q) = 2 /\ q[1] = b /\ q[2] = e
      /\ Len(r) = 3 /\ r[1] = a /\ r[2] = b /\ r[3] = e
  OBVIOUS
<1> HIDE DEF p, q, r
<1>3. Len(r) = Len(p) + Len(q)
  BY <1>2
<1>4. \A n \in 1 .. Len(p) : r[n] = p[n]
  BY <1>2
<1>5. \A n \in 1 .. Len(q) : r[Len(p) + n] = q[n]
  BY <1>2
<1>6. p \o q = r
  BY <1>1, <1>3, <1>4, <1>5, IsConcat
<1> QED BY <1>6 DEF p, q, r

LEMMA OpenReads ==
    ASSUME NEW k \in Client, k.clientid = srv.clientid, NEW x, x.access \in Nat,
           x.create \in BOOLEAN, NEW name \in Name, Len(name) < W - 3,
           Last(Names(x.path)) = name
    PROVE  OpReads(<<Op.OPEN, OpenArgs(k, name, x.access, x.create)>>, <<Op.OPEN, SaidOpen(x)>>)
<1> DEFINE n == x.access
           zero == Be32(0)
           z == <<0>>
           b == Be32(n)
           o == <<n>>
           text == String(name)
           q == HowPushed(x.create)
           how == HowSaid(x.create)
           kinds == <<"u32", "u32", "u32">>
           us == <<zero, b, zero>>
           vs == <<z, o, z>>
           t == <<zero, text>>
           owner == Owner(k)
           said == SaidOwner
<1>1. q \in Seq(Seq(Nat)) /\ FlattenSeq(q) = how /\ Part("how", how, how)
  BY HowIs
<1>2. Part("u32", zero, z) /\ Part("u32", b, o)
  BY WordPart
<1>3. Part("string", text, name)
  BY StringPart
<1>4. Reading(OwnerFields, owner, said)
  BY OwnerReads
<1>5. OpenArgs(k, name, x.access, x.create) = us \o owner \o q \o t
  BY DEF OpenArgs, HowPushed
<1>6. SaidOpen(x) = vs \o said \o <<how, z, name>>
  BY DEF SaidOpen, HowSaid
<1>7. Grammar(Op.OPEN) = kinds \o OwnerFields \o <<"how", "u32", "string">> /\ Op.OPEN \in Nat
  BY GrammarIs, OpIs
<1> HIDE DEF n, zero, z, b, o, text, q, how, owner, said
<1>8. Reading(kinds, us, vs)
  BY <1>2, ThreeParts
<1>9. Reading(<<"how", "u32", "string">>, <<how, zero, text>>, <<how, z, name>>)
  BY <1>1, <1>2, <1>3, ThreeParts
<1>10. how \in Seq(Nat) /\ zero \in Seq(Nat) /\ text \in Seq(Nat) /\ t \in Seq(Seq(Nat))
  BY <1>1, <1>2, <1>3 DEF Part
<1>11. <<how>> \o t = <<how, zero, text>>
  BY <1>10, OneTwo
<1> DEFINE p == us \o owner
           xs == p \o <<how, zero, text>>
           ys == vs \o said \o <<how, z, name>>
           ks == kinds \o OwnerFields \o <<"how", "u32", "string">>
<1>12. Reading(kinds \o OwnerFields, p, vs \o said)
  BY <1>4, <1>8, ReadingConcat
<1>13. Reading(ks, xs, ys)
  BY <1>9, <1>12, ReadingConcat
<1>14. p \in Seq(Seq(Nat))
  BY <1>12 DEF Reading
<1> HIDE DEF us, vs, kinds, p, t
<1>15. FlattenSeq(xs) = FlattenSeq(p \o q \o t) /\ p \o q \o t \in Seq(Seq(Nat))
  <2> DEFINE one == <<how>>
  <2>1. one \in Seq(Seq(Nat)) /\ FlattenSeq(one) = how
    BY <1>10, FlattenFew
  <2> HIDE DEF one
  <2>2. xs = p \o (one \o t)
    BY <1>11 DEF one
  <2>3. one \o t \in Seq(Seq(Nat)) /\ FlattenSeq(one \o t) = FlattenSeq(one) \o FlattenSeq(t)
    BY <1>10, <2>1, FlattenConcat
  <2> DEFINE r == one \o t
             s == p \o q
  <2>4. FlattenSeq(p \o r) = FlattenSeq(p) \o FlattenSeq(r)
    <3>1. r \in Seq(Seq(Nat))
      BY <2>3
    <3> HIDE DEF r
    <3> QED BY <1>14, <3>1, FlattenConcat
  <2>5. s \in Seq(Seq(Nat)) /\ FlattenSeq(s) = FlattenSeq(p) \o FlattenSeq(q)
    BY <1>1, <1>14, FlattenConcat
  <2> HIDE DEF s
  <2>6. s \o t \in Seq(Seq(Nat)) /\ FlattenSeq(s \o t) = FlattenSeq(s) \o FlattenSeq(t)
    BY <1>10, <2>5, FlattenConcat
  <2>7. /\ FlattenSeq(p) \in Seq(Nat) /\ FlattenSeq(q) \in Seq(Nat) /\ FlattenSeq(t) \in Seq(Nat)
    BY <1>1, <1>10, <1>14, FlattenType
  <2> DEFINE u == FlattenSeq(p)
             v == FlattenSeq(q)
             w == FlattenSeq(t)
  <2>8. FlattenSeq(xs) = u \o (v \o w)
    BY <1>1, <2>1, <2>2, <2>3, <2>4
  <2>9. FlattenSeq(s \o t) = (u \o v) \o w
    BY <2>5, <2>6
  <2>10. (u \o v) \o w = u \o (v \o w)
    <3>1. u \in Seq(Nat) /\ v \in Seq(Nat) /\ w \in Seq(Nat)
      BY <2>7
    <3> HIDE DEF u, v, w
    <3> QED BY <3>1, WordsAssoc
  <2> QED BY <2>6, <2>8, <2>9, <2>10 DEF s
<1>16. xs \in Seq(Seq(Nat)) /\ ys \in Seq(Seq(Nat))
  BY <1>13 DEF Reading
<1> HIDE DEF xs, ys
<1> DEFINE args == p \o q \o t
<1>17. Reads(ks, args, ys)
  BY <1>13, <1>15, <1>16 DEF Reads
<1>18. args \in Seq(Seq(Nat))
  BY <1>15
<1>19. OpenArgs(k, name, x.access, x.create) = args /\ SaidOpen(x) = ys
  BY <1>5, <1>6 DEF p, ys
<1> HIDE DEF args, ks
<1>20. <<Op.OPEN, args>> \in Operation /\ <<Op.OPEN, ys>> \in Operation
  BY <1>7, <1>16, <1>18, OperationIs
<1>21. Grammar(Op.OPEN) = ks
  BY <1>7 DEF ks, kinds
<1> DEFINE op == Op.OPEN
<1>22. Grammar(op) = ks /\ <<op, args>> \in Operation /\ <<op, ys>> \in Operation
  BY <1>20, <1>21
<1> HIDE DEF op
<1>23. OpReads(<<op, args>>, <<op, ys>>)
  BY <1>17, <1>22 DEF OpReads
<1> QED BY <1>19, <1>23 DEF op

\* READ and WRITE.
LEMMA LongPart ==
    ASSUME NEW n \in Nat
    PROVE  Part("u64", Be64(n), Be64(n))
<1> DEFINE l == Be64(n)
<1>1. l \in Seq(Nat) /\ Len(l) = 2
  BY Be64Type
<1> HIDE DEF l
<1>2. Part("u64", l, l)
  BY <1>1, PlainPart
<1> QED BY <1>2 DEF l

LEMMA ReadReads ==
    ASSUME NEW s \in Four, NEW n \in Nat, NEW m \in Nat
    PROVE  OpReads(<<Op.READ, Stateid(s) \o <<Be64(n), Be32(m)>>>>,
                   <<Op.READ, SaidId(s) \o <<Be64(n), <<m>>>>>>)
<1> DEFINE us == Stateid(s)
           vs == SaidId(s)
           kinds == <<"u64", "u32">>
           xs == <<Be64(n), Be32(m)>>
           ys == <<Be64(n), <<m>>>>
<1>1. Reading(StateidFields, us, vs)
  BY StateidReads
<1>2. Part("u64", Be64(n), Be64(n)) /\ Part("u32", Be32(m), <<m>>)
  BY LongPart, WordPart
<1>3. Reading(kinds, xs, ys)
  BY <1>2, TwoParts
<1>4. Grammar(Op.READ) = StateidFields \o kinds /\ Op.READ \in Nat
  BY GrammarIs, OpIs
<1> HIDE DEF us, vs, kinds, xs, ys
<1>5. Reading(StateidFields \o kinds, us \o xs, vs \o ys)
  BY <1>1, <1>3, ReadingConcat
<1>6. OpReads(<<Op.READ, us \o xs>>, <<Op.READ, vs \o ys>>)
  BY <1>4, <1>5, OpSays
<1> QED BY <1>6 DEF us, vs, xs, ys

LEMMA WriteReads ==
    ASSUME NEW s \in Four, NEW n \in Nat, NEW data \in Name, Len(data) < W - 3
    PROVE  OpReads(<<Op.WRITE, Stateid(s) \o <<Be64(n), Be32(2), String(data)>>>>,
                   <<Op.WRITE, SaidId(s) \o <<Be64(n), <<2>>, data>>>>)
<1> DEFINE us == Stateid(s)
           vs == SaidId(s)
           kinds == <<"u64", "u32", "string">>
           xs == <<Be64(n), Be32(2), String(data)>>
           ys == <<Be64(n), <<2>>, data>>
<1>1. Reading(StateidFields, us, vs)
  BY StateidReads
<1>2. /\ Part("u64", Be64(n), Be64(n)) /\ Part("u32", Be32(2), <<2>>)
      /\ Part("string", String(data), data)
  BY LongPart, WordPart, StringPart
<1>3. Reading(kinds, xs, ys)
  BY <1>2, ThreeParts
<1>4. Grammar(Op.WRITE) = StateidFields \o kinds /\ Op.WRITE \in Nat
  BY GrammarIs, OpIs
<1> HIDE DEF us, vs, kinds, xs, ys
<1>5. Reading(StateidFields \o kinds, us \o xs, vs \o ys)
  BY <1>1, <1>3, ReadingConcat
<1>6. OpReads(<<Op.WRITE, us \o xs>>, <<Op.WRITE, vs \o ys>>)
  BY <1>4, <1>5, OpSays
<1> QED BY <1>6 DEF us, vs, xs, ys

\* LOCK and LOCKU.
LEMMA TwoTwoTwo ==
    ASSUME NEW S, NEW a \in S, NEW b \in S, NEW e \in S, NEW g \in S, NEW h \in S, NEW i \in S
    PROVE  <<a, b>> \o <<e, g>> \o <<h, i>> = <<a, b, e, g, h, i>>
<1> DEFINE p == <<a, b>>
           q == <<e, g>>
           r == <<h, i>>
           s == <<a, b, e, g>>
           t == <<a, b, e, g, h, i>>
<1>1. p \in Seq(S) /\ q \in Seq(S) /\ r \in Seq(S) /\ s \in Seq(S) /\ t \in Seq(S)
  OBVIOUS
<1>2. /\ Len(p) = 2 /\ p[1] = a /\ p[2] = b /\ Len(q) = 2 /\ q[1] = e /\ q[2] = g
      /\ Len(r) = 2 /\ r[1] = h /\ r[2] = i
      /\ Len(s) = 4 /\ s[1] = a /\ s[2] = b /\ s[3] = e /\ s[4] = g
      /\ Len(t) = 6 /\ t[1] = a /\ t[2] = b /\ t[3] = e /\ t[4] = g /\ t[5] = h /\ t[6] = i
  OBVIOUS
<1> HIDE DEF p, q, r, s, t
<1>3. p \o q = s
  <2>1. Len(s) = Len(p) + Len(q)
    BY <1>2
  <2>2. \A n \in 1 .. Len(p) : s[n] = p[n]
    BY <1>2
  <2>3. \A n \in 1 .. Len(q) : s[Len(p) + n] = q[n]
    BY <1>2
  <2> QED BY <1>1, <2>1, <2>2, <2>3, IsConcat
<1>4. s \o r = t
  <2>1. Len(t) = Len(s) + Len(r)
    BY <1>2
  <2>2. \A n \in 1 .. Len(s) : t[n] = s[n]
    BY <1>2
  <2>3. \A n \in 1 .. Len(r) : t[Len(s) + n] = r[n]
    BY <1>2
  <2> QED BY <1>1, <2>1, <2>2, <2>3, IsConcat
<1>5. p \o q \o r = t
  BY <1>3, <1>4
<1> QED BY <1>5 DEF p, q, r, t

LEMMA LockReads ==
    ASSUME NEW k \in Client, k.clientid = srv.clientid, NEW x, x.type \in Nat,
           x.offset \in Nat, x.length \in Nat, NEW s \in Four, s = srv.open
    PROVE  OpReads(<<Op.LOCK, <<Be32(x.type), Be32(0), Be64(x.offset), Be64(x.length),
                                Be32(1), Be32(0)>> \o Stateid(s) \o <<Be32(0)>> \o Owner(k)>>,
                   <<Op.LOCK, SaidLock(x)>>)
<1> DEFINE a == Be32(x.type)
           b == <<x.type>>
           e == Be32(0)
           z == <<0>>
           g == Be32(1)
           h == <<1>>
           i == Be64(x.offset)
           j == Be64(x.length)
           word == "u32"
           long == "u64"
           kinds == <<word, word, long, long, word, word>>
           us == <<a, e, i, j, g, e>>
           vs == <<b, z, i, j, h, z>>
           id == Stateid(s)
           sid == SaidId(s)
           owner == Owner(k)
           said == SaidOwner
           oneKind == <<word>>
           one == <<e>>
           ones == <<z>>
<1>1. Part(word, a, b) /\ Part(word, e, z) /\ Part(word, g, h)
  BY WordPart
<1>2. Part(long, i, i) /\ Part(long, j, j)
  BY LongPart
<1>3. Reading(StateidFields, id, sid)
  BY StateidReads
<1>4. Reading(OwnerFields, owner, said)
  BY OwnerReads
<1>5. /\ Grammar(Op.LOCK) = kinds \o StateidFields \o oneKind \o OwnerFields /\ Op.LOCK \in Nat
  BY GrammarIs, OpIs
<1>6. SaidLock(x) = <<b, z>> \o <<i, j>> \o <<h, z>> \o sid \o ones \o said
  BY DEF SaidLock, SaidRange
<1>7. <<Be32(x.type), Be32(0), Be64(x.offset), Be64(x.length), Be32(1), Be32(0)>> = us
  OBVIOUS
<1> HIDE DEF a, b, e, z, g, h, i, j, word, long, id, sid, owner, said
<1>8. Len(kinds) = 6 /\ Len(us) = 6 /\ Len(vs) = 6
  OBVIOUS
<1>9. kinds \in Seq(Kind) /\ us \in Seq(Seq(Nat)) /\ vs \in Seq(Seq(Nat))
  BY <1>1, <1>2 DEF Part
<1>10. \A n \in 1 .. 6 : Part(kinds[n], us[n], vs[n])
  BY <1>1, <1>2
<1>11. <<b, z>> \o <<i, j>> \o <<h, z>> = vs
  <2>1. b \in Seq(Nat) /\ z \in Seq(Nat) /\ i \in Seq(Nat) /\ j \in Seq(Nat) /\ h \in Seq(Nat)
    BY <1>1, <1>2 DEF Part
  <2> QED BY <2>1, TwoTwoTwo
<1>12. Reading(oneKind, one, ones)
  BY <1>1, OnePart
<1> HIDE DEF kinds, us, vs, oneKind, one, ones
<1>13. Reading(kinds, us, vs)
  BY <1>8, <1>9, <1>10, PartsRead
<1>14. Reading(kinds \o StateidFields, us \o id, vs \o sid)
  BY <1>3, <1>13, ReadingConcat
<1>15. Reading(kinds \o StateidFields \o oneKind, us \o id \o one, vs \o sid \o ones)
  BY <1>12, <1>14, ReadingConcat
<1>16. Reading(kinds \o StateidFields \o oneKind \o OwnerFields, us \o id \o one \o owner,
               vs \o sid \o ones \o said)
  BY <1>4, <1>15, ReadingConcat
<1>17. OpReads(<<Op.LOCK, us \o id \o one \o owner>>, <<Op.LOCK, vs \o sid \o ones \o said>>)
  BY <1>5, <1>16, OpSays
<1>18. SaidLock(x) = vs \o sid \o ones \o said
  BY <1>6, <1>11
<1> QED BY <1>7, <1>17, <1>18 DEF id, owner, one, e

LEMMA LockuReads ==
    ASSUME NEW x, x.type \in Nat, x.offset \in Nat, x.length \in Nat, NEW s \in Four
    PROVE  OpReads(<<Op.LOCKU, <<Be32(x.type), Be32(0)>> \o Stateid(s)
                               \o <<Be64(x.offset), Be64(x.length)>>>>,
                   <<Op.LOCKU, <<<<x.type>>, <<0>>>> \o SaidId(s) \o SaidRange(x)>>)
<1> DEFINE kinds == <<"u32", "u32">>
           us == <<Be32(x.type), Be32(0)>>
           vs == <<<<x.type>>, <<0>>>>
           id == Stateid(s)
           sid == SaidId(s)
           longs == <<"u64", "u64">>
           xs == <<Be64(x.offset), Be64(x.length)>>
           ys == SaidRange(x)
<1>1. Part("u32", Be32(x.type), <<x.type>>) /\ Part("u32", Be32(0), <<0>>)
  BY WordPart
<1>2. Part("u64", Be64(x.offset), Be64(x.offset)) /\ Part("u64", Be64(x.length), Be64(x.length))
  BY LongPart
<1>3. Reading(kinds, us, vs)
  BY <1>1, TwoParts
<1>4. Reading(longs, xs, ys)
  BY <1>2, TwoParts DEF SaidRange
<1>5. Reading(StateidFields, id, sid)
  BY StateidReads
<1>6. Grammar(Op.LOCKU) = kinds \o StateidFields \o longs /\ Op.LOCKU \in Nat
  BY GrammarIs, OpIs
<1> HIDE DEF kinds, us, vs, id, sid, longs, xs, ys
<1>7. Reading(kinds \o StateidFields, us \o id, vs \o sid)
  BY <1>3, <1>5, ReadingConcat
<1>8. Reading(kinds \o StateidFields \o longs, us \o id \o xs, vs \o sid \o ys)
  BY <1>4, <1>7, ReadingConcat
<1>9. OpReads(<<Op.LOCKU, us \o id \o xs>>, <<Op.LOCKU, vs \o sid \o ys>>)
  BY <1>6, <1>8, OpSays
<1> QED BY <1>9 DEF us, vs, id, sid, xs, ys

\* Operations behind one another.
LEMMA AllConcat ==
    ASSUME NEW ops, NEW ms, ReadsAll(ops, ms), NEW others, NEW more, ReadsAll(others, more)
    PROVE  ReadsAll(ops \o others, ms \o more)
<1> DEFINE n == Len(ops)
           k == Len(others)
           s == ops \o others
           t == ms \o more
<1>1. /\ ops \in Seq(Operation) /\ ms \in Seq(Operation) /\ Len(ms) = n /\ n \in Nat
      /\ \A i \in 1 .. n : OpReads(ops[i], ms[i])
  BY DEF ReadsAll
<1>2. /\ others \in Seq(Operation) /\ more \in Seq(Operation) /\ Len(more) = k /\ k \in Nat
      /\ \A i \in 1 .. k : OpReads(others[i], more[i])
  BY DEF ReadsAll
<1>3. /\ s \in Seq(Operation) /\ Len(s) = n + k
      /\ \A i \in 1 .. n : s[i] = ops[i]
      /\ \A i \in 1 .. k : s[n + i] = others[i]
  <2>1. ops \in Seq(Operation) /\ others \in Seq(Operation)
    BY <1>1, <1>2
  <2> QED BY <2>1, ConcatIs
<1>4. /\ t \in Seq(Operation) /\ Len(t) = Len(ms) + Len(more)
      /\ \A i \in 1 .. Len(ms) : t[i] = ms[i]
      /\ \A i \in 1 .. Len(more) : t[Len(ms) + i] = more[i]
  <2>1. ms \in Seq(Operation) /\ more \in Seq(Operation)
    BY <1>1, <1>2
  <2> QED BY <2>1, ConcatIs
<1> HIDE DEF n, k, s, t
<1>5. ASSUME NEW i \in 1 .. n + k PROVE OpReads(s[i], t[i])
  <2>1. CASE i <= n
    <3>1. i \in 1 .. n
      BY <1>1, <1>2, <2>1
    <3>2. s[i] = ops[i] /\ t[i] = ms[i]
      BY <1>1, <1>3, <1>4, <3>1
    <3> QED BY <1>1, <3>1, <3>2
  <2>2. CASE i > n
    <3> DEFINE j == i - n
    <3>1. j \in 1 .. k /\ n + j = i
      BY <1>1, <1>2, <2>2
    <3> HIDE DEF j
    <3>2. s[n + j] = others[j]
      BY <1>3, <3>1
    <3>3. t[n + j] = more[j]
      BY <1>1, <1>2, <1>4, <3>1
    <3> QED BY <1>2, <3>1, <3>2, <3>3
  <2>3. i <= n \/ i > n
    BY <1>1, <1>2
  <2> QED BY <2>1, <2>2, <2>3
<1>6. Len(t) = Len(s)
  BY <1>1, <1>2, <1>3, <1>4
<1>7. ReadsAll(s, t)
  BY <1>3, <1>4, <1>5, <1>6 DEF ReadsAll
<1> QED BY <1>7 DEF s, t

LEMMA AllFew ==
    /\ \A op, m : OpReads(op, m) => ReadsAll(<<op>>, <<m>>)
    /\ \A op, m, other, more :
          OpReads(op, m) /\ OpReads(other, more) => ReadsAll(<<op, other>>, <<m, more>>)
    /\ \A op, m, other, more, third, most :
          OpReads(op, m) /\ OpReads(other, more) /\ OpReads(third, most) =>
              ReadsAll(<<op, other, third>>, <<m, more, most>>)
<1>1. ASSUME NEW op, NEW m, OpReads(op, m) PROVE ReadsAll(<<op>>, <<m>>)
  <2>1. op \in Operation /\ m \in Operation
    BY <1>1 DEF OpReads
  <2>2. <<op>> \in Seq(Operation) /\ <<m>> \in Seq(Operation)
    BY <2>1
  <2>3. \A i \in 1 .. 1 : OpReads(<<op>>[i], <<m>>[i])
    BY <1>1
  <2>4. Len(<<op>>) = 1 /\ Len(<<m>>) = 1
    OBVIOUS
  <2> DEFINE s == <<op>>
             t == <<m>>
  <2>5. /\ s \in Seq(Operation) /\ t \in Seq(Operation) /\ Len(s) = 1 /\ Len(t) = 1
        /\ \A i \in 1 .. 1 : OpReads(s[i], t[i])
    BY <2>2, <2>3, <2>4
  <2> HIDE DEF s, t
  <2>6. ReadsAll(s, t)
    BY <2>5 DEF ReadsAll
  <2> QED BY <2>6 DEF s, t
<1>2. ASSUME NEW op, NEW m, NEW other, NEW more, OpReads(op, m), OpReads(other, more)
      PROVE  ReadsAll(<<op, other>>, <<m, more>>)
  <2> DEFINE s == <<op, other>>
             t == <<m, more>>
  <2>1. op \in Operation /\ m \in Operation /\ other \in Operation /\ more \in Operation
    BY <1>2 DEF OpReads
  <2>2. s \in Seq(Operation) /\ t \in Seq(Operation)
    BY <2>1
  <2>3. Len(s) = 2 /\ Len(t) = 2
    OBVIOUS
  <2>4. \A i \in 1 .. 2 : OpReads(s[i], t[i])
    BY <1>2
  <2> HIDE DEF s, t
  <2>5. ReadsAll(s, t)
    BY <2>2, <2>3, <2>4 DEF ReadsAll
  <2> QED BY <2>5 DEF s, t
<1>3. ASSUME NEW op, NEW m, NEW other, NEW more, NEW third, NEW most, OpReads(op, m),
             OpReads(other, more), OpReads(third, most)
      PROVE  ReadsAll(<<op, other, third>>, <<m, more, most>>)
  <2> DEFINE s == <<op, other, third>>
             t == <<m, more, most>>
  <2>1. /\ op \in Operation /\ m \in Operation /\ other \in Operation /\ more \in Operation
        /\ third \in Operation /\ most \in Operation
    BY <1>3 DEF OpReads
  <2>2. s \in Seq(Operation) /\ t \in Seq(Operation)
    BY <2>1
  <2>3. Len(s) = 3 /\ Len(t) = 3
    OBVIOUS
  <2>4. \A i \in 1 .. 3 : OpReads(s[i], t[i])
    BY <1>3
  <2> HIDE DEF s, t
  <2>5. ReadsAll(s, t)
    BY <2>2, <2>3, <2>4 DEF ReadsAll
  <2> QED BY <2>5 DEF s, t
<1> QED BY <1>1, <1>2, <1>3

LEMMA WalkReads ==
    ASSUME NEW path \in Seq(Name), \A i \in 1 .. Len(path) : Len(path[i]) < W - 3
    PROVE  ReadsAll(Lookups(path), Walk(path))
<1> DEFINE n == Len(path)
           s == Lookups(path)
           t == Walk(path)
<1>1. n \in Nat /\ DOMAIN path = 1 .. n /\ \A i \in 1 .. n : path[i] \in Name
  OBVIOUS
<1>2. \A i \in 1 .. n : s[i] = <<Op.LOOKUP, <<String(path[i])>>>> /\ t[i] = <<Op.LOOKUP, <<path[i]>>>>
  BY <1>1 DEF Lookups, Walk
<1>3. ASSUME NEW i \in 1 .. n PROVE OpReads(s[i], t[i])
  <2>1. path[i] \in Name /\ Len(path[i]) < W - 3
    BY <1>1
  <2>2. OpReads(<<Op.LOOKUP, <<String(path[i])>>>>, <<Op.LOOKUP, <<path[i]>>>>)
    BY <2>1, NamedReads
  <2> QED BY <1>2, <2>2
<1>4. s \in [1 .. n -> Operation] /\ t \in [1 .. n -> Operation]
  <2>1. \A i \in 1 .. n : s[i] \in Operation /\ t[i] \in Operation
    BY <1>3 DEF OpReads
  <2>2. s = [i \in 1 .. n |-> s[i]] /\ t = [i \in 1 .. n |-> t[i]]
    BY <1>1 DEF Lookups, Walk
  <2> HIDE DEF s, t
  <2> QED BY <2>1, <2>2
<1> HIDE DEF n, s, t
<1>5. s \in Seq(Operation) /\ t \in Seq(Operation) /\ Len(s) = n /\ Len(t) = n
  BY <1>1, <1>4, FunctionIs
<1>6. ReadsAll(s, t)
  BY <1>3, <1>5 DEF ReadsAll
<1> QED BY <1>6 DEF s, t

\* No name of a path is longer than the path.
LEMMA PartsShort ==
    ASSUME NEW z \in Name
    PROVE  \A j \in 1 .. Len(Split(z)) : Len(Split(z)[j]) <= Len(z)
<1>1. PICK a \in [0 .. Len(z) -> Splitting] :
        /\ Splits(a, z)
        /\ Split(z) = IF a[Len(z)].each = <<>> THEN a[Len(z)].parts
                      ELSE Append(a[Len(z)].parts, a[Len(z)].each)
  BY SplitIs
<1> DEFINE n == Len(z)
           Short(p, i) == Len(p.each) <= i /\ \A j \in 1 .. Len(p.parts) : Len(p.parts[j]) <= i
<1>2. n \in Nat
  OBVIOUS
<1> HIDE DEF n
<1>3. \A i \in 0 .. n : a[i] \in Splitting
  BY <1>1 DEF n
<1>4. Short(a[0], 0)
  <2>1. a[0] = [parts |-> <<>>, each |-> <<>>]
    BY <1>1 DEF Splits
  <2>2. Len(<<>>) = 0 /\ a[0].parts = <<>> /\ a[0].each = <<>>
    BY <2>1
  <2> QED BY <2>2
<1>5. ASSUME NEW i \in 1 .. n, Short(a[i - 1], i - 1) PROVE Short(a[i], i)
  <2> DEFINE p == a[i - 1]
             q == p.parts
             e == p.each
  <2>1. p \in Splitting /\ a[i] \in Splitting
    <3>1. i - 1 \in 0 .. n /\ i \in 0 .. n
      BY <1>2
    <3> QED BY <1>3, <3>1
  <2>2. q \in Seq(Name) /\ e \in Name
    BY <2>1 DEF Splitting
  <2>3. Len(e) <= i - 1 /\ \A j \in 1 .. Len(q) : Len(q[j]) <= i - 1
    BY <1>5
  <2>4. a[i] = SplitStep(p, z[i])
    BY <1>1 DEF Splits, n
  <2>5. \A j \in 1 .. Len(q) : q[j] \in Name /\ Len(q[j]) \in Nat
    <3>1. \A j \in 1 .. Len(q) : q[j] \in Name
      BY <2>2
    <3> QED BY <3>1 DEF Name
  <2>6. Len(e) \in Nat
    BY <2>2 DEF Name
  <2>7. CASE z[i] = Slash
    <3>1. a[i] = [parts |-> Append(q, e), each |-> <<>>]
      BY <2>4, <2>7 DEF SplitStep
    <3> HIDE DEF p, q, e
    <3>2. a[i].parts = Append(q, e) /\ a[i].each = <<>>
      BY <3>1
    <3> DEFINE s == Append(q, e)
    <3>3. Len(s) = Len(q) + 1 /\ Len(q) \in Nat
      BY <2>2
    <3>4. \A j \in 1 .. Len(q) : s[j] = q[j]
      BY <2>2
    <3>5. s[Len(q) + 1] = e
      BY <2>2
    <3> DEFINE m == Len(q)
    <3>6. Len(s) = m + 1 /\ m \in Nat /\ s[m + 1] = e /\ \A j \in 1 .. m : Len(s[j]) <= i - 1 /\ Len(s[j]) \in Nat
      BY <2>3, <2>5, <3>3, <3>4, <3>5
    <3> HIDE DEF s, m
    <3>7. \A j \in 1 .. Len(s) : Len(s[j]) <= i
      <4>1. ASSUME NEW j \in 1 .. Len(s) PROVE Len(s[j]) <= i
        <5>1. CASE j = m + 1
          BY <2>3, <2>6, <3>6, <5>1
        <5>2. CASE j \in 1 .. m
          BY <3>6, <5>2
        <5>3. j = m + 1 \/ j \in 1 .. m
          BY <3>6
        <5> QED BY <5>1, <5>2, <5>3
      <4> QED BY <4>1
    <3>8. Len(<<>>) = 0 /\ 0 <= i
      OBVIOUS
    <3> QED BY <3>2, <3>7, <3>8 DEF s
  <2>8. CASE z[i] # Slash
    <3>1. a[i] = [p EXCEPT !.each = Append(@, z[i])]
      BY <2>4, <2>8 DEF SplitStep
    <3>2. a[i].parts = q /\ a[i].each = Append(e, z[i])
      BY <2>1, <3>1 DEF Splitting
    <3>3. Len(Append(e, z[i])) = Len(e) + 1
      BY <2>2 DEF Name
    <3> HIDE DEF p, q, e
    <3>4. Len(a[i].each) <= i
      BY <2>3, <2>6, <3>2, <3>3
    <3>5. \A j \in 1 .. Len(q) : Len(q[j]) <= i
      BY <2>3, <2>5
    <3> QED BY <3>2, <3>4, <3>5
  <2> QED BY <2>7, <2>8
<1>6. Short(a[n], n)
  <2> DEFINE T == {i \in 0 .. n : Short(a[i], i)}
  <2>1. 0 \in T
    BY <1>2, <1>4
  <2>2. ASSUME NEW i \in 1 .. n, i - 1 \in T PROVE i \in T
    <3>1. Short(a[i - 1], i - 1) /\ i \in 0 .. n
      BY <1>2, <2>2
    <3> HIDE DEF Short
    <3> QED BY <1>5, <3>1
  <2> HIDE DEF T
  <2>3. \A i \in 0 .. n : i \in T
    BY <1>2, <2>1, <2>2, Induction
  <2>4. n \in T
    BY <1>2, <2>3
  <2> QED BY <2>4 DEF T
<1> DEFINE q == a[n].parts
           e == a[n].each
           s == Split(z)
<1>7. /\ q \in Seq(Name) /\ e \in Name /\ Len(e) <= n
      /\ \A j \in 1 .. Len(q) : Len(q[j]) <= n
  <2>1. a[n] \in Splitting
    BY <1>2, <1>3
  <2> QED BY <1>6, <2>1 DEF Splitting
<1>8. s = IF e = <<>> THEN q ELSE Append(q, e)
  BY <1>1 DEF n
<1> HIDE DEF q, e, s
<1>9. \A j \in 1 .. Len(s) : Len(s[j]) <= n
  <2>1. CASE e = <<>>
    BY <1>7, <1>8, <2>1
  <2>2. CASE e # <<>>
    <3> DEFINE m == Len(q)
    <3>1. s = Append(q, e)
      BY <1>8, <2>2
    <3>2. m \in Nat /\ Len(s) = m + 1 /\ s[m + 1] = e /\ \A j \in 1 .. m : s[j] = q[j]
      BY <1>7, <3>1
    <3>3. \A j \in 1 .. m : Len(s[j]) <= n
      BY <1>7, <3>2
    <3> HIDE DEF m
    <3>4. ASSUME NEW j \in 1 .. Len(s) PROVE Len(s[j]) <= n
      <4>1. j = m + 1 \/ j \in 1 .. m
        BY <3>2
      <4> QED BY <1>7, <3>2, <3>3, <4>1
    <3> QED BY <3>4
  <2> QED BY <2>1, <2>2
<1> QED BY <1>9 DEF s, n

LEMMA PathIs ==
    ASSUME NEW z \in Path
    PROVE  /\ Names(z) = PathOf(z)
           /\ ReadsAll(Lookups(PathOf(z)), Walk(PathOf(z)))
           /\ ReadsAll(Lookups(Front(PathOf(z))), Walk(Front(PathOf(z))))
           /\ Last(PathOf(z)) \in Name /\ Len(Last(PathOf(z))) < W - 3
<1> DEFINE s == Split(z)
           p == PathOf(z)
           q == Front(p)
           m == Len(s)
           n == Len(p)
<1>1. z \in Name /\ Len(z) < W - 3
  BY InputAssumption DEF Name
<1>2. s \in Seq(Name) /\ m \in Nat /\ m > 1 /\ p = Tail(s)
  <2>1. s \in Seq(Name)
    BY <1>1, SplitType
  <2>2. m > 1
    BY PathAssumption
  <2> QED BY <2>1, <2>2 DEF PathOf
<1>3. \A j \in 1 .. m : Len(s[j]) < W - 3 /\ s[j] \in Name
  <2>1. ASSUME NEW j \in 1 .. m PROVE Len(s[j]) < W - 3 /\ s[j] \in Name
    <3>1. s[j] \in Name /\ Len(s[j]) <= Len(z)
      <4>1. s[j] \in Name
        BY <1>2
      <4>2. \A i \in 1 .. Len(Split(z)) : Len(Split(z)[i]) <= Len(z)
        BY <1>1, PartsShort
      <4> QED BY <4>1, <4>2
    <3>2. Len(s[j]) \in Nat /\ Len(z) \in Nat
      BY <1>1, <3>1 DEF Name
    <3> QED BY <1>1, <3>1, <3>2, WIs
  <2> QED BY <2>1
<1> HIDE DEF s
<1>4. p \in Seq(Name) /\ n = m - 1 /\ \A j \in 1 .. n : p[j] = s[j + 1]
  <2>1. s # <<>>
    BY <1>2
  <2>2. Tail(s) \in Seq(Name)
    BY <1>2, <2>1
  <2>3. Len(Tail(s)) = m - 1
    BY <1>2, <2>1
  <2>4. \A j \in 1 .. m - 1 : Tail(s)[j] = s[j + 1]
    BY <1>2, <2>1
  <2> QED BY <1>2, <2>2, <2>3, <2>4
<1> HIDE DEF p, m, n
<1>5. \A j \in 1 .. n : Len(p[j]) < W - 3
  <2>1. ASSUME NEW j \in 1 .. n PROVE Len(p[j]) < W - 3
    <3>1. j + 1 \in 1 .. m
      BY <1>2, <1>4
    <3>2. p[j] = s[j + 1]
      BY <1>4
    <3> QED BY <1>3, <3>1, <3>2
  <2> QED BY <2>1
<1>6. ReadsAll(Lookups(p), Walk(p))
  BY <1>4, <1>5, WalkReads DEF n
<1>7. n > 0 /\ n \in Nat
  BY <1>2, <1>4
<1>8. q \in Seq(Name) /\ Len(q) = n - 1 /\ \A j \in 1 .. n - 1 : q[j] = p[j]
  <2> DEFINE l == n - 1
  <2>1. l \in Nat /\ l <= Len(p)
    BY <1>7 DEF n
  <2>2. q = SubSeq(p, 1, l)
    BY DEF Front, n
  <2> HIDE DEF l
  <2>3. q \in Seq(Name) /\ Len(q) = l /\ \A j \in 1 .. l : q[j] = p[j]
    BY <1>4, <2>1, <2>2, FrontIs
  <2> QED BY <2>3 DEF l
<1> HIDE DEF q
<1>9. \A j \in 1 .. Len(q) : Len(q[j]) < W - 3
  <2>1. ASSUME NEW j \in 1 .. Len(q) PROVE Len(q[j]) < W - 3
    <3>1. j \in 1 .. n - 1 /\ j \in 1 .. n
      BY <1>7, <1>8
    <3>2. q[j] = p[j]
      BY <1>8, <3>1
    <3> QED BY <1>5, <3>1, <3>2
  <2> QED BY <2>1
<1>10. ReadsAll(Lookups(q), Walk(q))
  BY <1>8, <1>9, WalkReads
<1>11. Last(p) \in Name /\ Len(Last(p)) < W - 3
  <2>1. Last(p) = p[n] /\ n \in 1 .. n
    BY <1>7 DEF Last, n
  <2>2. p[n] \in Name
    BY <1>4, <2>1 DEF n
  <2> QED BY <1>5, <2>1, <2>2
<1>12. Names(z) = p
  BY <1>1, SplitDivides DEF p
<1> QED BY <1>6, <1>10, <1>11, <1>12 DEF p, q

-----------------------------------------------------------------------------
\* A request means what the client pushes, when client and server agree.
Agrees(k, x) ==
    /\ k \in Client
    /\ x.kind # "exchange_id" => k.clientid = srv.clientid
    /\ x.kind = "create_session" =>
         /\ k.serverSequence = srv.seqid
         /\ k.maxreq = c.maxreq /\ k.maxresp = c.maxresp
         /\ k.maxops = c.maxops /\ k.maxreqs = c.maxreqs
    /\ InSession(x) => k.session = srv.session /\ k.sequence = srv.slot + 1
    /\ x.kind \in {"open", "delete"} => RootHandle(k) = srv.root
    /\ Len(srv.root) < W - 3
    /\ x \in FileCalls => f \in File /\ f = Handed(srv) /\ Len(srv.fh) < W - 3

LEMMA TwoBefore ==
    ASSUME NEW S, NEW a \in S, NEW b \in S, NEW w \in Seq(S)
    PROVE  <<a>> \o (<<b>> \o w) = <<a, b>> \o w
<1> DEFINE p == <<a>>
           q == <<b>>
           r == <<a, b>>
<1>1. p \in Seq(S) /\ q \in Seq(S) /\ r \in Seq(S)
  OBVIOUS
<1>2. p \o q = r
  <2>1. /\ Len(p) = 1 /\ p[1] = a /\ Len(q) = 1 /\ q[1] = b /\ Len(r) = 2 /\ r[1] = a /\ r[2] = b
    OBVIOUS
  <2> HIDE DEF p, q, r
  <2>2. Len(r) = Len(p) + Len(q)
    BY <2>1
  <2>3. \A n \in 1 .. Len(p) : r[n] = p[n]
    BY <2>1
  <2>4. \A n \in 1 .. Len(q) : r[Len(p) + n] = q[n]
    BY <2>1
  <2> QED BY <1>1, <2>2, <2>3, <2>4, IsConcat
<1> HIDE DEF p, q, r
<1>3. (p \o q) \o w = p \o (q \o w)
  BY <1>1, ConcatAssoc
<1>4. p \o (q \o w) = r \o w
  BY <1>2, <1>3
<1> QED BY <1>4 DEF p, q, r

\* From a handle along a path to what the call does there.
LEMMA PathReads ==
    ASSUME NEW op, NEW m, OpReads(op, m), NEW put, NEW handle, OpReads(put, handle),
           NEW path, ReadsAll(Lookups(path), Walk(path)), NEW ops, NEW ms, ReadsAll(ops, ms)
    PROVE  ReadsAll(<<op>> \o (<<put>> \o Lookups(path)) \o ops,
                    <<m, handle>> \o Walk(path) \o ms)
<1> DEFINE s == Lookups(path)
           t == Walk(path)
           a == <<op>>
           b == <<put>>
           e == <<m>>
           g == <<handle>>
           two == <<m, handle>>
<1>1. ReadsAll(a, e) /\ ReadsAll(b, g)
  BY AllFew
<1>2. m \in Operation /\ handle \in Operation /\ t \in Seq(Operation)
  BY DEF OpReads, ReadsAll
<1>3. e \o (g \o t) = two \o t
  BY <1>2, TwoBefore
<1> HIDE DEF s, t, a, b, e, g, two
<1>4. ReadsAll(s, t)
  BY DEF s, t
<1>5. ReadsAll(b \o s, g \o t)
  BY <1>1, <1>4, AllConcat
<1>6. ReadsAll(a \o (b \o s), e \o (g \o t))
  <2> DEFINE x == b \o s
             y == g \o t
  <2>1. ReadsAll(x, y)
    BY <1>5
  <2> HIDE DEF x, y
  <2>2. ReadsAll(a \o x, e \o y)
    BY <1>1, <2>1, AllConcat
  <2> QED BY <2>2 DEF x, y
<1>7. ReadsAll(a \o (b \o s) \o ops, e \o (g \o t) \o ms)
  <2> DEFINE x == a \o (b \o s)
             y == e \o (g \o t)
  <2>1. ReadsAll(x, y)
    BY <1>6
  <2> HIDE DEF x, y
  <2>2. ReadsAll(x \o ops, y \o ms)
    BY <2>1, AllConcat
  <2> QED BY <2>2 DEF x, y
<1> QED BY <1>3, <1>7 DEF a, b, s, t, two

LEMMA OnFileReads ==
    ASSUME NEW k \in Client, srv \in Server, k.session = srv.session,
           k.sequence = srv.slot + 1, f.fh = srv.fh, Len(srv.fh) < W - 3,
           NEW op, NEW args, NEW says, OpReads(<<op, args>>, <<op, says>>)
    PROVE  ReadsAll(OnFile(k, op, args), Asked(op, says))
<1> DEFINE h == srv.fh
           a == Sequence(k)
           b == <<Op.PUTFH, <<String(h)>>>>
           e == <<op, args>>
           x == PutSession
           y == PutHandle(h)
           z == <<op, says>>
<1>1. OpReads(a, x)
  BY SequenceReads
<1>2. OpReads(b, y)
  <2>1. h \in Name
    BY ServerIs
  <2> QED BY <2>1, NamedReads DEF PutHandle
<1>3. OnFile(k, op, args) = <<a, b, e>> /\ Asked(op, says) = <<x, y, z>>
  BY DEF OnFile, Asked
<1>4. OpReads(e, z)
  OBVIOUS
<1> HIDE DEF a, b, e, x, y, z
<1>5. ReadsAll(<<a, b, e>>, <<x, y, z>>)
  BY <1>1, <1>2, <1>4, AllFew
<1> QED BY <1>3, <1>5

LEMMA WriteData ==
    ASSUME NEW x \in FileCalls, x.kind = "write"
    PROVE  x.data \in Name /\ Len(x.data) < W - 3
<1>1. x.data \in Data
  <2>1. \/ x.kind \in {"size", "read", "lock", "unlock"}
        \/ \E d \in Data : x = [kind |-> "write", offset |-> W + 5, data |-> d]
    BY SMT DEF FileCalls
  <2> QED BY <2>1
<1> QED BY <1>1, InputAssumption DEF Name

\* Every request of the code (push_exchange_id to push_write, by way of the functions
\* that call them) is read, operation by operation and field by field, as what the call
\* means, when the client that pushes it agrees with the server.
THEOREM RequestReads ==
    ASSUME c \in Client, srv \in Server, NEW k, NEW x \in NoFileCalls \union FileCalls,
           Agrees(k, x)
    PROVE  ReadsAll(Request(k, x), Meant(x))
<1>0. /\ x.kind \in Kinds /\ (x.kind \in {"open", "exists", "delete"} => x.path \in Path)
      /\ x \in FileCalls <=> x.kind \in {"size", "read", "write", "lock", "unlock"}
  BY CallKind
<1>1. k \in Client
  BY DEF Agrees
<1>2. OpReads(<<Op.PUTROOTFH, <<>>>>, PutRoot) /\ OpReads(<<Op.GETFH, <<>>>>, <<Op.GETFH, <<>>>>)
  BY PlainReads DEF PutRoot
<1>3. ASSUME InSession(x) PROVE OpReads(Sequence(k), PutSession)
  BY <1>1, <1>3, SequenceReads DEF Agrees
<1>4. CASE x.kind = "exchange_id"
  <2>1. Request(k, x) = <<ExchangeId>> /\ Meant(x) = <<<<Op.EXCHANGE_ID, SaidClient>>>>
    BY <1>4 DEF Request, Meant
  <2> QED BY <2>1, ExchangeReads, AllFew
<1>5. CASE x.kind = "create_session"
  <2>1. /\ Request(k, x) = <<CreateSession(k)>>
        /\ Meant(x) = <<<<Op.CREATE_SESSION, SaidSession>>>>
    BY <1>5 DEF Request, Meant
  <2>2. OpReads(CreateSession(k), <<Op.CREATE_SESSION, SaidSession>>)
    BY <1>5, CreateReads DEF Agrees
  <2> QED BY <2>1, <2>2, AllFew
<1>6. CASE x.kind = "root_fh"
  <2>1. /\ Request(k, x) = <<Sequence(k), <<Op.PUTROOTFH, <<>>>>, <<Op.GETFH, <<>>>>>>
        /\ Meant(x) = <<PutSession, PutRoot, <<Op.GETFH, <<>>>>>>
    BY <1>6 DEF Request, Meant
  <2>2. OpReads(Sequence(k), PutSession)
    BY <1>3, <1>6 DEF InSession
  <2> QED BY <1>2, <2>1, <2>2, AllFew
<1>7. CASE x.kind = "reclaim"
  <2>1. /\ Request(k, x) = <<Sequence(k), <<Op.RECLAIM_COMPLETE, <<Be32(0)>>>>>>
        /\ Meant(x) = <<PutSession, <<Op.RECLAIM_COMPLETE, <<<<0>>>>>>>>
    BY <1>7 DEF Request, Meant
  <2>2. OpReads(Sequence(k), PutSession)
    BY <1>3, <1>7 DEF InSession
  <2> QED BY <2>1, <2>2, ReclaimReads, AllFew
<1>8. ASSUME x.kind \in {"open", "delete"}
      PROVE  OpReads(<<Op.PUTFH, <<String(RootHandle(k))>>>>, PutHandle(srv.root))
  <2> DEFINE h == srv.root
  <2>1. RootHandle(k) = h /\ h \in Name /\ Len(h) < W - 3
    BY <1>8, ServerIs DEF Agrees
  <2>2. OpReads(<<Op.PUTFH, <<String(h)>>>>, <<Op.PUTFH, <<h>>>>)
    BY <2>1, NamedReads
  <2> QED BY <2>1, <2>2 DEF PutHandle
<1>9. CASE x.kind = "open"
  <2> DEFINE p == PathOf(x.path)
             name == Last(p)
             o == <<Op.OPEN, OpenArgs(k, name, x.access, x.create)>>
             m == <<Op.OPEN, SaidOpen(x)>>
             g == <<Op.GETFH, <<>>>>
             put == <<Op.PUTFH, <<String(RootHandle(k))>>>>
             handle == PutHandle(srv.root)
             front == Front(p)
  <2>1. x.path \in Path /\ x.access \in Nat /\ x.create \in BOOLEAN
    <3>1. x \in OpenCalls
      BY <1>9, NameCallIs, FileCallIs DEF NoFileCalls
    <3> QED BY <3>1, OpenCallIs
  <2>2. /\ Names(x.path) = p /\ name \in Name /\ Len(name) < W - 3
        /\ ReadsAll(Lookups(front), Walk(front))
    BY <2>1, PathIs
  <2>3. Request(k, x) = <<Sequence(k)>> \o (<<put>> \o Lookups(front)) \o <<o, g>>
    BY <1>9 DEF Request, InitialPath, ResolutionRfh
  <2>4. Meant(x) = <<PutSession, handle>> \o Walk(front) \o <<m, g>>
    BY <1>9, <2>2 DEF Meant
  <2>5. OpReads(o, m)
    <3>1. k.clientid = srv.clientid
      BY <1>9 DEF Agrees
    <3>2. Last(Names(x.path)) = name
      BY <2>2
    <3> HIDE DEF name
    <3> QED BY <1>1, <2>1, <2>2, <3>1, <3>2, OpenReads
  <2>6. OpReads(Sequence(k), PutSession) /\ OpReads(put, handle) /\ OpReads(g, g)
    BY <1>2, <1>3, <1>8, <1>9 DEF InSession
  <2> HIDE DEF o, m, g, put, handle, front
  <2>7. ReadsAll(<<o, g>>, <<m, g>>)
    BY <2>5, <2>6, AllFew
  <2>8. ReadsAll(<<Sequence(k)>> \o (<<put>> \o Lookups(front)) \o <<o, g>>,
                 <<PutSession, handle>> \o Walk(front) \o <<m, g>>)
    BY <2>2, <2>6, <2>7, PathReads
  <2> QED BY <2>3, <2>4, <2>8
<1>10. CASE x.kind = "exists"
  <2> DEFINE p == PathOf(x.path)
             g == <<Op.GETFH, <<>>>>
             put == <<Op.PUTROOTFH, <<>>>>
  <2>1. Names(x.path) = p /\ ReadsAll(Lookups(p), Walk(p))
    BY <1>0, <1>10, PathIs
  <2>2. Request(k, x) = <<Sequence(k)>> \o (<<put>> \o Lookups(p)) \o <<g>>
    BY <1>10 DEF Request, Resolution
  <2>3. Meant(x) = <<PutSession, PutRoot>> \o Walk(p) \o <<g>>
    BY <1>10, <2>1 DEF Meant
  <2>4. OpReads(Sequence(k), PutSession) /\ OpReads(put, PutRoot) /\ OpReads(g, g)
    BY <1>2, <1>3, <1>10 DEF InSession
  <2> HIDE DEF g, put, p
  <2>5. ReadsAll(<<g>>, <<g>>)
    BY <2>4, AllFew
  <2>6. ReadsAll(<<Sequence(k)>> \o (<<put>> \o Lookups(p)) \o <<g>>,
                 <<PutSession, PutRoot>> \o Walk(p) \o <<g>>)
    BY <2>1, <2>4, <2>5, PathReads
  <2> QED BY <2>2, <2>3, <2>6
<1>11. CASE x.kind = "delete"
  <2> DEFINE p == PathOf(x.path)
             name == Last(p)
             o == <<Op.REMOVE, <<String(name)>>>>
             m == <<Op.REMOVE, <<name>>>>
             put == <<Op.PUTFH, <<String(RootHandle(k))>>>>
             handle == PutHandle(srv.root)
             front == Front(p)
  <2>1. /\ Names(x.path) = p /\ name \in Name /\ Len(name) < W - 3
        /\ ReadsAll(Lookups(front), Walk(front))
    BY <1>0, <1>11, PathIs
  <2>2. Request(k, x) = <<Sequence(k)>> \o (<<put>> \o Lookups(front)) \o <<o>>
    BY <1>11 DEF Request, InitialPath, ResolutionRfh
  <2>3. Meant(x) = <<PutSession, handle>> \o Walk(front) \o <<m>>
    BY <1>11, <2>1 DEF Meant
  <2>4. OpReads(o, m)
    <3> HIDE DEF name
    <3> QED BY <2>1, NamedReads
  <2>5. OpReads(Sequence(k), PutSession) /\ OpReads(put, handle)
    BY <1>3, <1>8, <1>11 DEF InSession
  <2> HIDE DEF o, m, put, handle, front
  <2>6. ReadsAll(<<o>>, <<m>>)
    BY <2>4, AllFew
  <2>7. ReadsAll(<<Sequence(k)>> \o (<<put>> \o Lookups(front)) \o <<o>>,
                 <<PutSession, handle>> \o Walk(front) \o <<m>>)
    BY <2>1, <2>5, <2>6, PathReads
  <2> QED BY <2>2, <2>3, <2>7
<1>12. CASE x \in FileCalls
  <2>1. /\ f \in File /\ f.fh = srv.fh /\ f.open = srv.open /\ f.latest = srv.latest
        /\ Len(srv.fh) < W - 3
    BY <1>12 DEF Agrees, Handed
  <2>2. k.session = srv.session /\ k.sequence = srv.slot + 1 /\ k.clientid = srv.clientid
    BY <1>0, <1>12 DEF Agrees, InSession
  <2>3. f.latest \in Four /\ f.open \in Four
    BY <2>1, FileIs
  <2>4. ASSUME NEW op, NEW args, NEW says, OpReads(<<op, args>>, <<op, says>>)
        PROVE  ReadsAll(OnFile(k, op, args), Asked(op, says))
    BY <1>1, <2>1, <2>2, <2>4, OnFileReads
  <2>5. CASE x.kind = "size"
    <3>1. /\ Request(k, x) = OnFile(k, Op.GETATTR, <<Be32(1), Be32(16)>>)
          /\ Meant(x) = Asked(Op.GETATTR, <<<<1>>, <<16>>>>)
      BY <2>5 DEF Request, Meant
    <3> QED BY <2>4, <3>1, GetattrReads
  <2>6. CASE x.kind = "read"
    <3> DEFINE args == Stateid(f.latest) \o <<Be64(x.offset), Be32(x.length)>>
               says == SaidId(f.latest) \o <<Be64(x.offset), <<x.length>>>>
    <3>1. Request(k, x) = OnFile(k, Op.READ, args) /\ Meant(x) = Asked(Op.READ, says)
      BY <2>1, <2>6 DEF Request, Meant
    <3>2. x.offset \in Nat /\ x.length \in Nat
      BY <1>12, <2>6, FileCallIs
    <3>3. OpReads(<<Op.READ, args>>, <<Op.READ, says>>)
      BY <2>3, <3>2, ReadReads
    <3> HIDE DEF args, says
    <3> QED BY <2>4, <3>1, <3>3
  <2>7. CASE x.kind = "write"
    <3> DEFINE args == Stateid(f.latest) \o <<Be64(x.offset), Be32(2), String(x.data)>>
               says == SaidId(f.latest) \o <<Be64(x.offset), <<2>>, x.data>>
    <3>1. Request(k, x) = OnFile(k, Op.WRITE, args) /\ Meant(x) = Asked(Op.WRITE, says)
      BY <2>1, <2>7 DEF Request, Meant
    <3>2. x.offset \in Nat /\ x.data \in Name /\ Len(x.data) < W - 3
      BY <1>12, <2>7, FileCallIs, WriteData
    <3>3. OpReads(<<Op.WRITE, args>>, <<Op.WRITE, says>>)
      BY <2>3, <3>2, WriteReads
    <3> HIDE DEF args, says
    <3> QED BY <2>4, <3>1, <3>3
  <2>8. CASE x.kind = "lock"
    <3> DEFINE args == <<Be32(x.type), Be32(0), Be64(x.offset), Be64(x.length), Be32(1),
                         Be32(0)>> \o Stateid(f.open) \o <<Be32(0)>> \o Owner(k)
               says == SaidLock(x)
    <3>1. Request(k, x) = OnFile(k, Op.LOCK, args) /\ Meant(x) = Asked(Op.LOCK, says)
      BY <2>8 DEF Request, Meant
    <3>2. x.type \in Nat /\ x.offset \in Nat /\ x.length \in Nat
      BY <1>12, <2>8, FileCallIs
    <3>3. OpReads(<<Op.LOCK, args>>, <<Op.LOCK, says>>)
      BY <1>1, <2>1, <2>2, <2>3, <3>2, LockReads
    <3> HIDE DEF args, says
    <3> QED BY <2>4, <3>1, <3>3
  <2>9. CASE x.kind = "unlock"
    <3> DEFINE args == <<Be32(x.type), Be32(0)>> \o Stateid(f.latest)
                       \o <<Be64(x.offset), Be64(x.length)>>
               says == <<<<x.type>>, <<0>>>> \o SaidId(f.latest) \o SaidRange(x)
    <3>1. Request(k, x) = OnFile(k, Op.LOCKU, args) /\ Meant(x) = Asked(Op.LOCKU, says)
      BY <2>1, <2>9 DEF Request, Meant
    <3>2. x.type \in Nat /\ x.offset \in Nat /\ x.length \in Nat
      BY <1>12, <2>9, FileCallIs
    <3>3. OpReads(<<Op.LOCKU, args>>, <<Op.LOCKU, says>>)
      BY <2>3, <3>2, LockuReads
    <3> HIDE DEF args, says
    <3> QED BY <2>4, <3>1, <3>3
  <2> QED BY <1>0, <1>12, <2>5, <2>6, <2>7, <2>8, <2>9
<1> QED BY <1>0, <1>4, <1>5, <1>6, <1>7, <1>9, <1>10, <1>11, <1>12 DEF Kinds

-----------------------------------------------------------------------------
\* From the call being made to the request the server has read.

LEMMA LenThree ==
    ASSUME NEW S, NEW a \in S, NEW b \in S, NEW l \in Seq(S), NEW o \in Seq(S)
    PROVE  Len(<<a>> \o (<<b>> \o l) \o o) = 2 + Len(l) + Len(o)
<1> DEFINE u == <<a>>
           v == <<b>>
           vl == v \o l
           uvl == u \o vl
<1>1. u \in Seq(S) /\ v \in Seq(S)
  OBVIOUS
<1>2. Len(u) = 1 /\ Len(v) = 1
  OBVIOUS
<1> HIDE DEF u, v
<1>3. vl \in Seq(S) /\ Len(vl) = Len(v) + Len(l)
  BY <1>1, ConcatIs
<1> HIDE DEF vl
<1>4. vl \in Seq(S)
  BY <1>3
<1>5. uvl \in Seq(S) /\ Len(uvl) = Len(u) + Len(vl)
  BY <1>1, <1>4, ConcatIs
<1> HIDE DEF uvl
<1>9. uvl \in Seq(S)
  BY <1>5
<1>10. Len(uvl \o o) = Len(uvl) + Len(o)
  BY <1>9, ConcatIs
<1>6. Len(uvl \o o) = (1 + (1 + Len(l))) + Len(o)
  BY <1>2, <1>3, <1>5, <1>10
<1>7. Len(l) \in Nat /\ Len(o) \in Nat
  OBVIOUS
<1>8. Len(uvl \o o) = 2 + Len(l) + Len(o)
  BY <1>6, <1>7
<1> QED BY <1>8 DEF uvl, vl, u, v

\* How many operations a request has depends on the call alone.
LEMMA LengthSame ==
    ASSUME NEW k \in Client, NEW l \in Client, NEW x \in NoFileCalls \union FileCalls,
           x \in FileCalls => f \in File
    PROVE  Len(Request(k, x)) = Len(Request(l, x))
<1>1. x.kind \in Kinds /\ (x.kind \in {"open", "exists", "delete"} => x.path \in Path)
      /\ (x \in FileCalls <=> x.kind \in {"size", "read", "write", "lock", "unlock"})
  BY CallKind
<1>2. CASE x.kind \in {"exchange_id", "create_session", "root_fh", "reclaim"}
  <2>1. CASE x.kind = "exchange_id"
    BY <2>1 DEF Request
  <2>2. CASE x.kind = "create_session"
    <3>1. Request(k, x) = <<CreateSession(k)>> /\ Request(l, x) = <<CreateSession(l)>>
      BY <2>2 DEF Request
    <3>2. \A a : Len(<<a>>) = 1
      OBVIOUS
    <3> QED BY <3>1, <3>2
  <2>3. CASE x.kind = "root_fh"
    <3>1. \A a, b, d : Len(<<a, b, d>>) = 3
      OBVIOUS
    <3> QED BY <2>3, <3>1 DEF Request
  <2>4. CASE x.kind = "reclaim"
    <3>1. \A a, b : Len(<<a, b>>) = 2
      OBVIOUS
    <3> QED BY <2>4, <3>1 DEF Request
  <2> QED BY <1>2, <2>1, <2>2, <2>3, <2>4
<1>3. CASE x.kind \in {"open", "exists", "delete"}
  <2> DEFINE z == PathOf(x.path)
  <2>1. z \in Seq(Name) /\ Front(z) \in Seq(Name)
    BY <1>1, <1>3, NamesAre
  <2>2. Lookups(z) \in Seq(Operation) /\ Lookups(Front(z)) \in Seq(Operation)
    BY <2>1, LookupsType
  <2> DEFINE walk == Lookups(z)
             start == Lookups(Front(z))
             getfh == <<Op.GETFH, <<>>>>
             root == <<Op.PUTROOTFH, <<>>>>
             last == Last(z)
  <2>3. getfh \in Operation /\ root \in Operation
    <3>1. <<>> \in Seq(Seq(Nat))
      OBVIOUS
    <3>2. Op.GETFH \in Nat /\ Op.PUTROOTFH \in Nat
      BY OpIs
    <3> QED BY <3>1, <3>2, OperationIs
  <2>4. last \in Name
    BY <1>1, <1>3, PathIs
  <2>5. ASSUME NEW m \in Client
        PROVE  /\ Sequence(m) \in Operation
               /\ <<Op.PUTFH, <<String(RootHandle(m))>>>> \in Operation
    BY SequenceType, RootHandleType, PutfhType
  <2> HIDE DEF z, walk, start, getfh, root, last
  <2>6. CASE x.kind = "open"
    <3> DEFINE n == Len(start)
    <3>1. ASSUME NEW m \in Client PROVE Len(Request(m, x)) = 2 + n + 2
      <4> DEFINE a == Sequence(m)
                 b == <<Op.PUTFH, <<String(RootHandle(m))>>>>
                 e == <<Op.OPEN, OpenArgs(m, last, x.access, x.create)>>
                 o == <<e, getfh>>
      <4>1. Request(m, x) = <<a>> \o (<<b>> \o start) \o o
        BY <2>6 DEF Request, InitialPath, ResolutionRfh, z, start, getfh, last
      <4>2. a \in Operation /\ b \in Operation
        BY <2>5
      <4>3. e \in Operation
        <5>1. x \in OpenCalls
          BY <2>6, FileCallIs, NameCallIs DEF NoFileCalls
        <5>2. OpenArgs(m, last, x.access, x.create) \in Seq(Seq(Nat))
          BY <2>4, <5>1, OpenCallIs, OpenArgsType
        <5>3. Op.OPEN \in Nat
          BY OpIs
        <5> QED BY <5>2, <5>3, OperationIs
      <4> HIDE DEF a, b, e
      <4>4. o \in Seq(Operation)
        BY <2>3, <4>3
      <4>7. Len(o) = 2
        OBVIOUS
      <4> HIDE DEF o
      <4>5. start \in Seq(Operation)
        BY <2>2 DEF start
      <4>6. Len(<<a>> \o (<<b>> \o start) \o o) = 2 + Len(start) + Len(o)
        BY <4>2, <4>4, <4>5, LenThree
      <4> QED BY <4>1, <4>6, <4>7
    <3> QED BY <3>1
  <2>7. CASE x.kind = "exists"
    <3>1. ASSUME NEW m \in Client PROVE Len(Request(m, x)) = 2 + Len(walk) + 1
      <4> DEFINE a == Sequence(m)
                 o == <<getfh>>
      <4>1. Request(m, x) = <<a>> \o (<<root>> \o walk) \o o
        BY <2>7 DEF Request, Resolution, z, walk, getfh, root
      <4>2. a \in Operation /\ walk \in Seq(Operation)
        BY <2>2, <2>5 DEF walk
      <4>3. o \in Seq(Operation) /\ Len(o) = 1
        BY <2>3, OneIs
      <4> HIDE DEF a, o
      <4>4. o \in Seq(Operation) /\ root \in Operation
        BY <2>3, <4>3
      <4>5. Len(<<a>> \o (<<root>> \o walk) \o o) = 2 + Len(walk) + Len(o)
        BY <4>2, <4>4, LenThree
      <4> QED BY <4>1, <4>3, <4>5
    <3> QED BY <3>1
  <2>8. CASE x.kind = "delete"
    <3>1. ASSUME NEW m \in Client PROVE Len(Request(m, x)) = 2 + Len(start) + 1
      <4> DEFINE a == Sequence(m)
                 b == <<Op.PUTFH, <<String(RootHandle(m))>>>>
                 e == <<Op.REMOVE, <<String(last)>>>>
                 o == <<e>>
      <4>1. Request(m, x) = <<a>> \o (<<b>> \o start) \o o
        BY <2>8 DEF Request, InitialPath, ResolutionRfh, z, start, last
      <4>2. a \in Operation /\ b \in Operation /\ start \in Seq(Operation)
        BY <2>2, <2>5 DEF start
      <4>3. e \in Operation
        <5>1. String(last) \in Seq(Nat)
          BY <2>4, StringFits
        <5>2. <<String(last)>> \in Seq(Seq(Nat))
          BY <5>1, OneIs
        <5>3. Op.REMOVE \in Nat
          BY OpIs
        <5> QED BY <5>2, <5>3, OperationIs
      <4> HIDE DEF a, b, e
      <4>4. o \in Seq(Operation) /\ Len(o) = 1
        BY <4>3, OneIs
      <4> HIDE DEF o
      <4>6. o \in Seq(Operation)
        BY <4>4
      <4>5. Len(<<a>> \o (<<b>> \o start) \o o) = 2 + Len(start) + Len(o)
        BY <4>2, <4>6, LenThree
      <4> QED BY <4>1, <4>4, <4>5
    <3> QED BY <3>1
  <2> QED BY <1>3, <2>6, <2>7, <2>8
<1>4. CASE x.kind \in {"size", "read", "write", "lock", "unlock"}
  <2>1. ASSUME NEW m PROVE \E op, args : Request(m, x) = OnFile(m, op, args)
    <3>1. CASE x.kind = "size"
      BY <3>1 DEF Request
    <3>2. CASE x.kind = "read"
      BY <3>2 DEF Request
    <3>3. CASE x.kind = "write"
      BY <3>3 DEF Request
    <3>4. CASE x.kind = "lock"
      BY <3>4 DEF Request
    <3>5. CASE x.kind = "unlock"
      BY <3>5 DEF Request
    <3> QED BY <1>4, <3>1, <3>2, <3>3, <3>4, <3>5
  <2>2. \A a, b, d : Len(<<a, b, d>>) = 3
    OBVIOUS
  <2>3. ASSUME NEW m PROVE Len(Request(m, x)) = 3
    <3>1. PICK op, args : Request(m, x) = OnFile(m, op, args)
      BY <2>1
    <3>2. OnFile(m, op, args) = <<Sequence(m), <<Op.PUTFH, <<String(f.fh)>>>>, <<op, args>>>>
      BY DEF OnFile
    <3> QED BY <2>2, <3>1, <3>2
  <2> QED BY <2>3
<1> QED BY <1>1, <1>2, <1>3, <1>4 DEF Kinds

LEMMA RequestPrimed ==
    ASSUME f' = f, NEW CONSTANT k, NEW CONSTANT x
    PROVE  Request(k, x)' = Request(k, x)
BY DEF Request, OnFile

\* When create_session is asked for, the client has the server's sequence id.
Numbered == up = 1 /\ pc = "idle" => c.serverSequence = srv.seqid

\* Handles are no longer than a length can say.
Sized == Len(srv.root) = RootLength /\ Len(srv.fh) < W - 3

\* What lies in the buffer is the request of a client that agreed with the server.
Asking == IF up < 4 THEN reverse ELSE forward
Pending ==
    pc = "send" /\ RootLength = FhSize =>
        \E k : Agrees(k, call) /\ Holds(Asking, c.xid, Request(k, call))

Prepared == Numbered /\ Sized /\ Pending /\ Understood

LEMMA RootHandleIs ==
    ASSUME NEW k \in Client, Len(k.root) = FhSize
    PROVE  RootHandle(k) = k.root
<1>1. k.root \in Seq(Letter)
  BY ClientIs DEF Name
<1> DEFINE r == k.root
<1>2. r \in Seq(Letter) /\ Len(r) = FhSize
  BY <1>1
<1>3. RootHandle(k) = [i \in 1 .. FhSize |-> IF i <= Len(r) THEN r[i] ELSE 0]
  BY DEF RootHandle
<1> HIDE DEF r
<1>4. FhSize \in Nat
  BY SizeAssumption, WIs
<1>5. r = [i \in 1 .. FhSize |-> IF i <= Len(r) THEN r[i] ELSE 0]
  BY <1>2, <1>4
<1> QED BY <1>3, <1>5 DEF r

LEMMA PreparedAtFirst == Init => Prepared
<1>1. SUFFICES ASSUME Init PROVE Prepared
  OBVIOUS
<1>2. pc = "idle" /\ up = 0 /\ sent = <<>>
  BY <1>1 DEF Init
<1>3. Sized
  <2> DEFINE h == [i \in 1 .. RootLength |-> 1]
  <2>1. srv.fh = <<>> /\ srv.root = h
    BY <1>1 DEF Init
  <2>2. RootLength \in Nat
    BY SizeAssumption, WIs
  <2>3. Len(h) = RootLength
    BY <2>2, OnesType
  <2>4. 0 < W - 3
    BY WIs
  <2> HIDE DEF h
  <2>5. Len(srv.fh) = 0
    BY <2>1
  <2> QED BY <2>1, <2>3, <2>4, <2>5 DEF Sized
<1> QED BY <1>2, <1>3 DEF Prepared, Numbered, Pending, Understood

\* allocate_rpc() and push_*: what is pushed is what the server has handed out.
LEMMA BeginPrepares ==
    ASSUME IInv, Faithful, Prepared, NEW x \in Allowed, Begin(x)
    PROVE  Prepared'
<1> DEFINE k == [c EXCEPT !.xid = @ + 1, !.sequence = IF x.kind = "create_session" THEN 1 ELSE @]
           old == IF up < 4 THEN reverse ELSE forward
           b == Build(old, k.xid, Request(k, x))
<1>1. /\ Whole(forward) /\ Whole(reverse) /\ c \in Client /\ srv \in Server
      /\ f \in File \union {NoFile} /\ up \in 0 .. 4
  BY IInvIs
<1>2. /\ pc = "idle" /\ pc' = "send" /\ call' = x
      /\ c' = [k EXCEPT !.sequence = IF InSession(x) THEN @ + 1 ELSE @,
                        !.serverSequence = IF x.kind = "create_session" THEN @ + 1 ELSE @]
      /\ IF up < 4 THEN reverse' = b ELSE forward' = b
      /\ f' = f /\ up' = up /\ srv' = srv /\ sent' = sent /\ meant' = meant
  BY DEF Begin, server
<1>3. /\ k \in Client /\ k.clientid = c.clientid /\ k.session = c.session /\ k.root = c.root
      /\ k.maxreq = c.maxreq /\ k.maxresp = c.maxresp /\ k.maxops = c.maxops
      /\ k.maxreqs = c.maxreqs /\ k.serverSequence = c.serverSequence
      /\ k.sequence = IF x.kind = "create_session" THEN 1 ELSE c.sequence
  <2>1. c.xid + 1 \in Nat
    BY <1>1, ClientIs
  <2> QED BY <1>1, <2>1 DEF Client
<1>4. x \in NoFileCalls \union FileCalls /\ (x \in FileCalls => f \in File)
  BY <1>1, AllowedIs
<1>5. Asking' = b
  BY <1>2 DEF Asking
<1>6. PICK n \in Nat : Contents(b) = FlattenSeq(Header(k.xid)) \o <<n>>
                                     \o FlattenSeq(Pushed(Request(k, x)))
  <2>1. old \in Buffer /\ Len(old.contents) = old.capacity /\ old.capacity >= 24 /\ ~old.over
    BY <1>1 DEF Whole
  <2>2. k.xid \in Nat /\ Request(k, x) \in Seq(Operation)
    BY <1>3, <1>4, ClientIs, RequestType
  <2> HIDE DEF old, k
  <2> QED BY <2>1, <2>2, BuildIs
<1> HIDE DEF b, old
<1>7. PICK j : j = k
  OBVIOUS
<1> HIDE DEF k
<1>8. /\ c'.maxreq = k.maxreq /\ c'.maxresp = k.maxresp /\ c'.maxops = k.maxops
      /\ c'.maxreqs = k.maxreqs /\ c'.xid = k.xid
  BY <1>2, <1>3 DEF Client
<1>9. /\ x.kind = "exchange_id" <=> up = 0
      /\ x.kind = "create_session" <=> up = 1
      /\ x.kind = "root_fh" <=> up = 2
      /\ x \in FileCalls => f \in File /\ f # NoFile
  BY <1>1, AllowedKind
<1>10. Knows /\ Numbered /\ Sized /\ Understood
  BY DEF Faithful, Prepared
<1>11. Sized'
  BY <1>2, <1>10 DEF Sized
<1>12. (Numbered /\ Understood)'
  BY <1>2, <1>10 DEF Numbered, Understood
<1>13. Pending'
  <2>1. SUFFICES ASSUME RootLength = FhSize PROVE Pending'
    BY DEF Pending
  <2>2. x.kind # "exchange_id" => j.clientid = srv.clientid
    BY <1>1, <1>3, <1>7, <1>9, <1>10 DEF Knows
  <2>3. x.kind = "create_session" =>
          /\ j.serverSequence = srv.seqid
          /\ j.maxreq = c'.maxreq /\ j.maxresp = c'.maxresp
          /\ j.maxops = c'.maxops /\ j.maxreqs = c'.maxreqs
    BY <1>2, <1>3, <1>7, <1>8, <1>9, <1>10 DEF Numbered
  <2>4. InSession(x) => j.session = srv.session /\ j.sequence = srv.slot + 1
    <3>1. SUFFICES ASSUME InSession(x) PROVE j.session = srv.session /\ j.sequence = srv.slot + 1
      OBVIOUS
    <3>2. up >= 2 /\ x.kind # "create_session"
      BY <1>1, <1>9, <3>1 DEF InSession
    <3> QED BY <1>2, <1>3, <1>7, <1>10, <3>2 DEF Knows, Session
  <2>5. x.kind \in {"open", "delete"} => RootHandle(j) = srv.root
    <3>1. SUFFICES ASSUME x.kind \in {"open", "delete"} PROVE RootHandle(j) = srv.root
      OBVIOUS
    <3>2. up >= 3
      BY <1>1, <1>9, <3>1
    <3>3. j.root = srv.root /\ Len(srv.root) = FhSize /\ j \in Client
      BY <1>3, <1>7, <1>10, <2>1, <3>2 DEF Knows, Sized
    <3> QED BY <3>3, RootHandleIs
  <2>6. Len(srv.root) < W - 3
    <3>1. FhSize < W - 3
      BY SizeAssumption, WIs
    <3> QED BY <1>10, <2>1, <3>1 DEF Sized
  <2>7. x \in FileCalls => f \in File /\ f = Handed(srv) /\ Len(srv.fh) < W - 3
    <3>1. SUFFICES ASSUME x \in FileCalls PROVE f = Handed(srv)
      BY <1>9, <1>10 DEF Sized
    <3>2. f \in File /\ f.fh = srv.fh /\ f.open = srv.open /\ f.latest = srv.latest
      BY <1>2, <1>9, <1>10, <3>1 DEF Knows, Current
    <3> QED BY <3>2 DEF File, Handed
  <2>8. RootHandle(j)' = RootHandle(j) /\ Handed(srv)' = Handed(srv)
    BY <1>2 DEF RootHandle, Handed
  <2>9. j \in Client
    BY <1>3, <1>7
  <2>10. Agrees(j, x)'
    BY <1>2, <2>2, <2>3, <2>4, <2>5, <2>6, <2>7, <2>8, <2>9 DEF Agrees, InSession
  <2>11. Request(j, x)' = Request(j, x)
    BY <1>2, RequestPrimed
  <2>12. Contents(Asking)' = FlattenSeq(Header(c'.xid)) \o <<n>>
                             \o FlattenSeq(Pushed(Request(j, x)'))
    <3>1. Contents(Asking)' = Contents(b)
      BY <1>5 DEF Contents
    <3> QED BY <1>6, <1>7, <1>8, <2>11, <3>1
  <2>13. /\ Agrees(j, call)'
         /\ Contents(Asking)' = FlattenSeq(Header(c.xid))' \o <<n>>
                                \o FlattenSeq(Pushed(Request(j, call)))'
    BY <1>2, <2>10, <2>12
  <2>14. Holds(Asking, c.xid, Request(j, call))'
    BY <2>13 DEF Holds
  <2> QED BY <2>13, <2>14 DEF Pending
<1> QED BY <1>11, <1>12, <1>13 DEF Prepared

LEMMA HandleFits ==
    ASSUME NEW h \in Handle
    PROVE  Len(h) < W - 3
<1>1. 3 < W - 3 /\ FhSize \in Nat /\ FhSize < W - 3
  BY SizeAssumption, WIs
<1>2. CASE h = <<1, 2, 1>>
  <2>1. Len(<<1, 2, 1>>) = 3
    OBVIOUS
  <2> QED BY <1>1, <1>2, <2>1
<1>3. CASE h = [i \in 1 .. FhSize |-> 2]
  <2>1. Len([i \in 1 .. FhSize |-> 2]) = FhSize
    BY <1>1
  <2> QED BY <1>1, <1>3, <2>1
<1> QED BY <1>2, <1>3 DEF Handle

\* rpc_send() frames what lies in the buffer; the server reads it by the grammar.
LEMMA SendPrepares ==
    ASSUME IInv, Faithful, Prepared, Send
    PROVE  Prepared'
<1> DEFINE ops == Meant(call)
           Opened(n) == call.kind = "open" /\ n = Len(ops)
<1>1. /\ Whole(forward) /\ Whole(reverse) /\ c \in Client /\ srv \in Server
      /\ f \in File \union {NoFile} /\ up \in 0 .. 4
  BY IInvIs
<1>2. /\ pc = "send" /\ pc' = "frame"
      /\ sent' = Framed(Asking, Len(Request(c, call)))
      /\ meant' = [frame |-> TRUE, whole |-> TRUE, xid |-> c.xid, ops |-> ops]
  BY DEF Send, Asking
<1>3. call \in NoFileCalls \union FileCalls /\ (call \in FileCalls => f \in File)
  BY <1>1, <1>2, IInvIs, AllowedIs
<1>4. Sized'
  <2>1. \E d : \/ \E s \in Knowing(call) : srv' = Stepped(call, s)
               \/ \E n \in 1 .. Len(ops) :
                     \E s \in IF Opened(n) THEN Knowing(call) ELSE {srv} : srv' = Stepped(call, s)
    BY DEF Send, Stepped
  <2>2. PICK s : srv' = Stepped(call, s) /\ s \in Knowing(call) \union {srv}
    BY <2>1
  <2>3. s \in Server
    BY <1>1, <1>3, <2>2, KnowingType
  <2>4. s.root = srv.root /\ (call.kind # "open" => s.fh = srv.fh)
    BY <1>1, <1>3, <2>2, KnowingSays
  <2>5. call.kind = "open" => s.fh = srv.fh \/ s.fh \in Handle
    <3>1. SUFFICES ASSUME call.kind = "open", s \in Knowing(call) PROVE s.fh \in Handle
      BY <2>2
    <3>2. s \in {[srv EXCEPT !.fh = h, !.open = <<srv.open[1] + 1, 71, 72, 73>>,
                             !.latest = <<srv.open[1] + 1, 71, 72, 73>>] : h \in Handle}
      BY <3>1 DEF Knowing
    <3>3. PICK h \in Handle : s = [srv EXCEPT !.fh = h, !.open = <<srv.open[1] + 1, 71, 72, 73>>,
                                              !.latest = <<srv.open[1] + 1, 71, 72, 73>>]
      BY <3>2
    <3>4. s.fh = h
      BY <1>1, <3>3 DEF Server
    <3> QED BY <3>4
  <2>6. srv'.root = s.root /\ srv'.fh = s.fh
    BY <1>1, <2>2, <2>3, SteppedIs
  <2>7. Len(srv.root) = RootLength /\ Len(srv.fh) < W - 3
    BY DEF Prepared, Sized
  <2> QED BY <2>4, <2>5, <2>6, <2>7, HandleFits DEF Sized
<1>5. Understood'
  <2>1. SUFFICES ASSUME RootLength = FhSize PROVE Understand(sent') = meant'
    BY DEF Understood
  <2>2. PICK k : Agrees(k, call) /\ Holds(Asking, c.xid, Request(k, call))
    BY <1>2, <2>1 DEF Prepared, Pending
  <2>3. ReadsAll(Request(k, call), ops)
    BY <1>1, <1>3, <2>2, RequestReads
  <2>4. Len(Request(k, call)) = Len(Request(c, call))
    <3>1. k \in Client
      BY <2>2 DEF Agrees
    <3> QED BY <1>1, <1>3, <3>1, LengthSame
  <2>5. Sound(Asking)
    <3>1. Whole(Asking)
      BY <1>1 DEF Asking
    <3>2. Asking.start = 0
      BY <1>2 DEF IInv, BuffersHold, Asking
    <3> HIDE DEF Asking
    <3> QED BY <3>1, <3>2 DEF Whole, Sound
  <2>6. c.xid \in Nat
    BY <1>1, ClientIs
  <2> DEFINE o == Request(k, call)
             b == Asking
             xid == c.xid
  <2> HIDE DEF ops, o, b, xid
  <2>8. ReadsAll(o, ops) /\ Sound(b) /\ xid \in Nat /\ Holds(b, xid, o)
    BY <2>2, <2>3, <2>5, <2>6 DEF o, b, xid
  <2>9. Understand(Framed(b, Len(o)))
          = [frame |-> TRUE, whole |-> TRUE, xid |-> xid, ops |-> ops]
    BY <2>8, FramedIsRead
  <2> QED BY <1>2, <2>4, <2>9 DEF o, b, xid
<1>6. (Numbered /\ Pending)'
  BY <1>2 DEF Numbered, Pending
<1> QED BY <1>4, <1>5, <1>6 DEF Prepared

\* The answer to EXCHANGE_ID leaves the sequence id of the server's next session.
LEMMA ReturnPrepares ==
    ASSUME IInv, Faithful, Prepared, Return
    PROVE  Prepared'
<1>1. pc = "parse" /\ UNCHANGED <<call, srv, sent, meant>>
  BY DEF Return, server
<1>2. up \in 0 .. 4 /\ f \in File \union {NoFile} /\ call \in Allowed
  BY <1>1, IInvIs
<1>3. PICK o \in Outcomes(call, Contents(reverse)) :
         /\ c' = o.c
         /\ up' = IF up < 4 /\ o.ok THEN up + 1 ELSE up
         /\ pc' = IF up < 4 /\ ~o.ok THEN "closed" ELSE "idle"
         /\ Learns(call, srv, o) \/ o = Failed
  BY ReturnLearns
<1>4. Numbered'
  <2>1. SUFFICES ASSUME up' = 1, pc' = "idle" PROVE c'.serverSequence = srv'.seqid
    BY DEF Numbered
  <2>2. up = 0 /\ o.ok
    <3>1. CASE up < 4
      <4>1. o.ok
        BY <1>3, <2>1, <3>1
      <4> QED BY <1>2, <1>3, <2>1, <3>1, <4>1
    <3>2. CASE ~(up < 4)
      BY <1>2, <1>3, <2>1, <3>2
    <3> QED BY <3>1, <3>2
  <2>3. call.kind = "exchange_id"
    BY <1>2, <2>2, AllowedKind
  <2>4. Learns(call, srv, o)
    BY <1>3, <2>2 DEF Failed, Outcome
  <2> QED BY <1>1, <1>3, <2>3, <2>4 DEF Learns
<1>5. pc' # "send"
  BY <1>3
<1>6. (Sized /\ Pending /\ Understood)'
  BY <1>1, <1>5 DEF Prepared, Sized, Pending, Understood
<1> QED BY <1>4, <1>6 DEF Prepared

\* What was pushed, and what the server has handed out, stay as they are.
LEMMA StaysPrepared ==
    ASSUME Prepared, UNCHANGED <<pc, call, c, f, up, forward, reverse, srv, sent, meant>>
    PROVE  Prepared'
<1>1. (Numbered /\ Sized /\ Understood)'
  BY DEF Prepared, Numbered, Sized, Understood
<1>2. Pending'
  <2>1. SUFFICES ASSUME pc = "send", RootLength = FhSize PROVE Pending'
    BY DEF Pending
  <2>2. PICK k : Agrees(k, call) /\ Holds(Asking, c.xid, Request(k, call))
    BY <2>1 DEF Prepared, Pending
  <2>3. Agrees(k, call)'
    BY <2>2 DEF Agrees, InSession, RootHandle, Handed
  <2>4. Request(k, call)' = Request(k, call)
    BY DEF Request, OnFile
  <2>5. Contents(Asking)' = Contents(Asking)
    BY DEF Contents, Asking
  <2>6. FlattenSeq(Header(c.xid))' = FlattenSeq(Header(c.xid))
    OBVIOUS
  <2>7. FlattenSeq(Pushed(Request(k, call)))' = FlattenSeq(Pushed(Request(k, call)))
    BY <2>4
  <2>8. Holds(Asking, c.xid, Request(k, call))'
    BY <2>2, <2>5, <2>6, <2>7 DEF Holds
  <2> QED BY <2>3, <2>8 DEF Pending
<1> QED BY <1>1, <1>2 DEF Prepared

LEMMA PreparedHolds == Spec => []Prepared
<1>1. ASSUME IInv, Faithful, Prepared, [Next]_vars PROVE Prepared'
  <2>1. CASE Connect
    <3>1. Begin([kind |-> Startup[up + 1]]) /\ up < 4
      BY <2>1 DEF Connect
    <3>2. [kind |-> Startup[up + 1]] \in Allowed
      BY <3>1 DEF Allowed
    <3> QED BY <1>1, <3>1, <3>2, BeginPrepares
  <2>2. CASE Use
    <3>1. up = 4
      BY <2>2 DEF Use
    <3>2. PICK x \in IF f = NoFile THEN NameCalls \union OpenCalls ELSE FileCalls : Begin(x)
      BY <2>2 DEF Use
    <3>3. x \in Allowed
      BY <3>1 DEF Allowed
    <3> QED BY <1>1, <3>2, <3>3, BeginPrepares
  <2>3. CASE Close
    <3>1. pc = "idle" /\ pc' = "idle" /\ UNCHANGED <<c, up, srv, sent, meant>>
      BY <2>3 DEF Close, server
    <3> QED BY <1>1, <3>1 DEF Prepared, Numbered, Sized, Pending, Understood
  <2>4. CASE Arrive
    <3>1. UNCHANGED <<pc, call, c, f, up, forward, reverse, srv, sent, meant>>
      BY <2>4 DEF Arrive, client, server
    <3> QED BY <1>1, <3>1, StaysPrepared
  <2>5. CASE ReadFrame
    <3>1. pc' = "body" /\ UNCHANGED <<srv, sent, meant>>
      BY <2>5 DEF ReadFrame, server
    <3> QED BY <1>1, <3>1 DEF Prepared, Numbered, Sized, Pending, Understood
  <2>6. CASE ReadBody
    <3>1. pc' \in {"parse", "body"} /\ UNCHANGED <<srv, sent, meant>>
      BY <2>6 DEF ReadBody, server
    <3> QED BY <1>1, <3>1 DEF Prepared, Numbered, Sized, Pending, Understood
  <2>7. CASE UNCHANGED vars
    <3>1. UNCHANGED <<pc, call, c, f, up, forward, reverse, srv, sent, meant>>
      BY <2>7 DEF vars, client, server
    <3> QED BY <1>1, <3>1, StaysPrepared
  <2> QED BY <1>1, <2>1, <2>2, <2>3, <2>4, <2>5, <2>6, <2>7, SendPrepares, ReturnPrepares DEF Next
<1> QED BY PreparedAtFirst, TypeCorrect, FaithfulHolds, <1>1, PTL DEF Spec

\* What the server reads is what the call means: allocate_rpc(), push_* and rpc_send()
\* leave the frame, the header and every field where the grammar looks for them, and
\* the session, the sequence id, the handles, the stateids and the names in them are
\* those the server has handed out last and those of the call; but the root handle has
\* to fill its NFS4_FHSIZE bytes.
THEOREM UnderstoodHolds == Spec => []Understood
<1>1. Prepared => Understood
  BY DEF Prepared
<1> QED BY <1>1, PreparedHolds, PTL
=============================================================================
