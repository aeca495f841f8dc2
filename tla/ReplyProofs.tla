------------------------------ MODULE ReplyProofs ------------------------------
(***************************************************************************)
(* What a call leaves in the client is what the server has said: the reply *)
(* is found word by word in the buffer, whatever the buffer held before    *)
(* and however the reply was cut into pieces.                              *)
(***************************************************************************)
EXTENDS CompoundProofs

-----------------------------------------------------------------------------
\* The words w are found in r from the i-th on.
At(r, i, w) == \A j \in 1 .. Len(w) : Get(r, i + j - 1) = w[j]

LEMMA AtConcat ==
    ASSUME NEW r, NEW i \in Nat, NEW u \in Seq(Nat), NEW v \in Seq(Nat), At(r, i, u \o v)
    PROVE  At(r, i, u) /\ At(r, i + Len(u), v)
<1> DEFINE w == u \o v
<1>1. /\ Len(w) = Len(u) + Len(v) /\ Len(u) \in Nat /\ Len(v) \in Nat
      /\ \A j \in 1 .. Len(u) : w[j] = u[j]
      /\ \A j \in 1 .. Len(v) : w[Len(u) + j] = v[j]
  BY ConcatIs
<1>2. \A j \in 1 .. Len(w) : Get(r, i + j - 1) = w[j]
  BY DEF At
<1> HIDE DEF w
<1>3. ASSUME NEW j \in 1 .. Len(u) PROVE Get(r, i + j - 1) = u[j]
  <2>1. j \in 1 .. Len(w)
    BY <1>1
  <2> QED BY <1>1, <1>2, <2>1
<1>4. ASSUME NEW j \in 1 .. Len(v) PROVE Get(r, (i + Len(u)) + j - 1) = v[j]
  <2>1. Len(u) + j \in 1 .. Len(w)
    BY <1>1
  <2>2. i + (Len(u) + j) - 1 = (i + Len(u)) + j - 1
    BY <1>1
  <2>3. Get(r, i + (Len(u) + j) - 1) = w[Len(u) + j]
    BY <1>2, <2>1
  <2> QED BY <1>1, <2>2, <2>3
<1> QED BY <1>3, <1>4 DEF At

LEMMA AtBehind ==
    ASSUME NEW u \in Seq(Nat), NEW v \in Seq(Nat)
    PROVE  At(u \o v, 1, u) /\ At(u \o v, Len(u) + 1, v)
<1> DEFINE w == u \o v
<1>1. w \in Seq(Nat)
  BY ConcatIs
<1> HIDE DEF w
<1>2. At(w, 1, w)
  BY <1>1 DEF At, Get
<1>3. At(w, 1, u) /\ At(w, 1 + Len(u), v)
  BY <1>2, AtConcat DEF w
<1>4. 1 + Len(u) = Len(u) + 1
  OBVIOUS
<1> QED BY <1>3, <1>4 DEF w

\* Each of the sequences that were put one behind the other is in its place.
LEMMA JoinAt ==
    ASSUME NEW r, NEW i \in Nat, NEW s \in Seq(Seq(Nat)), NEW g \in [0 .. Len(s) -> Seq(Nat)],
           Joins(g, s), At(r, i, g[Len(s)])
    PROVE  \A k \in 1 .. Len(s) : At(r, i + Len(g[k - 1]), s[k])
<1> DEFINE n == Len(s)
           T == {k \in 0 .. n : At(r, i, g[n - k])}
<1>1. n \in Nat /\ \A k \in 1 .. n : s[k] \in Seq(Nat)
  OBVIOUS
<1> HIDE DEF n
<1>2. ASSUME NEW k \in 1 .. n, At(r, i, g[k])
      PROVE  At(r, i, g[k - 1]) /\ At(r, i + Len(g[k - 1]), s[k])
  <2>1. g[k] = g[k - 1] \o s[k] /\ g[k - 1] \in Seq(Nat) /\ s[k] \in Seq(Nat)
    <3>1. k - 1 \in 0 .. n /\ 0 .. n = 0 .. Len(s)
      BY <1>1 DEF n
    <3>2. g[k - 1] \in Seq(Nat)
      BY <3>1
    <3>3. g[k] = g[k - 1] \o s[k]
      BY DEF Joins, n
    <3> QED BY <1>1, <3>2, <3>3
  <2> DEFINE u == g[k - 1]
             v == s[k]
  <2>2. u \in Seq(Nat) /\ v \in Seq(Nat) /\ At(r, i, u \o v)
    BY <1>2, <2>1
  <2> HIDE DEF u, v
  <2>3. At(r, i, u) /\ At(r, i + Len(u), v)
    BY <2>2, AtConcat
  <2> QED BY <2>3 DEF u, v
<1>3. 0 \in T
  BY <1>1 DEF n
<1>4. ASSUME NEW k \in 1 .. n, k - 1 \in T PROVE k \in T
  <2>1. n - (k - 1) \in 1 .. n /\ (n - (k - 1)) - 1 = n - k /\ k \in 0 .. n
    BY <1>1
  <2>2. At(r, i, g[n - (k - 1)])
    BY <1>4
  <2>3. At(r, i, g[n - k])
    BY <1>2, <2>1, <2>2
  <2> QED BY <2>1, <2>3
<1>5. \A k \in 0 .. n : k \in T
  <2> HIDE DEF T
  <2> QED BY <1>1, <1>3, <1>4, Induction
<1>6. ASSUME NEW k \in 1 .. n PROVE At(r, i, g[k])
  <2>1. n - k \in 0 .. n /\ n - (n - k) = k
    BY <1>1
  <2>2. At(r, i, g[n - (n - k)])
    BY <1>5, <2>1
  <2> QED BY <2>1, <2>2
<1> QED BY <1>2, <1>6 DEF n

-----------------------------------------------------------------------------
\* read_until() goes on from one operation to the next; the function that says where
\* it ends exists, as nothing is found behind the reply.
ScanStep(r, which, S, at) ==
    IF Get(r, at) = which THEN at + 1
    ELSE IF Get(r, at + 1) # 0 \/ Get(r, at) \notin SkippedOps THEN 0
    ELSE S[at + 2 + Skip(Get(r, at))]

LEMMA SkipIs ==
    /\ Skip(Op.SEQUENCE) = 9
    /\ \A op \in {Op.PUTROOTFH, Op.PUTFH, Op.LOOKUP} : Skip(op) = 0
    /\ \A op \in SkippedOps : Skip(op) \in Nat
BY OpIs DEF Skip, SkippedOps

LEMMA JunkIs == Junk \in Nat /\ Junk > 99
BY WIs DEF Junk

LEMMA ScanType ==
    ASSUME NEW r \in Seq(Nat), NEW which, NEW S \in [Nat -> Nat], NEW at \in Nat
    PROVE  ScanStep(r, which, S, at) \in Nat
<1>1. CASE Get(r, at) \in SkippedOps
  <2> DEFINE n == Skip(Get(r, at))
  <2>0. n \in Nat
    BY <1>1, SkipIs
  <2> HIDE DEF n
  <2>1. at + 2 + n \in Nat
    BY <2>0
  <2> QED BY <2>1 DEF ScanStep, n
<1>2. CASE Get(r, at) \notin SkippedOps
  BY <1>2 DEF ScanStep
<1> QED BY <1>1, <1>2

\* Only what is behind a place decides what is found from there.
LEMMA ScanAhead ==
    ASSUME NEW r \in Seq(Nat), NEW which, NEW S \in [Nat -> Nat], NEW T \in [Nat -> Nat],
           NEW at \in Nat, \A i \in Nat : i > at => S[i] = T[i]
    PROVE  ScanStep(r, which, S, at) = ScanStep(r, which, T, at)
<1>1. CASE Get(r, at) \in SkippedOps
  <2> DEFINE n == Skip(Get(r, at))
  <2>0. n \in Nat
    BY <1>1, SkipIs
  <2> HIDE DEF n
  <2>1. S[at + 2 + n] = T[at + 2 + n]
    BY <2>0
  <2> QED BY <2>1 DEF ScanStep, n
<1>2. CASE Get(r, at) \notin SkippedOps
  BY <1>2 DEF ScanStep
<1> QED BY <1>1, <1>2

LEMMA ScanIs ==
    ASSUME NEW r \in Seq(Nat), NEW which \in Nat, which < 99
    PROVE  \E S : /\ \A at \in Nat : S[at] = ScanStep(r, which, S, at)
                  /\ ReadUntil(r, which) = S[10]
<1> DEFINE n == Len(r) + 1
           F == [Nat -> Nat]
           zero == [at \in Nat |-> 0]
           G == [p \in (1 .. n) \X F |->
                   [at \in Nat |-> IF at = n - p[1] THEN ScanStep(r, which, p[2], at) ELSE p[2][at]]]
<1>1. n \in Nat /\ zero \in F
  OBVIOUS
<1>2. G \in [(1 .. n) \X F -> F]
  <2>1. ASSUME NEW p \in (1 .. n) \X F
        PROVE  [at \in Nat |-> IF at = n - p[1] THEN ScanStep(r, which, p[2], at) ELSE p[2][at]] \in F
    <3>1. p[2] \in F
      OBVIOUS
    <3>2. \A at \in Nat : ScanStep(r, which, p[2], at) \in Nat /\ p[2][at] \in Nat
      BY <3>1, ScanType
    <3> QED BY <3>2
  <2> HIDE DEF F, n
  <2> QED BY <2>1
<1>3. PICK g \in [0 .. n -> F] : Steps(n, zero, G, g)
  <2> HIDE DEF G, n, F, zero
  <2> QED BY <1>1, <1>2, Recursion
<1>4. ASSUME NEW i \in 1 .. n
      PROVE  /\ g[i] \in F /\ g[i - 1] \in F /\ n - i \in Nat
             /\ g[i][n - i] = ScanStep(r, which, g[i - 1], n - i)
             /\ \A at \in Nat : at # n - i => g[i][at] = g[i - 1][at]
  <2>1. i \in 0 .. n /\ i - 1 \in 0 .. n /\ n - i \in Nat
    BY <1>1
  <2> HIDE DEF n, F
  <2>2. g[i] \in F /\ g[i - 1] \in F /\ <<i, g[i - 1]>> \in (1 .. n) \X F
    BY <2>1
  <2>3. g[i] = [at \in Nat |-> IF at = n - i THEN ScanStep(r, which, g[i - 1], at)
                               ELSE g[i - 1][at]]
    BY <1>3, <2>2 DEF Steps
  <2> QED BY <2>1, <2>2, <2>3
<1> DEFINE Q(i) == \A at \in Nat : at >= n - i => g[i][at] = ScanStep(r, which, g[i], at)
           T == {i \in 0 .. n : Q(i)}
<1>5. 0 \in T
  <2>1. ASSUME NEW at \in Nat, at >= n PROVE g[0][at] = ScanStep(r, which, g[0], at)
    <3>1. g[0][at] = 0
      BY <1>3 DEF Steps
    <3>2. at \notin DOMAIN r /\ at + 1 \notin DOMAIN r
      BY <2>1
    <3>3. Get(r, at) = Junk /\ Get(r, at + 1) = Junk
      BY <3>2 DEF Get
    <3> QED BY <3>1, <3>3, JunkIs DEF ScanStep
  <2>2. n - 0 = n
    BY <1>1
  <2>3. Q(0)
    BY <2>1, <2>2
  <2> HIDE DEF n, Q
  <2> QED BY <1>1, <2>3
<1> HIDE DEF G, zero, n, F
<1>6. ASSUME NEW i \in 1 .. n, i - 1 \in T PROVE i \in T
  <2>1. Q(i - 1)
    BY <1>6
  <2>2. ASSUME NEW at \in Nat, at >= n - i
        PROVE  g[i][at] = ScanStep(r, which, g[i], at)
    <3>1. ScanStep(r, which, g[i], at) = ScanStep(r, which, g[i - 1], at)
      <4>1. \A j \in Nat : j > at => g[i][j] = g[i - 1][j]
        BY <1>4, <2>2
      <4> DEFINE x == g[i]
                 y == g[i - 1]
      <4>2. x \in [Nat -> Nat] /\ y \in [Nat -> Nat] /\ \A j \in Nat : j > at => x[j] = y[j]
        BY <1>4, <4>1 DEF F
      <4> HIDE DEF x, y
      <4>3. ScanStep(r, which, x, at) = ScanStep(r, which, y, at)
        BY <2>2, <4>2, ScanAhead
      <4> QED BY <4>3 DEF x, y
    <3>2. CASE at = n - i
      BY <1>4, <3>1, <3>2
    <3>3. CASE at # n - i
      <4>1. at >= n - (i - 1)
        BY <1>1, <2>2, <3>3
      <4>2. g[i - 1][at] = ScanStep(r, which, g[i - 1], at)
        BY <2>1, <4>1
      <4> QED BY <1>4, <3>1, <3>3, <4>2
    <3> QED BY <3>2, <3>3
  <2>3. i \in 0 .. n
    BY <1>1
  <2> QED BY <2>2, <2>3
<1>7. n \in T
  <2> HIDE DEF T
  <2>1. \A i \in 0 .. n : i \in T
    BY <1>1, <1>5, <1>6, Induction
  <2> QED BY <1>1, <2>1
<1> DEFINE S == g[n]
<1>8. S \in [Nat -> Nat] /\ \A at \in Nat : S[at] = ScanStep(r, which, S, at)
  <2>1. S \in F
    BY <1>1
  <2>2. \A at \in Nat : at >= n - n
    BY <1>1
  <2> QED BY <1>7, <2>1, <2>2 DEF F
<1> HIDE DEF S
<1> DEFINE Scan[at \in Nat] ==
             IF Get(r, at) = which THEN at + 1
             ELSE IF \/ Get(r, at + 1) # 0
                     \/ Get(r, at) \notin {Op.SEQUENCE, Op.PUTROOTFH, Op.PUTFH, Op.LOOKUP}
                  THEN 0
             ELSE Scan[at + 2 + Skip(Get(r, at))]
<1>9. S = [at \in Nat |-> ScanStep(r, which, S, at)]
  BY <1>8
<1>10. Scan = [at \in Nat |-> ScanStep(r, which, Scan, at)]
  BY <1>9 DEF ScanStep, SkippedOps
<1>11. ReadUntil(r, which) = Scan[10]
  BY DEF ReadUntil
<1> HIDE DEF Scan
<1>12. \A at \in Nat : Scan[at] = ScanStep(r, which, Scan, at)
  <2>1. \A at \in Nat : [i \in Nat |-> ScanStep(r, which, Scan, i)][at] = ScanStep(r, which, Scan, at)
    OBVIOUS
  <2> QED BY <1>10, <2>1
<1> QED BY <1>11, <1>12

\* An answer has the words that are skipped.
LEMMA SkipsAnswer ==
    ASSUME NEW s \in Server, NEW d \in Seq(Nat), NEW op \in SkippedOps
    PROVE  Len(Answer(op, s, d)) = Skip(op)
<1>1. CASE op = Op.SEQUENCE
  <2> DEFINE u == s.session
             v == <<s.slot, 0, 0, 0, 0>>
  <2>1. u \in Seq(Nat) /\ Len(u) = 4 /\ s.slot \in Nat
    BY ServerIs
  <2>2. v \in Seq(Nat) /\ Len(v) = 5
    BY <2>1
  <2>3. Answer(op, s, d) = u \o v /\ Skip(op) = 9
    <3>1. Answer(op, s, d) = ToSequence(s)
      BY <1>1, AnswerIs
    <3>2. Skip(op) = 9
      BY <1>1, SkipIs
    <3> QED BY <3>1, <3>2 DEF ToSequence
  <2> HIDE DEF u, v
  <2>4. Len(u \o v) = Len(u) + Len(v)
    BY <2>1, <2>2, ConcatIs
  <2> QED BY <2>1, <2>2, <2>3, <2>4
<1>2. CASE op \in {Op.PUTROOTFH, Op.PUTFH, Op.LOOKUP}
  <2>1. Answer(op, s, d) = <<>> /\ Skip(op) = 0
    BY <1>2, AnswerIs, SkipIs
  <2> QED BY <2>1
<1> QED BY <1>1, <1>2 DEF SkippedOps

\* What an operation carried out leaves in a reply.
LEMMA CarriedIs ==
    ASSUME NEW s \in Server, NEW d \in Seq(Nat), NEW op \in Nat
    PROVE  /\ Carried(op, s, d) \in Seq(Nat)
           /\ Len(Carried(op, s, d)) = 2 + Len(Answer(op, s, d))
           /\ \A r : \A i \in Nat : At(r, i, Carried(op, s, d)) =>
                /\ Get(r, i) = op /\ Get(r, i + 1) = 0
                /\ At(r, i + 2, Answer(op, s, d))
<1> DEFINE u == <<op, 0>>
           v == Answer(op, s, d)
<1>1. u \in Seq(Nat) /\ Len(u) = 2 /\ u[1] = op /\ u[2] = 0
  OBVIOUS
<1>2. v \in Seq(Nat)
  BY AnswerType
<1>3. Carried(op, s, d) = u \o v
  BY DEF Carried
<1> HIDE DEF u, v
<1>4. u \o v \in Seq(Nat) /\ Len(u \o v) = 2 + Len(v)
  <2>1. u \in Seq(Nat) /\ v \in Seq(Nat)
    BY <1>1, <1>2
  <2>2. u \o v \in Seq(Nat) /\ Len(u \o v) = Len(u) + Len(v)
    BY <2>1, ConcatIs
  <2> QED BY <1>1, <2>2
<1>5. ASSUME NEW r, NEW i \in Nat, At(r, i, u \o v)
      PROVE  Get(r, i) = op /\ Get(r, i + 1) = 0 /\ At(r, i + 2, v)
  <2>1. At(r, i, u) /\ At(r, i + Len(u), v)
    BY <1>1, <1>2, <1>5, AtConcat
  <2>2. Get(r, i + 1 - 1) = u[1] /\ Get(r, i + 2 - 1) = u[2]
    BY <1>1, <2>1 DEF At
  <2>3. i + 1 - 1 = i /\ i + 2 - 1 = i + 1
    OBVIOUS
  <2> QED BY <1>1, <2>1, <2>2, <2>3
<1> QED BY <1>3, <1>4, <1>5 DEF v

LEMMA AnswersAre ==
    ASSUME NEW s \in Server, NEW d \in Seq(Nat), NEW ops \in Seq(Nat)
    PROVE  /\ AnswerWords(ops, 0, s, d) \in Seq(Seq(Nat))
           /\ Len(AnswerWords(ops, 0, s, d)) = Len(ops)
           /\ \A i \in 1 .. Len(ops) : AnswerWords(ops, 0, s, d)[i] = Carried(ops[i], s, d)
<1>1. AnswerWords(ops, 0, s, d) = [i \in 1 .. Len(ops) |-> Carried(ops[i], s, d)]
  BY DEF AnswerWords
<1> DEFINE w(i) == Carried(ops[i], s, d)
<1>2. ASSUME NEW i \in 1 .. Len(ops) PROVE w(i) \in Seq(Nat)
  <2>1. ops[i] \in Nat
    OBVIOUS
  <2> QED BY <2>1, CarriedIs
<1>3. Len(ops) \in Nat /\ AnswerWords(ops, 0, s, d) = [i \in 1 .. Len(ops) |-> w(i)]
  BY <1>1
<1> HIDE DEF w
<1>4. /\ AnswerWords(ops, 0, s, d) \in Seq(Seq(Nat)) /\ Len(AnswerWords(ops, 0, s, d)) = Len(ops)
      /\ \A i \in 1 .. Len(ops) : AnswerWords(ops, 0, s, d)[i] = w(i)
  <2> DEFINE g == [i \in 1 .. Len(ops) |-> w(i)]
  <2>1. g \in [1 .. Len(ops) -> Seq(Nat)] /\ \A i \in 1 .. Len(ops) : g[i] = w(i)
    BY <1>2
  <2> HIDE DEF g
  <2>2. g \in Seq(Seq(Nat)) /\ Len(g) = Len(ops)
    BY <1>3, <2>1, FunctionIs
  <2> QED BY <1>3, <2>1, <2>2 DEF g
<1> QED BY <1>4 DEF w

\* read_until() passes what leads to the call and stops where the call was carried out.
LEMMA ReachIs ==
    ASSUME NEW r \in Seq(Nat), NEW s \in Server, NEW d \in Seq(Nat), NEW p \in Seq(SkippedOps),
           NEW y \in Seq(Nat), y # <<>>, y[1] \notin SkippedOps, y[1] < 99,
           At(r, 10, FlattenSeq(AnswerWords(p \o y, 0, s, d)))
    PROVE  \E at \in Nat :
             /\ ReadUntil(r, y[1]) = at + 1 /\ at >= 10
             /\ At(r, at, Carried(y[1], s, d))
             /\ Len(y) = 2 => At(r, at + Len(Carried(y[1], s, d)), Carried(y[2], s, d))
             /\ Len(y) = 1 => at + Len(Carried(y[1], s, d))
                                = 10 + Len(FlattenSeq(AnswerWords(p \o y, 0, s, d)))
<1> DEFINE ops == p \o y
           A == AnswerWords(ops, 0, s, d)
           m == Len(p)
           n == Len(ops)
<1>0. SkippedOps \subseteq Nat
  BY OpIs DEF SkippedOps
<1>1. p \in Seq(Nat) /\ y \in Seq(Nat) /\ m \in Nat /\ Len(y) \in Nat \ {0}
  <2>1. p \in Seq(Nat)
    <3> HIDE DEF SkippedOps
    <3> QED BY <1>0, SeqWider
  <2>2. Len(y) \in Nat \ {0}
    OBVIOUS
  <2> QED BY <2>1, <2>2
<1>2. /\ ops \in Seq(Nat) /\ n = m + Len(y) /\ n \in Nat
      /\ \A i \in 1 .. m : ops[i] = p[i]
      /\ \A i \in 1 .. Len(y) : ops[m + i] = y[i]
  BY <1>1, ConcatIs
<1> HIDE DEF ops
<1>3. A \in Seq(Seq(Nat)) /\ Len(A) = n /\ \A i \in 1 .. n : A[i] = Carried(ops[i], s, d)
  BY <1>2, AnswersAre
<1> HIDE DEF A, m, n
<1>4. PICK g \in [0 .. n -> Seq(Nat)] : Joins(g, A) /\ FlattenSeq(A) = g[n]
  BY <1>3, FlattenIs
<1>5. At(r, 10, g[n])
  BY <1>4 DEF A, ops
<1>6. \A k \in 1 .. n : At(r, 10 + Len(g[k - 1]), A[k])
  BY <1>3, <1>4, <1>5, JoinAt
<1>7. \A k \in 0 .. n : g[k] \in Seq(Nat) /\ Len(g[k]) \in Nat
  <2>1. ASSUME NEW k \in 0 .. n PROVE g[k] \in Seq(Nat)
    OBVIOUS
  <2> QED BY <2>1
<1>8. ASSUME NEW k \in 1 .. n
      PROVE  /\ At(r, 10 + Len(g[k - 1]), Carried(ops[k], s, d)) /\ k - 1 \in 0 .. n
             /\ Len(g[k]) = Len(g[k - 1]) + Len(Carried(ops[k], s, d))
             /\ ops[k] \in Nat
  <2>1. A[k] = Carried(ops[k], s, d) /\ At(r, 10 + Len(g[k - 1]), A[k])
    BY <1>3, <1>6
  <2>2. ops[k] \in Nat /\ k - 1 \in 0 .. n
    BY <1>2 DEF n
  <2>3. g[k] = g[k - 1] \o A[k]
    BY <1>3, <1>4 DEF Joins
  <2>4. g[k - 1] \in Seq(Nat) /\ A[k] \in Seq(Nat)
    <3>1. Carried(ops[k], s, d) \in Seq(Nat)
      BY <2>2, CarriedIs
    <3> QED BY <1>7, <2>1, <2>2, <3>1
  <2> DEFINE u == g[k - 1]
             v == A[k]
  <2>5. u \in Seq(Nat) /\ v \in Seq(Nat) /\ g[k] = u \o v
    BY <2>3, <2>4
  <2> HIDE DEF u, v
  <2>6. Len(g[k]) = Len(u) + Len(v)
    BY <2>5, ConcatIs
  <2> QED BY <2>1, <2>2, <2>6 DEF u, v
<1>9. g[0] = <<>> /\ Len(g[0]) = 0
  BY <1>4 DEF Joins
<1>10. y[1] \in Nat
  BY <1>1
<1>11. PICK S : (\A at \in Nat : S[at] = ScanStep(r, y[1], S, at)) /\ ReadUntil(r, y[1]) = S[10]
  BY <1>10, ScanIs
<1> DEFINE T == {k \in 0 .. m : S[10 + Len(g[k])] = S[10]}
<1>12. 0 \in T
  BY <1>1, <1>9
<1>13. ASSUME NEW k \in 1 .. m, k - 1 \in T PROVE k \in T
  <2> DEFINE at == 10 + Len(g[k - 1])
             op == p[k]
  <2>1. k \in 1 .. n /\ k \in 0 .. m /\ k \in 0 .. n
    BY <1>1, <1>2
  <2>2. op \in SkippedOps /\ ops[k] = op /\ op \in Nat
    <3>1. p[k] \in SkippedOps
      BY DEF m
    <3> QED BY <1>0, <1>2, <3>1
  <2>3. at \in Nat /\ At(r, at, Carried(op, s, d)) /\ Len(g[k]) = Len(g[k - 1]) + Len(Carried(op, s, d))
    <3>1. Len(g[k - 1]) \in Nat
      BY <1>7, <1>8, <2>1
    <3>2. /\ At(r, 10 + Len(g[k - 1]), Carried(ops[k], s, d))
          /\ Len(g[k]) = Len(g[k - 1]) + Len(Carried(ops[k], s, d))
      BY <1>8, <2>1
    <3> QED BY <2>2, <3>1, <3>2
  <2>4. Len(g[k - 1]) \in Nat
    BY <1>7, <1>8, <2>1
  <2> DEFINE l == Len(g[k - 1])
  <2>5. Len(Carried(op, s, d)) = 2 + Skip(op) /\ Skip(op) \in Nat
    <3> HIDE DEF op
    <3>1. Len(Carried(op, s, d)) = 2 + Len(Answer(op, s, d))
      BY <2>2, CarriedIs
    <3>2. Len(Answer(op, s, d)) = Skip(op)
      BY <2>2, SkipsAnswer
    <3>3. Skip(op) \in Nat
      BY <2>2, SkipIs
    <3> QED BY <3>1, <3>2, <3>3
  <2> DEFINE z == Skip(op)
  <2>6. 10 + Len(g[k]) = at + 2 + z
    <3> HIDE DEF z, op
    <3>1. z \in Nat /\ Len(g[k]) = l + (2 + z) /\ l \in Nat
      BY <2>3, <2>4, <2>5 DEF z
    <3> HIDE DEF l
    <3>2. 10 + Len(g[k]) = (10 + l) + 2 + z
      BY <3>1
    <3> QED BY <3>2 DEF l
  <2> HIDE DEF at, z, op
  <2>7. Get(r, at) = op /\ Get(r, at + 1) = 0
    BY <2>2, <2>3, CarriedIs
  <2>8. S[at] = S[at + 2 + z]
    <3>1. op # y[1]
      BY <2>2
    <3> QED BY <1>11, <2>2, <2>3, <2>7, <3>1 DEF ScanStep, z
  <2>9. S[at] = S[10]
    BY <1>13 DEF at
  <2> QED BY <2>1, <2>6, <2>8, <2>9
<1>14. m \in T
  <2> HIDE DEF T
  <2>1. \A k \in 0 .. m : k \in T
    BY <1>1, <1>12, <1>13, Induction
  <2> QED BY <1>1, <2>1
<1> DEFINE at == 10 + Len(g[m])
           h == y[1]
<1>15. /\ m \in 0 .. n /\ m + 1 \in 1 .. n /\ (m + 1) - 1 = m /\ ops[m + 1] = h
       /\ 1 \in 1 .. Len(y)
  BY <1>1, <1>2
<1>16. at \in Nat /\ at >= 10 /\ Len(g[m]) \in Nat
  BY <1>7, <1>15
<1>17. At(r, at, Carried(h, s, d)) /\ Len(g[m + 1]) = Len(g[m]) + Len(Carried(h, s, d))
  BY <1>8, <1>15
<1>18. ReadUntil(r, h) = at + 1
  <2>1. S[at] = S[10]
    BY <1>14
  <2> HIDE DEF at, h
  <2>2. Get(r, at) = h
    <3>1. h \in Nat
      BY <1>10 DEF h
    <3>2. \A i \in Nat : At(r, i, Carried(h, s, d)) => Get(r, i) = h
      BY <3>1, CarriedIs
    <3> QED BY <1>16, <1>17, <3>2
  <2>3. S[at] = at + 1
    BY <1>11, <1>16, <2>2 DEF ScanStep, h
  <2> QED BY <1>11, <2>1, <2>3 DEF h
<1>19. Carried(h, s, d) \in Seq(Nat) /\ Len(Carried(h, s, d)) \in Nat
  <2>1. Carried(h, s, d) \in Seq(Nat)
    BY <1>10, CarriedIs
  <2> QED BY <2>1
<1>20. at + Len(Carried(h, s, d)) = 10 + Len(g[m + 1])
  <2> DEFINE x == Len(Carried(h, s, d))
             l == Len(g[m])
  <2>1. x \in Nat /\ l \in Nat /\ Len(g[m + 1]) = l + x
    BY <1>16, <1>17, <1>19
  <2> HIDE DEF x, l
  <2>2. (10 + l) + x = 10 + Len(g[m + 1])
    BY <2>1
  <2> QED BY <2>2 DEF x, l
<1>21. Len(y) = 2 => At(r, at + Len(Carried(h, s, d)), Carried(y[2], s, d))
  <2>1. SUFFICES ASSUME Len(y) = 2
                 PROVE  At(r, at + Len(Carried(h, s, d)), Carried(y[2], s, d))
    OBVIOUS
  <2>2. m + 2 \in 1 .. n /\ (m + 2) - 1 = m + 1 /\ ops[m + 2] = y[2]
    BY <1>1, <1>2, <2>1
  <2>3. At(r, 10 + Len(g[m + 1]), Carried(y[2], s, d))
    BY <1>8, <2>2
  <2> QED BY <1>20, <2>3
<1>22. Len(y) = 1 => at + Len(Carried(h, s, d)) = 10 + Len(FlattenSeq(A))
  <2>1. Len(y) = 1 => n = m + 1
    BY <1>2
  <2> QED BY <1>4, <1>20, <2>1
<1> HIDE DEF at
<1> QED BY <1>16, <1>17, <1>18, <1>21, <1>22 DEF A, ops, h

-----------------------------------------------------------------------------
\* Four letters to a word and back.
LEMMA LetterBack ==
    ASSUME NEW a \in 0 .. 3, NEW b \in 0 .. 3, NEW e \in 0 .. 3, NEW h \in 0 .. 3
    PROVE  LET w == a + 4 * b + 16 * e + 64 * h
           IN  /\ (w \div 1) % 4 = a /\ (w \div 4) % 4 = b
               /\ (w \div 16) % 4 = e /\ (w \div 64) % 4 = h
<1> DEFINE w == a + 4 * b + 16 * e + 64 * h
<1>1. (w \div 1) % 4 = a
  OBVIOUS
<1>2. w \div 4 = b + 4 * e + 16 * h
  OBVIOUS
<1>3. w \div 16 = e + 4 * h
  OBVIOUS
<1>4. w \div 64 = h
  OBVIOUS
<1> HIDE DEF w
<1>5. (w \div 4) % 4 = b
  BY <1>2
<1>6. (w \div 16) % 4 = e
  BY <1>3
<1>7. (w \div 64) % 4 = h
  BY <1>4
<1> QED BY <1>1, <1>5, <1>6, <1>7 DEF w

LEMMA WordBack ==
    ASSUME NEW s \in Name, NEW k \in 1 .. Len(s)
    PROVE  (Word(s, (k-1) \div 4 + 1) \div Weight[((k-1) % 4) + 1]) % 4 = s[k]
<1> DEFINE letter(j) == IF j <= Len(s) THEN s[j] ELSE 0
           i == (k-1) \div 4 + 1
<1>1. ASSUME NEW j \in Nat \ {0} PROVE letter(j) \in 0 .. 3
  <2>1. CASE j <= Len(s)
    <3>1. s[j] \in Letter
      BY <2>1 DEF Name
    <3> QED BY <2>1, <3>1, LetterIs
  <2>2. CASE ~(j <= Len(s))
    BY <2>2
  <2> QED BY <2>1, <2>2
<1>2. Len(s) \in Nat /\ i \in Nat \ {0} /\ k \in Nat \ {0}
  BY DEF Name
<1>3. Word(s, i) = letter(4*i - 3) + 4 * letter(4*i - 2) + 16 * letter(4*i - 1) + 64 * letter(4*i)
  BY DEF Word
<1>4. /\ (k-1) % 4 = 0 => 4*i - 3 = k
      /\ (k-1) % 4 = 1 => 4*i - 2 = k
      /\ (k-1) % 4 = 2 => 4*i - 1 = k
      /\ (k-1) % 4 = 3 => 4*i = k
      /\ (k-1) % 4 \in 0 .. 3
  BY <1>2
<1>5. letter(k) = s[k]
  OBVIOUS
<1>6. /\ 4*i - 3 \in Nat \ {0} /\ 4*i - 2 \in Nat \ {0} /\ 4*i - 1 \in Nat \ {0}
      /\ 4*i \in Nat \ {0}
  BY <1>2
<1> DEFINE a == letter(4*i - 3)
           b == letter(4*i - 2)
           e == letter(4*i - 1)
           h == letter(4*i)
<1>7. a \in 0 .. 3 /\ b \in 0 .. 3 /\ e \in 0 .. 3 /\ h \in 0 .. 3
  <2> HIDE DEF letter, i
  <2> QED BY <1>1, <1>6
<1> DEFINE w == Word(s, i)
<1>8. w = a + 4 * b + 16 * e + 64 * h
  BY <1>3
<1>9. Weight[1] = 1 /\ Weight[2] = 4 /\ Weight[3] = 16 /\ Weight[4] = 64
  BY DEF Weight
<1>10. /\ (k-1) % 4 = 0 => a = s[k]
       /\ (k-1) % 4 = 1 => b = s[k]
       /\ (k-1) % 4 = 2 => e = s[k]
       /\ (k-1) % 4 = 3 => h = s[k]
  <2> HIDE DEF letter, i
  <2> QED BY <1>4, <1>5
<1> HIDE DEF a, b, e, h, w
<1>11. /\ (w \div 1) % 4 = a /\ (w \div 4) % 4 = b
       /\ (w \div 16) % 4 = e /\ (w \div 64) % 4 = h
  BY <1>7, <1>8, LetterBack
<1>12. (w \div Weight[((k-1) % 4) + 1]) % 4 = s[k]
  <2> DEFINE q == (k-1) % 4
  <2>1. q \in 0 .. 3
    BY <1>4
  <2> HIDE DEF q
  <2>2. CASE q = 0
    BY <1>9, <1>10, <1>11, <2>2 DEF q
  <2>3. CASE q = 1
    BY <1>9, <1>10, <1>11, <2>3 DEF q
  <2>4. CASE q = 2
    BY <1>9, <1>10, <1>11, <2>4 DEF q
  <2>5. CASE q = 3
    BY <1>9, <1>10, <1>11, <2>5 DEF q
  <2> QED BY <2>1, <2>2, <2>3, <2>4, <2>5
<1> QED BY <1>12 DEF w

\* A name or a handle that lies in a reply is read as it was written.
LEMMA StringAt ==
    ASSUME NEW r \in Seq(Nat), NEW i \in Nat, NEW s \in Name, Len(s) < W - 3,
           At(r, i, String(s)), NEW m \in Nat, Len(s) <= m
    PROVE  Get(r, i) = Len(s) /\ Letters(Take(r, i + 1, m), Len(s)) = s
<1> DEFINE n == Len(s)
           u == <<n>>
           v == Words(s)
           w == Take(r, i + 1, m)
<1>1. s \in Seq(Nat) /\ n \in Nat /\ W \in Nat
  BY NameIs, WIs
<1>2. v \in Seq(Nat) /\ Len(v) = (n + 3) \div 4
  BY <1>1, StringType, PadIs
<1>3. u \in Seq(Nat) /\ Len(u) = 1 /\ u[1] = n
  BY <1>1
<1>4. At(r, i, u \o v)
  BY DEF String
<1> HIDE DEF u, v
<1>5. At(r, i, u) /\ At(r, i + Len(u), v)
  BY <1>2, <1>3, <1>4, AtConcat
<1>6. Get(r, i) = n
  <2>1. Get(r, i + 1 - 1) = u[1] /\ i + 1 - 1 = i
    BY <1>3, <1>5 DEF At
  <2> QED BY <1>3, <2>1
<1>7. \A j \in 1 .. m : w[j] = Get(r, (i + 1) + j - 1)
  BY DEF Take
<1> HIDE DEF w
<1>8. \A j \in 1 .. Len(v) : Get(r, (i + 1) + j - 1) = v[j]
  BY <1>3, <1>5 DEF At
<1>9. ASSUME NEW k \in 1 .. n
      PROVE  (w[(k-1) \div 4 + 1] \div Weight[((k-1) % 4) + 1]) % 4 = s[k]
  <2> DEFINE j == (k-1) \div 4 + 1
  <2>1. j \in 1 .. (n + 3) \div 4 /\ j \in 1 .. m
    BY <1>1
  <2>2. v[j] = Word(s, j)
    <3>1. j \in 1 .. Pad(Len(s)) \div 4
      BY <1>1, <2>1, PadIs
    <3> HIDE DEF j
    <3> QED BY <3>1 DEF v, Words
  <2>3. w[j] = Word(s, j)
    <3> HIDE DEF j, n
    <3> QED BY <1>2, <1>7, <1>8, <2>1, <2>2
  <2> QED BY <2>3, WordBack
<1>10. Letters(w, n) = [k \in 1 .. n |-> s[k]]
  BY <1>9 DEF Letters
<1>11. s = [k \in 1 .. n |-> s[k]]
  BY <1>1
<1> QED BY <1>6, <1>10, <1>11 DEF w

-----------------------------------------------------------------------------
\* A reply without the word that says how long it is.
First(xid, status, n) == <<xid, 1, 0, 0, 0, 0, status, 0, n>>
Behind(ops, status, s, d)    == FlattenSeq(AnswerWords(ops, status, s, d))
Body(xid, ops, status, s, d) == First(xid, status, Len(ops)) \o Behind(ops, status, s, d)

LEMMA FirstIs ==
    ASSUME NEW xid \in Nat, NEW status \in Nat, NEW n \in Nat
    PROVE  /\ First(xid, status, n) \in Seq(Nat) /\ Len(First(xid, status, n)) = 9
           /\ First(xid, status, n)[7] = status
           /\ First(xid, status, n)[1] = xid /\ First(xid, status, n)[2] = 1
           /\ \A i \in {3, 4, 5, 6, 8} : First(xid, status, n)[i] = 0
BY DEF First

LEMMA BodyIs ==
    ASSUME NEW xid \in Nat, NEW ops \in Seq(Nat), NEW status \in Nat, NEW s \in Server,
           NEW d \in Seq(Nat)
    PROVE  /\ Reply(xid, ops, status, s, d)
                = <<4 * Len(Body(xid, ops, status, s, d))>> \o Body(xid, ops, status, s, d)
           /\ Body(xid, ops, status, s, d) \in Seq(Nat) /\ Behind(ops, status, s, d) \in Seq(Nat)
           /\ Len(Body(xid, ops, status, s, d)) = 9 + Len(Behind(ops, status, s, d))
           /\ At(Body(xid, ops, status, s, d), 1, First(xid, status, Len(ops)))
           /\ At(Body(xid, ops, status, s, d), 10, Behind(ops, status, s, d))
           /\ Body(xid, ops, status, s, d)[7] = First(xid, status, Len(ops))[7]
<1> DEFINE u == First(xid, status, Len(ops))
           w == Behind(ops, status, s, d)
           b == u \o w
<1>1. u \in Seq(Nat) /\ Len(u) = 9
  <2> DEFINE n == Len(ops)
  <2>1. n \in Nat
    OBVIOUS
  <2> HIDE DEF n
  <2>2. First(xid, status, n) \in Seq(Nat) /\ Len(First(xid, status, n)) = 9
    BY <2>1 DEF First
  <2> QED BY <2>2 DEF n
<1>2. w \in Seq(Nat)
  BY ReplyIs, FlattenType DEF Behind
<1>3. Reply(xid, ops, status, s, d) = <<4 * Len(b)>> \o b
  BY DEF Reply, Behind, AnswerWords, Refused, Carried, First
<1>4. Body(xid, ops, status, s, d) = b
  BY DEF Body
<1> HIDE DEF u, w
<1>5. u \in Seq(Nat) /\ w \in Seq(Nat)
  BY <1>1, <1>2
<1>6. b \in Seq(Nat) /\ Len(b) = Len(u) + Len(w) /\ \A i \in 1 .. Len(u) : b[i] = u[i]
  BY <1>5, ConcatIs
<1>7. At(b, 1, u) /\ At(b, Len(u) + 1, w)
  BY <1>5, AtBehind
<1> HIDE DEF b
<1>8. At(b, 10, w) /\ b[7] = u[7]
  BY <1>1, <1>6, <1>7
<1> QED BY <1>1, <1>2, <1>3, <1>4, <1>6, <1>7, <1>8 DEF u, w

LEMMA BodyType ==
    ASSUME NEW xid \in Nat, NEW ops \in Seq(Nat), NEW status \in Nat, NEW s \in Server,
           NEW d \in Seq(Nat)
    PROVE  /\ Body(xid, ops, status, s, d) \in Seq(Nat)
           /\ Len(Body(xid, ops, status, s, d)) >= 9
           /\ Body(xid, ops, status, s, d)[7] = status
<1> DEFINE b == Body(xid, ops, status, s, d)
           w == Behind(ops, status, s, d)
           u == First(xid, status, Len(ops))
<1>1. b \in Seq(Nat) /\ w \in Seq(Nat) /\ Len(b) = 9 + Len(w) /\ b[7] = u[7]
  <2>1. b \in Seq(Nat)
    BY BodyIs, ZenonT(80)
  <2>2. w \in Seq(Nat)
    BY BodyIs, ZenonT(80)
  <2>3. Len(b) = 9 + Len(w)
    BY BodyIs, ZenonT(80)
  <2>4. b[7] = u[7]
    BY BodyIs, ZenonT(80)
  <2> QED BY <2>1, <2>2, <2>3, <2>4
<1>2. u[7] = status
  BY DEF First
<1> HIDE DEF b, w, u
<1>3. Len(w) \in Nat /\ b[7] = u[7]
  BY <1>1
<1> QED BY <1>1, <1>2, <1>3 DEF b

\* A reply that reports an error is nothing but an error.
LEMMA RefusedFails ==
    ASSUME NEW x, NEW r \in Seq(Nat), Len(r) >= 9, r[7] # 0
    PROVE  Outcomes(x, r) = {Failed}
<1> DEFINE t == Take(r, 1, 8)
           e == <<c.xid, 1, 0, 0, 0, 0, 0, 0>>
<1>1. t[7] = r[7]
  <2>1. Take(r, 1, 8)[7] = Get(r, 1 + 7 - 1) /\ 1 + 7 - 1 = 7 /\ 7 \in DOMAIN r
    BY DEF Take
  <2> QED BY <2>1 DEF Get
<1>2. e[7] = 0
  OBVIOUS
<1> HIDE DEF t, e
<1>3. t # e
  BY <1>1, <1>2
<1>4. ~ParseRpc(r)
  BY <1>3 DEF ParseRpc, t, e
<1> QED BY <1>4 DEF Outcomes

LEMMA RpcIs ==
    ASSUME c \in Client, NEW r \in Seq(Nat), NEW n \in Nat, At(r, 1, First(c.xid, 0, n))
    PROVE  ParseRpc(r)
<1> DEFINE u == First(c.xid, 0, n)
           e == <<c.xid, 1, 0, 0, 0, 0, 0, 0>>
<1>1. c.xid \in Nat
  BY ClientIs
<1>2. /\ Len(u) = 9 /\ u[1] = c.xid /\ u[2] = 1 /\ \A i \in {3, 4, 5, 6, 8} : u[i] = 0
      /\ u[7] = 0
  <2>1. /\ Len(u) = 9 /\ u[7] = 0 /\ u[1] = c.xid /\ u[2] = 1
        /\ u[3] = 0 /\ u[4] = 0 /\ u[5] = 0 /\ u[6] = 0 /\ u[8] = 0
    BY DEF First
  <2> HIDE DEF u
  <2> QED BY <2>1
<1>3. \A i \in 1 .. 8 : e[i] = u[i]
  BY <1>2
<1>4. \A i \in 1 .. 9 : Get(r, 1 + i - 1) = u[i]
  BY <1>2 DEF At
<1>5. e = [i \in 1 .. 8 |-> e[i]]
  OBVIOUS
<1> HIDE DEF u, e
<1>6. \A i \in 1 .. 8 : Get(r, 1 + i - 1) = e[i]
  BY <1>3, <1>4
<1>7. Take(r, 1, 8) = [i \in 1 .. 8 |-> e[i]]
  BY <1>6 DEF Take
<1> QED BY <1>5, <1>7 DEF ParseRpc, e

\* base_transact() parses the answer to its operation.
LEMMA AcceptedIs ==
    ASSUME c \in Client, NEW x \in NoFileCalls \union FileCalls, NEW s \in Server,
           NEW d \in Seq(Nat), NEW ops, Leads(ops, Carrying(x))
    PROVE  LET r == Body(c.xid, ops, 0, s, d)
               w == Answer(Which(x), s, d)
           IN  \E i \in Nat :
                 /\ i >= 12 /\ Outcomes(x, r) = Parse(x, r, i) /\ At(r, i, w)
                 /\ x.kind = "open" => At(r, i + Len(w), Carried(Op.GETFH, s, d))
                 /\ x.kind # "open" => i + Len(w) = Len(r) + 1
<1> DEFINE r == Body(c.xid, ops, 0, s, d)
           y == Carrying(x)
           h == Which(x)
           w == Answer(h, s, d)
           z == Behind(ops, 0, s, d)
<1>1. PICK p \in Seq(SkippedOps) : ops = p \o y
  BY DEF Leads
<1>2. x.kind \in Kinds
  BY CallKind
<1>3. h \in Nat /\ h \notin SkippedOps /\ h < 99
  <2>1. h \in Nat /\ h \notin SkippedOps
    BY <1>2, WhichIs
  <2>2. h \in {9, 10, 12, 14, 18, 25, 28, 38, 42, 43, 58}
    BY <1>2, WhichIs, OpIs DEF Kinds
  <2> QED BY <2>1, <2>2
<1>4. /\ y \in Seq(Nat) /\ y # <<>> /\ y[1] = h
      /\ x.kind = "open" => Len(y) = 2 /\ y[2] = Op.GETFH
      /\ x.kind # "open" => Len(y) = 1
  <2>1. CASE x.kind = "open"
    <3>1. y = <<Op.OPEN, Op.GETFH>> /\ h = Op.OPEN
      BY <1>2, <2>1, WhichIs DEF Carrying
    <3>2. Op.OPEN \in Nat /\ Op.GETFH \in Nat
      BY OpIs
    <3> HIDE DEF y, h
    <3> QED BY <2>1, <3>1, <3>2
  <2>2. CASE x.kind # "open"
    <3>1. y = <<h>>
      BY <2>2 DEF Carrying
    <3> HIDE DEF y, h
    <3> QED BY <1>3, <2>2, <3>1
  <2> QED BY <2>1, <2>2
<1>5. ops \in Seq(Nat) /\ c.xid \in Nat
  <2>1. SkippedOps \subseteq Nat
    BY OpIs DEF SkippedOps
  <2> HIDE DEF y, SkippedOps
  <2>2. p \in Seq(Nat)
    BY <2>1, SeqWider
  <2>3. p \o y \in Seq(Nat)
    BY <1>4, <2>2, ConcatIs
  <2> QED BY <1>1, <2>3, ClientIs
<1>6. /\ r \in Seq(Nat) /\ z \in Seq(Nat) /\ Len(r) = 9 + Len(z)
      /\ At(r, 1, First(c.xid, 0, Len(ops))) /\ At(r, 10, z)
  <2> DEFINE xid == c.xid
             status == 0
  <2>1. xid \in Nat /\ status \in Nat
    BY <1>5
  <2> HIDE DEF xid, status, y, r, h, w, z
  <2>3. ops \in Seq(Nat) /\ s \in Server /\ d \in Seq(Nat)
    BY <1>5
  <2>2. /\ Body(xid, ops, status, s, d) \in Seq(Nat) /\ Behind(ops, status, s, d) \in Seq(Nat)
        /\ Len(Body(xid, ops, status, s, d)) = 9 + Len(Behind(ops, status, s, d))
        /\ At(Body(xid, ops, status, s, d), 1, First(xid, status, Len(ops)))
        /\ At(Body(xid, ops, status, s, d), 10, Behind(ops, status, s, d))
    BY <2>1, <2>3, BodyIs, ZenonT(80)
  <2> QED BY <2>2 DEF xid, status, r, z
<1>7. ParseRpc(r)
  <2> HIDE DEF r
  <2>1. Len(ops) \in Nat
    BY <1>5
  <2> QED BY <1>6, <2>1, RpcIs
<1> HIDE DEF r, y, h
<1>8. PICK at \in Nat :
        /\ ReadUntil(r, h) = at + 1 /\ at >= 10
        /\ At(r, at, Carried(h, s, d))
        /\ Len(y) = 2 => At(r, at + Len(Carried(h, s, d)), Carried(y[2], s, d))
        /\ Len(y) = 1 => at + Len(Carried(h, s, d)) = 10 + Len(z)
  <2>1. At(r, 10, FlattenSeq(AnswerWords(p \o y, 0, s, d)))
    BY <1>1, <1>6 DEF Behind
  <2>3. r \in Seq(Nat) /\ y \in Seq(Nat) /\ y # <<>> /\ y[1] \notin SkippedOps /\ y[1] < 99
    BY <1>3, <1>4, <1>6
  <2> HIDE DEF z, w
  <2>2. \E at \in Nat :
          /\ ReadUntil(r, y[1]) = at + 1 /\ at >= 10
          /\ At(r, at, Carried(y[1], s, d))
          /\ Len(y) = 2 => At(r, at + Len(Carried(y[1], s, d)), Carried(y[2], s, d))
          /\ Len(y) = 1 => at + Len(Carried(y[1], s, d))
                             = 10 + Len(FlattenSeq(AnswerWords(p \o y, 0, s, d)))
    BY <2>1, <2>3, ReachIs
  <2> QED BY <1>1, <1>4, <2>2 DEF z, Behind
<1>9. /\ Len(Carried(h, s, d)) = 2 + Len(w) /\ Get(r, at + 1) = 0 /\ At(r, at + 2, w)
  <2>1. \A i \in Nat : At(r, i, Carried(h, s, d)) => Get(r, i + 1) = 0 /\ At(r, i + 2, w)
    BY <1>3, CarriedIs
  <2>2. Len(Carried(h, s, d)) = 2 + Len(w)
    BY <1>3, CarriedIs
  <2> QED BY <1>8, <2>1, <2>2
<1>10. Len(w) \in Nat
  <2>1. w \in Seq(Nat)
    BY AnswerType
  <2> HIDE DEF w
  <2> QED BY <2>1
<1> HIDE DEF w, z
<1>11. Outcomes(x, r) = Parse(x, r, at + 2)
  <2>1. (at + 1) + 1 = at + 2 /\ at + 1 # 0
    OBVIOUS
  <2>2. ReadUntil(r, Which(x)) = at + 1
    BY <1>8 DEF h
  <2> QED BY <1>7, <1>9, <2>1, <2>2 DEF Outcomes
<1>12. x.kind = "open" => At(r, (at + 2) + Len(w), Carried(Op.GETFH, s, d))
  <2>1. at + (2 + Len(w)) = (at + 2) + Len(w)
    BY <1>10
  <2> QED BY <1>4, <1>8, <1>9, <2>1
<1>13. x.kind # "open" => (at + 2) + Len(w) = Len(r) + 1
  <2>1. SUFFICES ASSUME x.kind # "open" PROVE (at + 2) + Len(w) = Len(r) + 1
    OBVIOUS
  <2>2. at + Len(Carried(h, s, d)) = 10 + Len(z) /\ Len(z) \in Nat
    BY <1>4, <1>6, <1>8, <2>1
  <2> DEFINE l == Len(z)
  <2>3. at + (2 + Len(w)) = 10 + l /\ Len(r) = 9 + l /\ l \in Nat
    BY <1>6, <1>9, <2>2
  <2> HIDE DEF l
  <2> QED BY <1>10, <2>3
<1> DEFINE i == at + 2
<1>14. i \in Nat /\ i >= 12
  BY <1>8
<1> HIDE DEF i
<1> QED BY <1>9, <1>11, <1>12, <1>13, <1>14 DEF i, r, w, h

-----------------------------------------------------------------------------
\* What a call that was carried out leaves in the client.

LEMMA TakeAt ==
    ASSUME NEW r, NEW i \in Nat, NEW w \in Seq(Nat), At(r, i, w)
    PROVE  Take(r, i, Len(w)) = w
<1>1. Take(r, i, Len(w)) = [j \in 1 .. Len(w) |-> w[j]]
  BY DEF Take, At
<1> QED BY <1>1

LEMMA FirstAt ==
    ASSUME NEW r, NEW i \in Nat, NEW w \in Seq(Nat), w # <<>>, At(r, i, w)
    PROVE  Get(r, i) = w[1]
<1>1. 1 \in 1 .. Len(w) /\ i + 1 - 1 = i
  OBVIOUS
<1> QED BY <1>1 DEF At

LEMMA ExchangeLeaves ==
    ASSUME c \in Client, NEW s \in Server, NEW r \in Seq(Nat), NEW i \in Nat,
           NEW x, x.kind = "exchange_id", At(r, i, ToExchange(s)), NEW o \in Parse(x, r, i)
    PROVE  o.ok /\ o.f = f /\ o.c.clientid = s.clientid /\ o.c.serverSequence = s.seqid
<1> DEFINE u == s.clientid
           v == <<s.seqid, 0, 0, 0>>
<1>1. u \in Seq(Nat) /\ Len(u) = 2 /\ v \in Seq(Nat)
  BY ServerIs
<1>2. At(r, i, u \o v)
  BY DEF ToExchange
<1>7. v[1] = s.seqid /\ v # <<>>
  OBVIOUS
<1> HIDE DEF u, v
<1>3. At(r, i, u) /\ At(r, i + Len(u), v)
  BY <1>1, <1>2, AtConcat
<1>4. Take(r, i, 2) = u
  BY <1>1, <1>3, TakeAt
<1> DEFINE n == Get(r, i + 2)
           k == [c EXCEPT !.clientid = Take(r, i, 2), !.serverSequence = n]
<1>5. o = Outcome(TRUE, k, f, <<>>)
  BY DEF Parse
<1>6. k.clientid = Take(r, i, 2) /\ k.serverSequence = n
  <2> HIDE DEF n
  <2> QED BY DEF Client
<1> HIDE DEF k
<1>8. n = s.seqid
  <2>1. At(r, i + 2, v) /\ i + 2 \in Nat
    BY <1>1, <1>3
  <2>2. Get(r, i + 2) = v[1]
    BY <1>1, <1>7, <2>1, FirstAt
  <2> QED BY <1>7, <2>2
<1> QED BY <1>4, <1>5, <1>6, <1>8 DEF Outcome, u

LEMMA SessionLeaves ==
    ASSUME c \in Client, NEW s \in Server, NEW r \in Seq(Nat), NEW i \in Nat,
           NEW x, x.kind = "create_session", At(r, i, ToCreate(s)), NEW o \in Parse(x, r, i)
    PROVE  /\ o.ok /\ o.f = f /\ o.c.clientid = c.clientid /\ o.c.sequence = c.sequence
           /\ o.c.session = s.session
           /\ \A n \in {o.c.maxreq, o.c.maxresp, o.c.maxops, o.c.maxreqs} : n <= s.limit
<1> DEFINE u == s.session
           v == <<s.seqid, 1>>
           h == Channel(s)
           t == Take(r, i + 7, 5)
<1>1. u \in Seq(Nat) /\ Len(u) = 4 /\ v \in Seq(Nat) /\ Len(v) = 2 /\ s.limit \in Nat
  BY ServerIs
<1>2. h \in Seq(Nat) /\ Len(h) = 7
  <2>1. 1048576 \in Nat
    BY SMT
  <2>2. \A m \in Nat : /\ <<0, s.limit, s.limit, m, s.limit, s.limit, 0>> \in Seq(Nat)
                       /\ Len(<<0, s.limit, s.limit, m, s.limit, s.limit, 0>>) = 7
    BY <1>1
  <2> QED BY SMT, <2>1, <2>2 DEF Channel
<1>3. h[2] = s.limit /\ h[3] = s.limit /\ h[5] = s.limit /\ h[6] = s.limit
  BY SMT DEF Channel
<1>4. At(r, i, ((u \o v) \o h) \o h)
  BY DEF ToCreate
<1> HIDE DEF u, v, h
<1>5. /\ u \o v \in Seq(Nat) /\ Len(u \o v) = 6 /\ (u \o v) \o h \in Seq(Nat)
  <2>1. u \o v \in Seq(Nat) /\ Len(u \o v) = Len(u) + Len(v)
    BY <1>1, ConcatIs
  <2> DEFINE z == u \o v
  <2>2. z \in Seq(Nat) /\ h \in Seq(Nat)
    BY <1>2, <2>1
  <2> HIDE DEF z
  <2>3. z \o h \in Seq(Nat)
    BY <2>2, ConcatIs
  <2> QED BY <1>1, <2>1, <2>3 DEF z
<1> DEFINE z == u \o v
           y == z \o h
<1>6. z \in Seq(Nat) /\ Len(z) = 6 /\ y \in Seq(Nat) /\ At(r, i, y \o h)
  BY <1>4, <1>5
<1> HIDE DEF y
<1>7. At(r, i, y)
  BY <1>2, <1>6, AtConcat
<1>8. At(r, i, z \o h)
  BY <1>7 DEF y
<1> HIDE DEF z
<1>9. At(r, i, z) /\ At(r, i + Len(z), h)
  BY <1>2, <1>6, <1>8, AtConcat
<1>10. At(r, i, u)
  BY <1>1, <1>9, AtConcat DEF z
<1>11. Take(r, i, 4) = u
  BY <1>1, <1>10, TakeAt
<1>12. \A j \in 1 .. 7 : Get(r, (i + 6) + j - 1) = h[j]
  BY <1>2, <1>6, <1>9 DEF At
<1>13. \A j \in 1 .. 5 : t[j] = Get(r, (i + 7) + j - 1)
  BY DEF Take
<1> HIDE DEF t
<1>14. \A j \in 1 .. 5 : t[j] = h[j + 1]
  <2>1. ASSUME NEW j \in 1 .. 5 PROVE t[j] = h[j + 1]
    <3>1. j + 1 \in 1 .. 7 /\ (i + 7) + j - 1 = (i + 6) + (j + 1) - 1
      OBVIOUS
    <3> QED BY <1>12, <1>13, <3>1
  <2> QED BY <2>1
<1>15. t[1] = s.limit /\ t[2] = s.limit /\ t[4] = s.limit /\ t[5] = s.limit
  <2>1. t[1] = h[2] /\ t[2] = h[3] /\ t[4] = h[5] /\ t[5] = h[6]
    BY <1>14
  <2> QED BY <1>3, <2>1
<1> DEFINE k == [c EXCEPT !.session = Take(r, i, 4)]
<1>16. o = Outcome(TRUE, AtMost(k, t), f, <<>>)
  BY DEF Parse, t
<1>17. Take(r, i, 4) \in Four
  BY GetType DEF Four
<1>18. k \in Client /\ k.session = u /\ k.clientid = c.clientid /\ k.sequence = c.sequence
  BY <1>11, <1>17 DEF Client
<1> HIDE DEF k
<1>19. /\ AtMost(k, t).session = k.session /\ AtMost(k, t).clientid = k.clientid
       /\ AtMost(k, t).sequence = k.sequence
       /\ AtMost(k, t).maxreq = Min2(k.maxreq, t[1])
       /\ AtMost(k, t).maxresp = Min2(k.maxresp, t[2])
       /\ AtMost(k, t).maxops = Min2(k.maxops, t[4])
       /\ AtMost(k, t).maxreqs = Min2(k.maxreqs, t[5])
  BY <1>18 DEF AtMost, Client
<1>20. \A n \in Nat : Min2(n, s.limit) <= s.limit
  BY <1>1 DEF Min2
<1>21. o.c = AtMost(k, t) /\ o.ok /\ o.f = f
  BY <1>16 DEF Outcome
<1>22. k.maxreq \in Nat /\ k.maxresp \in Nat /\ k.maxops \in Nat /\ k.maxreqs \in Nat
  BY <1>18, ClientIs
<1> QED BY <1>15, <1>18, <1>19, <1>20, <1>21, <1>22 DEF u

LEMMA RootLeaves ==
    ASSUME c \in Client, NEW s \in Server, NEW r \in Seq(Nat), NEW i \in Nat,
           NEW x, x.kind = "root_fh", s.fh = <<>>, Len(s.root) <= FhSize,
           At(r, i, ToGetfh(s)), NEW o \in Parse(x, r, i)
    PROVE  o.ok /\ o.f = f /\ o.c = [c EXCEPT !.root = s.root]
<1> DEFINE h == s.root
<1>1. h \in Name /\ h \in Seq(Nat) /\ Len(h) <= FhSize
  BY ServerIs, NameIs
<1>2. FhSize \in Nat /\ FhSize <= W - 4 /\ W \in Nat
  BY SizeAssumption, WIs
<1>3. At(r, i, String(h))
  BY DEF ToGetfh
<1> HIDE DEF h
<1>4. Len(h) \in Nat
  BY <1>1
<1>5. Len(h) < W - 3
  BY <1>1, <1>2, <1>4
<1>6. Get(r, i) = Len(h) /\ Letters(Take(r, i + 1, FhSize), Len(h)) = h
  BY <1>1, <1>2, <1>3, <1>5, StringAt
<1>7. ~(Get(r, i) > FhSize)
  BY <1>1, <1>2, <1>4, <1>6
<1>8. o = Outcome(TRUE, [c EXCEPT !.root = Letters(Take(r, i + 1, FhSize), Get(r, i))], f, <<>>)
  BY <1>7 DEF Parse
<1> QED BY <1>6, <1>8 DEF Outcome, h

LEMMA SizeLeaves ==
    ASSUME NEW s \in Server, NEW r \in Seq(Nat), NEW i \in Nat,
           NEW x, x.kind = "size", Len(s.value) = 2, At(r, i, ToGetattr(s)),
           i + Len(ToGetattr(s)) = Len(r) + 1, NEW o \in Parse(x, r, i)
    PROVE  o.ok /\ o.f = f /\ o.c = c /\ o.value = s.value
<1> DEFINE u == <<1, 16, 8>>
           v == s.value
<1>1. u \in Seq(Nat) /\ Len(u) = 3 /\ v \in Seq(Nat) /\ Len(v) = 2
  BY ServerIs
<1>2. At(r, i, u \o v) /\ i + Len(u \o v) = Len(r) + 1
  BY DEF ToGetattr
<1> HIDE DEF u, v
<1>3. At(r, i + 3, v)
  BY <1>1, <1>2, AtConcat
<1>4. Take(r, i + 3, 2) = v
  <2>1. i + 3 \in Nat
    OBVIOUS
  <2> QED BY <1>1, <1>3, <2>1, TakeAt
<1>5. i + 3 = Len(r) - 1
  <2> DEFINE n == Len(r)
  <2>1. n \in Nat /\ i + 5 = n + 1
    <3>1. Len(u \o v) = Len(u) + Len(v)
      BY <1>1, ConcatIs, ZenonT(80)
    <3> QED BY <1>1, <1>2, <3>1
  <2> HIDE DEF n
  <2>2. i + 3 = n - 1
    BY <2>1
  <2> QED BY <2>2 DEF n
<1>6. o = Outcome(TRUE, c, f, Take(r, Len(r) - 1, 2))
  BY DEF Parse
<1> QED BY <1>4, <1>5, <1>6 DEF Outcome, v

LEMMA ReadLeaves ==
    ASSUME NEW s \in Server, NEW r \in Seq(Nat), Len(r) > 5, NEW i \in Nat,
           NEW x, x.kind = "read", s.value \in Name, Len(s.value) <= 6, At(r, i, ToRead(s)),
           NEW o \in Parse(x, r, i)
    PROVE  o.ok /\ o.f = f /\ o.c = c /\ o.value = s.value
<1> DEFINE u == <<1>>
           h == s.value
           m == Len(r)
<1>1. u \in Seq(Nat) /\ Len(u) = 1 /\ h \in Name /\ h \in Seq(Nat) /\ Len(h) <= 6 /\ m \in Nat
  BY NameIs
<1>2. String(h) \in Seq(Nat)
  BY <1>1, StringFits
<1>3. At(r, i, u \o String(h))
  BY DEF ToRead
<1>4. m > 5
  OBVIOUS
<1> HIDE DEF u, h, m
<1>5. At(r, i + 1, String(h))
  <2> DEFINE v == String(h)
  <2>1. v \in Seq(Nat) /\ At(r, i, u \o v)
    BY <1>2, <1>3
  <2> HIDE DEF v
  <2>2. At(r, i + Len(u), v)
    BY <1>1, <2>1, AtConcat
  <2> QED BY <1>1, <2>2 DEF v
<1>6. Len(h) \in Nat
  BY <1>1
<1>7. Len(h) < W - 3 /\ Len(h) <= m /\ i + 1 \in Nat /\ (i + 1) + 1 = i + 2
  BY <1>1, <1>4, <1>6, WIs
<1>8. Get(r, i + 1) = Len(h) /\ Letters(Take(r, (i + 1) + 1, m), Len(h)) = h
  BY <1>1, <1>5, <1>7, StringAt
<1>9. o = Outcome(TRUE, c, f, Letters(Take(r, i + 2, m), Get(r, i + 1)))
  BY DEF Parse, m
<1> QED BY <1>7, <1>8, <1>9 DEF Outcome, h

LEMMA LockLeaves ==
    ASSUME NEW s \in Server, NEW r \in Seq(Nat), NEW i \in Nat,
           NEW x, x.kind \in {"lock", "unlock"}, At(r, i, s.latest), NEW o \in Parse(x, r, i)
    PROVE  o.ok /\ o.c = c /\ o.f = [f EXCEPT !.latest = s.latest]
<1> DEFINE u == s.latest
<1>1. u \in Seq(Nat) /\ Len(u) = 4 /\ At(r, i, u)
  BY ServerIs
<1> HIDE DEF u
<1>2. Take(r, i, 4) = u
  BY <1>1, TakeAt
<1>3. o = Outcome(TRUE, c, [f EXCEPT !.latest = Take(r, i, 4)], <<>>)
  BY DEF Parse
<1> QED BY <1>2, <1>3 DEF Outcome, u

LEMMA NotEmpty ==
    ASSUME NEW w \in Seq(Nat), Len(w) > 0
    PROVE  w # <<>>
OBVIOUS

\* How long a name is stands in front of it.
LEMMA LengthAt ==
    ASSUME NEW r, NEW i \in Nat, NEW h \in Name, At(r, i, String(h))
    PROVE  Get(r, i) = Len(h)
<1> DEFINE u == <<Len(h)>>
           v == Words(h)
<1>1. u \in Seq(Nat) /\ u # <<>> /\ u[1] = Len(h)
  <2>1. Len(h) \in Nat
    BY NameIs
  <2> DEFINE n == Len(h)
  <2>2. n \in Nat
    BY <2>1
  <2> HIDE DEF n
  <2>3. <<n>> \in Seq(Nat) /\ <<n>> # <<>> /\ <<n>>[1] = n
    BY <2>2
  <2> QED BY <2>3 DEF n
<1>2. v \in Seq(Nat)
  BY NameIs, StringType
<1>3. At(r, i, u \o v)
  BY DEF String
<1> HIDE DEF u, v
<1>4. At(r, i, u)
  BY <1>1, <1>2, <1>3, AtConcat
<1> QED BY <1>1, <1>4, FirstAt

LEMMA AceAt ==
    ASSUME NEW r, NEW at \in Nat, NEW x \in Seq(Nat), Len(x) = 6, NEW name \in Name,
           Len(name) < W - 3, At(r, at, x \o Ace(name))
    PROVE  /\ Get(r, at) = x[1] /\ Get(r, at + 9) = Len(name)
           /\ Len(x \o Ace(name)) = 10 + (Len(name) + 3) \div 4
<1> DEFINE u == <<0, 0, 0>>
           v == String(name)
           y == Ace(name)
<1>1. u \in Seq(Nat) /\ Len(u) = 3 /\ y = u \o v
  BY DEF Ace
<1>2. v \in Seq(Nat) /\ Len(v) = 1 + Pad(Len(name)) \div 4 /\ Len(name) \in Nat
  BY NameIs, StringType
<1>3. y \in Seq(Nat) /\ At(r, at, x \o y)
  BY AceType
<1>4. Len(v) = 1 + (Len(name) + 3) \div 4
  BY <1>2, PadIs
<1> HIDE DEF u, v, y
<1>5. At(r, at, x) /\ At(r, at + 6, y)
  BY <1>3, AtConcat
<1>6. At(r, at + 9, v)
  <2>1. at + 6 \in Nat /\ (at + 6) + 3 = at + 9
    OBVIOUS
  <2>2. At(r, (at + 6) + Len(u), v)
    BY <1>1, <1>2, <1>5, <2>1, AtConcat
  <2> QED BY <1>1, <2>1, <2>2
<1>7. Get(r, at + 9) = Len(name)
  <2>1. at + 9 \in Nat
    OBVIOUS
  <2> QED BY <1>6, <2>1, LengthAt DEF v
<1>8. Get(r, at) = x[1]
  <2>1. x # <<>>
    <3>1. Len(x) > 0
      OBVIOUS
    <3> QED BY <3>1, NotEmpty
  <2> QED BY <1>5, <2>1, FirstAt
<1>9. Len(x \o y) = 6 + (3 + Len(v))
  <2>1. Len(x \o y) = Len(x) + Len(y)
    BY <1>3, ConcatIs
  <2>2. Len(u \o v) = Len(u) + Len(v)
    BY <1>1, <1>2, ConcatIs
  <2> QED BY <1>1, <2>1, <2>2
<1>10. Len(x \o y) = 10 + (Len(name) + 3) \div 4
  BY <1>2, <1>4, <1>9
<1> QED BY <1>7, <1>8, <1>10 DEF y

\* parse_open() gives up on a delegation, or it comes to its end, or one word too far.
LEMMA DelegationIs ==
    ASSUME NEW r, NEW at \in Nat, NEW d \in Delegations, At(r, at, d)
    PROVE  AfterDelegation(r, at) \in {0, at + Len(d), at + Len(d) + 1}
<1> DEFINE a == <<1, 1, 1, 1>>
           b == <<1, 1, 1, 1, 1>>
           e == <<1>>
           x == <<1, 1, 91, 92, 93, 0>>
           y == <<2, 1, 91, 92, 93, 0, 1, 0, 4096>>
           o == <<0>>
           p == <<3, 0>>
           q == <<3, 1, 0>>
           t == <<3, 2, 1>>
<1>1. /\ a \in Name /\ b \in Name /\ e \in Name
      /\ Len(a) = 4 /\ Len(b) = 5
  BY LetterIs DEF Name
<1>2. /\ x \in Seq(Nat) /\ Len(x) = 6 /\ x[1] = 1
      /\ y \in Seq(Nat) /\ y # <<>> /\ y[1] = 2
  OBVIOUS
<1>3. d \in {o, x \o Ace(a), x \o Ace(b), y \o Ace(e), p, q, t}
  <2>1. Delegations = {o, x \o Ace(a), x \o Ace(b), y \o Ace(e), p, q, t}
    BY DEF Delegations
  <2> HIDE DEF a, b, e, x, y, o, p, q, t
  <2> QED BY <2>1
<1>4. /\ Len(o) = 1 /\ o[1] = 0
      /\ Len(p) = 2 /\ p[1] = 3 /\ p[2] = 0
      /\ Len(q) = 3 /\ q[1] = 3 /\ q[2] = 1
      /\ Len(t) = 3 /\ t[1] = 3 /\ t[2] = 2
  OBVIOUS
<1>5. \A j \in 1 .. Len(d) : Get(r, at + j - 1) = d[j]
  BY DEF At
<1> HIDE DEF a, b, e, x, y, o, p, q, t
<1>6. 1 \in 1 .. Len(d) => Get(r, at) = d[1]
  <2>1. at + 1 - 1 = at
    OBVIOUS
  <2> QED BY <1>5, <2>1
<1>7. 2 \in 1 .. Len(d) => Get(r, at + 1) = d[2]
  <2>1. at + 2 - 1 = at + 1
    OBVIOUS
  <2> QED BY <1>5, <2>1
<1>8. CASE d = o
  <2>1. Get(r, at) = 0 /\ Len(d) = 1
    BY <1>4, <1>6, <1>8
  <2> QED BY <2>1 DEF AfterDelegation
<1>9. CASE d = p
  <2>1. Get(r, at) = 3 /\ Get(r, at + 1) = 0 /\ Len(d) = 2
    <3>1. Len(d) = 2 /\ d[1] = 3 /\ d[2] = 0
      BY <1>4, <1>9
    <3> QED BY <1>6, <1>7, <3>1
  <2> QED BY <2>1 DEF AfterDelegation
<1>10. CASE d = q
  <2>1. Get(r, at) = 3 /\ Get(r, at + 1) = 1 /\ Len(d) = 3
    <3>1. Len(d) = 3 /\ d[1] = 3 /\ d[2] = 1
      BY <1>4, <1>10
    <3> QED BY <1>6, <1>7, <3>1
  <2> QED BY <2>1 DEF AfterDelegation
<1>11. CASE d = t
  <2>1. Get(r, at) = 3 /\ Get(r, at + 1) = 2 /\ Len(d) = 3
    <3>1. Len(d) = 3 /\ d[1] = 3 /\ d[2] = 2
      BY <1>4, <1>11
    <3> QED BY <1>6, <1>7, <3>1
  <2> QED BY <2>1 DEF AfterDelegation
<1>12. CASE d = x \o Ace(a)
  <2>1. Get(r, at) = 1 /\ Get(r, at + 9) = 4 /\ Len(d) = 10 + (4 + 3) \div 4
    <3>1. Len(a) < W - 3
      BY <1>1, WIs
    <3>2. /\ Get(r, at) = x[1] /\ Get(r, at + 9) = Len(a)
          /\ Len(x \o Ace(a)) = 10 + (Len(a) + 3) \div 4
      BY <1>1, <1>2, <1>12, <3>1, AceAt
    <3> QED BY <1>1, <1>2, <1>12, <3>2
  <2> QED BY <2>1 DEF AfterDelegation
<1>13. CASE d = x \o Ace(b)
  <2>1. Get(r, at) = 1 /\ Get(r, at + 9) = 5
    <3>1. Len(b) < W - 3
      BY <1>1, WIs
    <3>2. Get(r, at) = x[1] /\ Get(r, at + 9) = Len(b)
      BY <1>1, <1>2, <1>13, <3>1, AceAt
    <3> QED BY <1>1, <1>2, <3>2
  <2> QED BY <2>1 DEF AfterDelegation
<1>14. CASE d = y \o Ace(e)
  <2>1. Ace(e) \in Seq(Nat)
    BY <1>1, AceType
  <2> DEFINE v == Ace(e)
  <2>2. v \in Seq(Nat) /\ At(r, at, y \o v)
    BY <1>14, <2>1
  <2> HIDE DEF v
  <2>3. At(r, at, y)
    BY <1>2, <2>2, AtConcat
  <2>4. Get(r, at) = 2
    BY <1>2, <2>3, FirstAt
  <2> QED BY <2>4 DEF AfterDelegation
<1> QED BY <1>3, <1>8, <1>9, <1>10, <1>11, <1>12, <1>13, <1>14

\* The handle is taken from the answer to a GETFH or not at all.
LEMMA HandleIs ==
    ASSUME NEW r \in Seq(Nat), NEW at \in Nat, NEW s \in Server, NEW d \in Seq(Nat),
           s.fh # <<>>, At(r, at, Carried(Op.GETFH, s, d))
    PROVE  FileHandle(r, at) \in {<<>>, s.fh} /\ FileHandle(r, at + 1) = <<>>
<1> DEFINE h == s.fh
<1>1. h \in Name /\ h # <<>>
  BY ServerIs
<1>2. Op.GETFH \in Nat /\ Op.GETFH # 0
  BY OpIs
<1>3. /\ Get(r, at) = Op.GETFH /\ Get(r, at + 1) = 0
      /\ At(r, at + 2, Answer(Op.GETFH, s, d))
  BY <1>2, CarriedIs
<1>4. Answer(Op.GETFH, s, d) = String(h)
  BY <1>1, AnswerIs DEF ToGetfh
<1>5. At(r, at + 2, String(h))
  BY <1>3, <1>4
<1> HIDE DEF h
<1>6. at + 2 \in Nat /\ at + 1 \in Nat /\ (at + 2) + 1 = at + 3
  OBVIOUS
<1>7. Get(r, at + 2) = Len(h) /\ Len(h) \in Nat
  BY <1>1, <1>5, <1>6, LengthAt, NameIs
<1>8. FileHandle(r, at + 1) = <<>>
  BY <1>2, <1>3 DEF FileHandle
<1>9. CASE Len(h) <= FhSize
  <2>1. FhSize \in Nat /\ FhSize <= W - 4 /\ W \in Nat
    BY SizeAssumption, WIs
  <2>2. Len(h) < W - 3
    BY <1>7, <1>9, <2>1
  <2>3. Letters(Take(r, (at + 2) + 1, FhSize), Len(h)) = h
    BY <1>1, <1>5, <1>6, <1>9, <2>1, <2>2, StringAt
  <2>4. FileHandle(r, at) = Letters(Take(r, at + 3, FhSize), Len(h))
    BY <1>3, <1>7, <1>9 DEF FileHandle
  <2> QED BY <1>6, <1>8, <2>3, <2>4 DEF h
<1>10. CASE ~(Len(h) <= FhSize)
  <2>1. FileHandle(r, at) = <<>>
    BY <1>7, <1>10 DEF FileHandle
  <2> QED BY <1>8, <2>1
<1> QED BY <1>9, <1>10

\* What struct file keeps.
Handed(s) == [fh |-> s.fh, open |-> s.open, latest |-> s.latest]

LEMMA OpenLeaves ==
    ASSUME NEW s \in Server, NEW d \in Delegations, NEW r \in Seq(Nat), NEW i \in Nat,
           NEW x, x.kind = "open", s.fh # <<>>, s.latest = s.open, At(r, i, ToOpen(s, d)),
           At(r, i + Len(ToOpen(s, d)), Carried(Op.GETFH, s, d)), NEW o \in Parse(x, r, i)
    PROVE  o = Failed \/ (o.ok /\ o.c = c /\ o.f = Handed(s))
<1> DEFINE u == s.open
           v == ChangeInfo
           y == <<0, 2, 0, 0>>
           at == i + 13
<1>1. /\ u \in Seq(Nat) /\ Len(u) = 4 /\ v \in Seq(Nat) /\ Len(v) = 5
      /\ y \in Seq(Nat) /\ Len(y) = 4 /\ y[2] = 2 /\ d \in Seq(Nat) /\ at \in Nat
  <2>1. v \in Seq(Nat) /\ Len(v) = 5
    BY DEF ChangeInfo
  <2> QED BY <2>1, ServerIs, DelegationsType
<1>2. ToOpen(s, d) = ((u \o v) \o y) \o d
  BY DEF ToOpen
<1> HIDE DEF u, v, y
<1> DEFINE a == u \o v
           b == a \o y
<1>3. a \in Seq(Nat) /\ Len(a) = 9
  <2>1. Len(a) = Len(u) + Len(v) /\ a \in Seq(Nat)
    <3>1. u \in Seq(Nat) /\ v \in Seq(Nat)
      BY <1>1
    <3> QED BY <3>1, ConcatIs
  <2> QED BY <1>1, <2>1
<1>4. ToOpen(s, d) = b \o d
  BY <1>2
<1> HIDE DEF a
<1>5. b \in Seq(Nat) /\ Len(b) = 13
  <2>1. Len(b) = Len(a) + Len(y) /\ b \in Seq(Nat)
    BY <1>1, <1>3, ConcatIs, ZenonT(80)
  <2> QED BY <1>1, <1>3, <2>1
<1>6. At(r, i, b \o d)
  BY <1>4
<1>7. Len(b \o d) = 13 + Len(d) /\ Len(d) \in Nat
  <2> HIDE DEF b
  <2>1. Len(b \o d) = Len(b) + Len(d)
    BY <1>1, <1>5, ConcatIs, ZenonT(80)
  <2> QED BY <1>1, <1>5, <2>1
<1>8. At(r, i, b) /\ At(r, at, d)
  <2> HIDE DEF b
  <2> QED BY <1>1, <1>5, <1>6, AtConcat
<1>9. At(r, i, a) /\ At(r, i + 9, y)
  BY <1>1, <1>3, <1>8, AtConcat
<1>10. At(r, i, u)
  BY <1>1, <1>9, AtConcat DEF a
<1>11. Take(r, i, 4) = u
  BY <1>1, <1>10, TakeAt
<1>12. Get(r, i + 10) = 2
  <2>1. 2 \in 1 .. Len(y) /\ (i + 9) + 2 - 1 = i + 10
    BY <1>1
  <2>2. Get(r, (i + 9) + 2 - 1) = y[2]
    BY <1>9, <2>1 DEF At
  <2> QED BY <1>1, <2>1, <2>2
<1>13. ParseOpen(r, i) = AfterDelegation(r, at)
  <2>1. i + 4 + 6 + 2 + 1 = at
    OBVIOUS
  <2> QED BY <1>12, <2>1 DEF ParseOpen
<1> DEFINE p == at + Len(d)
<1>14. p \in Nat /\ p = i + Len(ToOpen(s, d))
  <2> DEFINE n == Len(d)
             m == Len(ToOpen(s, d))
  <2>1. n \in Nat /\ m = 13 + n
    BY <1>4, <1>7
  <2> HIDE DEF n, m
  <2>2. (i + 13) + n \in Nat /\ (i + 13) + n = i + m
    BY <2>1
  <2> QED BY <2>2 DEF n, m
<1>15. At(r, p, Carried(Op.GETFH, s, d))
  BY <1>14
<1>16. ParseOpen(r, i) \in {0, p, p + 1}
  <2> HIDE DEF at
  <2> QED BY <1>1, <1>8, <1>13, DelegationIs
<1> HIDE DEF p
<1>17. FileHandle(r, p) \in {<<>>, s.fh} /\ FileHandle(r, p + 1) = <<>>
  BY <1>1, <1>14, <1>15, HandleIs
<1> DEFINE fh == FileHandle(r, ParseOpen(r, i))
           g == [fh |-> fh, open |-> Take(r, i, 4), latest |-> Take(r, i, 4)]
<1>18. o = Failed \/ (ParseOpen(r, i) # 0 /\ fh # <<>> /\ o = Outcome(TRUE, c, g, <<>>))
  BY DEF Parse
<1>19. ParseOpen(r, i) # 0 /\ fh # <<>> => fh = s.fh
  BY <1>16, <1>17
<1>20. fh = s.fh => g = Handed(s)
  BY <1>11 DEF Handed, u
<1>21. Outcome(TRUE, c, g, <<>>).ok /\ Outcome(TRUE, c, g, <<>>).c = c /\ Outcome(TRUE, c, g, <<>>).f = g
  <2> HIDE DEF g
  <2> QED BY DEF Outcome
<1> HIDE DEF fh, g
<1> QED BY <1>18, <1>19, <1>20, <1>21

LEMMA LeadsType ==
    ASSUME NEW ops, NEW x \in NoFileCalls \union FileCalls, Leads(ops, Carrying(x))
    PROVE  ops \in Seq(Nat)
<1> DEFINE y == Carrying(x)
<1>1. PICK p \in Seq(SkippedOps) : ops = p \o y
  BY DEF Leads
<1>2. x.kind \in Kinds
  BY CallKind
<1>3. Which(x) \in Nat /\ Op.OPEN \in Nat /\ Op.GETFH \in Nat
  BY <1>2, WhichIs, OpIs
<1>4. y \in Seq(Nat)
  <2>1. y = <<Op.OPEN, Op.GETFH>> \/ y = <<Which(x)>>
    BY DEF Carrying
  <2>2. <<Op.OPEN, Op.GETFH>> \in Seq(Nat)
    BY <1>3, TwoIs
  <2>3. <<Which(x)>> \in Seq(Nat)
    BY <1>3, OneIs
  <2> QED BY <2>1, <2>2, <2>3
<1>5. SkippedOps \subseteq Nat
  BY OpIs DEF SkippedOps
<1> HIDE DEF y, SkippedOps
<1>6. p \in Seq(Nat)
  BY <1>5, SeqWider
<1> QED BY <1>1, <1>4, <1>6, ConcatIs

\* What the server has to say of a call, and what the call then leaves.
Fits(x, s, d) ==
    /\ x.kind = "root_fh" => s.fh = <<>> /\ Len(s.root) <= FhSize
    /\ x.kind = "open" => s.fh # <<>> /\ s.latest = s.open /\ d \in Delegations
    /\ x.kind = "size" => Len(s.value) = 2
    /\ x.kind = "read" => s.value \in Name /\ Len(s.value) <= 6

Within(k, s) == \A n \in {k.maxreq, k.maxresp, k.maxops, k.maxreqs} : n <= s.limit

Learns(x, s, o) ==
    /\ o.ok \/ x.kind = "open"
    /\ x.kind = "exchange_id" => o.c.clientid = s.clientid /\ o.c.serverSequence = s.seqid
    /\ x.kind = "create_session" =>
         /\ o.c.clientid = c.clientid /\ o.c.sequence = c.sequence
         /\ o.c.session = s.session /\ Within(o.c, s)
    /\ x.kind = "root_fh" => o.c = [c EXCEPT !.root = s.root]
    /\ x.kind \notin {"exchange_id", "create_session", "root_fh"} => o.c = c
    /\ x.kind = "open" => o.f = f \/ o.f = Handed(s)
    /\ x.kind \in {"lock", "unlock"} => o.f = [f EXCEPT !.latest = s.latest]
    /\ x.kind \notin {"open", "lock", "unlock"} => o.f = f
    /\ x.kind \in {"size", "read"} => o.value = s.value

\* A call that was carried out succeeds, an OPEN excepted, and the client then knows
\* what the server has said: every value comes from its place in the reply.
THEOREM CarriedOutTells ==
    ASSUME c \in Client, NEW x \in NoFileCalls \union FileCalls, NEW s \in Server,
           NEW d \in Seq(Nat), NEW ops, Leads(ops, Carrying(x)), Fits(x, s, d),
           NEW o \in Outcomes(x, Body(c.xid, ops, 0, s, d))
    PROVE  Learns(x, s, o)
<1> DEFINE r == Body(c.xid, ops, 0, s, d)
           h == Which(x)
           w == Answer(h, s, d)
<1>1. PICK i \in Nat :
        /\ i >= 12 /\ Outcomes(x, r) = Parse(x, r, i) /\ At(r, i, w)
        /\ x.kind = "open" => At(r, i + Len(w), Carried(Op.GETFH, s, d))
        /\ x.kind # "open" => i + Len(w) = Len(r) + 1
  BY AcceptedIs
<1>2. r \in Seq(Nat) /\ Len(r) >= 9
  <2>1. ops \in Seq(Nat) /\ c.xid \in Nat
    BY LeadsType, ClientIs
  <2> DEFINE xid == c.xid
             status == 0
  <2>2. xid \in Nat /\ status \in Nat
    BY <2>1
  <2>5. ops \in Seq(Nat) /\ s \in Server /\ d \in Seq(Nat)
    BY <2>1
  <2> HIDE DEF xid, status, r, h, w
  <2>3. Body(xid, ops, status, s, d) \in Seq(Nat) /\ Len(Body(xid, ops, status, s, d)) >= 9
    BY <2>2, <2>5, BodyType
  <2> QED BY <2>3 DEF xid, status, r
<1> HIDE DEF r
<1>3. o \in Parse(x, r, i)
  BY <1>1 DEF r
<1>4. x.kind \in Kinds
  BY CallKind
<1> HIDE DEF w, h
<1>5. CASE x.kind = "exchange_id"
  <2>1. w = ToExchange(s)
    BY <1>4, <1>5, WhichIs, AnswerIs DEF w, h
  <2>2. o.ok /\ o.f = f /\ o.c.clientid = s.clientid /\ o.c.serverSequence = s.seqid
    BY <1>1, <1>2, <1>3, <1>5, <2>1, ExchangeLeaves
  <2> QED BY <1>5, <2>2 DEF Learns
<1>6. CASE x.kind = "create_session"
  <2>1. w = ToCreate(s)
    BY <1>4, <1>6, WhichIs, AnswerIs DEF w, h
  <2>2. /\ o.ok /\ o.f = f /\ o.c.clientid = c.clientid /\ o.c.sequence = c.sequence
        /\ o.c.session = s.session /\ Within(o.c, s)
    BY <1>1, <1>2, <1>3, <1>6, <2>1, SessionLeaves DEF Within
  <2> QED BY <1>6, <2>2 DEF Learns
<1>7. CASE x.kind = "root_fh"
  <2>1. w = ToGetfh(s)
    BY <1>4, <1>7, WhichIs, AnswerIs DEF w, h
  <2>2. o.ok /\ o.f = f /\ o.c = [c EXCEPT !.root = s.root]
    BY <1>1, <1>2, <1>3, <1>7, <2>1, RootLeaves DEF Fits
  <2> QED BY <1>7, <2>2 DEF Learns
<1>8. CASE x.kind = "open"
  <2>1. w = ToOpen(s, d)
    BY <1>4, <1>8, WhichIs, AnswerIs DEF w, h
  <2>2. o = Failed \/ (o.ok /\ o.c = c /\ o.f = Handed(s))
    BY <1>1, <1>2, <1>3, <1>8, <2>1, OpenLeaves, ZenonT(80) DEF Fits
  <2>3. Failed.c = c /\ Failed.f = f
    BY DEF Failed, Outcome
  <2> QED BY <1>8, <2>2, <2>3 DEF Learns
<1>9. CASE x.kind = "size"
  <2>1. w = ToGetattr(s)
    BY <1>4, <1>9, WhichIs, AnswerIs DEF w, h
  <2>3. /\ Len(s.value) = 2 /\ At(r, i, ToGetattr(s))
        /\ i + Len(ToGetattr(s)) = Len(r) + 1 /\ r \in Seq(Nat)
    BY <1>1, <1>2, <1>9, <2>1 DEF Fits
  <2>2. o.ok /\ o.f = f /\ o.c = c /\ o.value = s.value
    BY <1>3, <1>9, <2>3, SizeLeaves
  <2> QED BY <1>9, <2>2 DEF Learns
<1>10. CASE x.kind = "read"
  <2>1. w = ToRead(s)
    BY <1>4, <1>10, WhichIs, AnswerIs DEF w, h
  <2>2. Len(r) > 5
    BY <1>2
  <2>3. o.ok /\ o.f = f /\ o.c = c /\ o.value = s.value
    BY <1>1, <1>2, <1>3, <1>10, <2>1, <2>2, ReadLeaves DEF Fits
  <2> QED BY <1>10, <2>3 DEF Learns
<1>11. CASE x.kind \in {"lock", "unlock"}
  <2>1. w = s.latest
    BY <1>4, <1>11, WhichIs, AnswerIs DEF w, h
  <2>3. At(r, i, s.latest) /\ r \in Seq(Nat)
    BY <1>1, <1>2, <2>1
  <2>2. o.ok /\ o.c = c /\ o.f = [f EXCEPT !.latest = s.latest]
    BY <1>3, <1>11, <2>3, LockLeaves
  <2> QED BY <1>11, <2>2 DEF Learns
<1>12. CASE x.kind \in {"reclaim", "exists", "delete", "write"}
  <2>1. o = Outcome(TRUE, c, f, <<>>)
    BY <1>3, <1>12 DEF Parse
  <2> QED BY <1>12, <2>1 DEF Learns, Outcome
<1> QED BY <1>4, <1>5, <1>6, <1>7, <1>8, <1>9, <1>10, <1>11, <1>12 DEF Kinds

-----------------------------------------------------------------------------
\* The reply under way says what the server knows by now, or that it has refused the
\* call; what the client knows is what the server has told it before.
Current == f # NoFile => f.latest = srv.latest

Granted(b) ==
    /\ \E d \in Seq(Nat) :
         b = Body(c.xid, Numbers(meant.ops), 0, srv, d) /\ Fits(call, srv, d)
    /\ Leads(Numbers(meant.ops), Carrying(call))
    /\ call.kind \notin {"lock", "unlock"} => Current
    /\ call.kind = "create_session" => srv.slot = 0

Denied(b) == b \in Seq(Nat) /\ Len(b) >= 9 /\ b[7] # 0 /\ Current

Told(b) == Granted(b) \/ Denied(b)

InTransit ==
    /\ pc = "frame" => \E b \in Seq(Nat) : Told(b) /\ socket \o wire = <<4 * Len(b)>> \o b
    /\ pc = "body" => Told(SubSeq(reverse.contents, 1, got) \o (socket \o wire))
    /\ pc = "parse" => reverse.start = 0 /\ Told(Contents(reverse))

Session ==
    /\ c.session = srv.session /\ Within(c, srv)
    /\ c.sequence = srv.slot + (IF pc = "send" THEN 2 ELSE 1)

Knows ==
    /\ up >= 1 => c.clientid = srv.clientid
    /\ up = 1 /\ pc \in {"send", "frame", "body", "parse"} => c.sequence = 1
    /\ up >= 2 => Session
    /\ up >= 3 => c.root = srv.root
    /\ up < 4 => srv.fh = <<>>
    /\ Len(srv.root) <= FhSize
    /\ f # NoFile => f.fh = srv.fh /\ f.open = srv.open
    /\ pc \in {"idle", "send"} => Current

ValueKept ==
    pc = "idle" /\ result.ok /\ call.kind \in {"size", "read"} => result.value = srv.value

\* Inductive together with IInv.
Faithful == InTransit /\ Knows /\ ValueKept /\ Answered

LEMMA FaithfulAtFirst == Init => Faithful
<1>1. SUFFICES ASSUME Init PROVE Faithful
  OBVIOUS
<1>2. pc = "idle" /\ up = 0 /\ call.kind = "none" /\ sent = <<>> /\ f = NoFile
  BY <1>1 DEF Init
<1>3. srv.fh = <<>> /\ Len(srv.root) <= FhSize
  <2> DEFINE h == [i \in 1 .. RootLength |-> 1]
  <2>1. srv.fh = <<>> /\ srv.root = h
    BY <1>1 DEF Init
  <2>2. RootLength \in Nat /\ RootLength <= FhSize
    BY SizeAssumption, WIs
  <2>3. Len(h) = RootLength
    BY <2>2, OnesType
  <2> HIDE DEF h
  <2> QED BY <2>1, <2>2, <2>3
<1>4. InTransit /\ ValueKept /\ Answered
  BY <1>2 DEF InTransit, ValueKept, Answered
<1>5. Knows
  BY <1>2, <1>3 DEF Knows, Current
<1> QED BY <1>4, <1>5 DEF Faithful

\* Which call is made when.
LEMMA AllowedKind ==
    ASSUME up \in 0 .. 4, f \in File \union {NoFile}, NEW x \in Allowed
    PROVE  /\ x.kind = "exchange_id" <=> up = 0
           /\ x.kind = "create_session" <=> up = 1
           /\ x.kind = "root_fh" <=> up = 2
           /\ x.kind = "open" => up = 4 /\ f = NoFile
           /\ x \in FileCalls => up = 4 /\ f \in File /\ f # NoFile
<1>1. CASE up < 4
  <2>1. up \in {0, 1, 2, 3} /\ x.kind = Startup[up + 1]
    BY <1>1 DEF Allowed
  <2>2. /\ up = 0 => x.kind = "exchange_id"
        /\ up = 1 => x.kind = "create_session"
        /\ up = 2 => x.kind = "root_fh"
        /\ up = 3 => x.kind = "reclaim"
    BY <2>1 DEF Startup
  <2>3. x.kind # "open" /\ x \notin FileCalls
    BY <1>1, AllowedIs
  <2> QED BY <2>1, <2>2, <2>3
<1>2. CASE up = 4 /\ f = NoFile
  <2>1. x \in NameCalls \union OpenCalls
    BY <1>2 DEF Allowed
  <2>2. x.kind \in {"exists", "delete", "open"}
    BY <2>1, NameCallIs, OpenCallIs
  <2>3. x \notin FileCalls
    BY <2>2, FileCallIs
  <2> QED BY <1>2, <2>2, <2>3
<1>3. CASE up = 4 /\ f # NoFile
  <2>1. x \in FileCalls /\ f \in File
    BY <1>3 DEF Allowed
  <2>2. x.kind \in {"size", "read", "write", "lock", "unlock"}
    BY <2>1, FileCallIs
  <2> QED BY <1>3, <2>1, <2>2
<1> QED BY <1>1, <1>2, <1>3

\* A request takes its number in the session, and leaves what the server has told.
LEMMA BeginTells ==
    ASSUME IInv, Faithful, NEW x \in Allowed, Begin(x)
    PROVE  Faithful'
<1> DEFINE k == [c EXCEPT !.xid = @ + 1, !.sequence = IF x.kind = "create_session" THEN 1 ELSE @]
<1>1. /\ c \in Client /\ f \in File \union {NoFile} /\ up \in 0 .. 4
  BY IInvIs
<1>2. /\ pc = "idle" /\ pc' = "send"
      /\ c' = [k EXCEPT !.sequence = IF InSession(x) THEN @ + 1 ELSE @,
                        !.serverSequence = IF x.kind = "create_session" THEN @ + 1 ELSE @]
      /\ f' = f /\ up' = up /\ srv' = srv
  BY DEF Begin, server
<1>3. /\ k \in Client /\ k.clientid = c.clientid /\ k.session = c.session /\ k.root = c.root
      /\ k.maxreq = c.maxreq /\ k.maxresp = c.maxresp /\ k.maxops = c.maxops
      /\ k.maxreqs = c.maxreqs
      /\ k.sequence = IF x.kind = "create_session" THEN 1 ELSE c.sequence
  <2>1. c.xid + 1 \in Nat
    BY <1>1, ClientIs
  <2> QED BY <1>1, <2>1 DEF Client
<1> HIDE DEF k
<1>4. /\ c'.clientid = c.clientid /\ c'.session = c.session /\ c'.root = c.root
      /\ c'.maxreq = c.maxreq /\ c'.maxresp = c.maxresp /\ c'.maxops = c.maxops
      /\ c'.maxreqs = c.maxreqs
      /\ c'.sequence = IF InSession(x) THEN k.sequence + 1 ELSE k.sequence
  BY <1>2, <1>3 DEF Client
<1>5. /\ x.kind = "exchange_id" <=> up = 0
      /\ x.kind = "create_session" <=> up = 1
  BY <1>1, AllowedKind
<1>6. Knows
  BY DEF Faithful
<1>7. up' = 1 => c'.sequence = 1
  <2>1. up = 1 => ~InSession(x) /\ k.sequence = 1
    BY <1>3, <1>5 DEF InSession
  <2> QED BY <1>2, <1>4, <2>1
<1>8. up' >= 2 => Session'
  <2>1. SUFFICES ASSUME up >= 2 PROVE Session'
    BY <1>2
  <2>2. InSession(x) /\ k.sequence = c.sequence
    BY <1>3, <1>5, <2>1 DEF InSession
  <2>3. c.session = srv.session /\ Within(c, srv) /\ c.sequence = srv.slot + 1
    BY <1>2, <1>6, <2>1 DEF Knows, Session
  <2>4. c'.sequence = srv'.slot + 2
    <3>1. c'.sequence = (srv.slot + 1) + 1 /\ srv.slot \in Nat
      BY <1>4, <2>2, <2>3, IInvIs, ServerIs
    <3> DEFINE n == srv.slot
    <3>2. n \in Nat /\ c'.sequence = (n + 1) + 1
      BY <3>1
    <3> HIDE DEF n
    <3>3. c'.sequence = n + 2
      BY <3>2
    <3> QED BY <1>2, <3>3 DEF n
  <2>5. Within(c', srv')
    BY <1>2, <1>4, <2>3 DEF Within
  <2> QED BY <1>2, <1>4, <2>3, <2>4, <2>5 DEF Session
<1>9. Knows'
  BY <1>2, <1>4, <1>6, <1>7, <1>8 DEF Knows, Current
<1>10. (InTransit /\ ValueKept /\ Answered)'
  BY <1>2 DEF InTransit, ValueKept, Answered
<1> QED BY <1>9, <1>10 DEF Faithful

LEMMA CloseTells ==
    ASSUME Faithful, Close
    PROVE  Faithful'
<1>1. /\ pc = "idle" /\ f' = NoFile
      /\ UNCHANGED <<pc, call, calls, c, result, up, forward, reverse, frame, got, wire, socket,
                     srv, sent, meant>>
  BY DEF Close, network, server
<1>2. Knows'
  BY <1>1 DEF Faithful, Knows, Current, Session
<1>3. (InTransit /\ ValueKept /\ Answered)'
  BY <1>1 DEF Faithful, InTransit, ValueKept, Answered
<1> QED BY <1>2, <1>3 DEF Faithful

\* However the reply is cut into pieces, its words arrive in their order.
LEMMA ArriveTells ==
    ASSUME IInv, Faithful, Arrive
    PROVE  Faithful'
<1>1. PICK n \in Burst :
        /\ wire # <<>>
        /\ socket' = socket \o SubSeq(wire, 1, Min2(n, Len(wire)))
        /\ wire' = SubSeq(wire, Min2(n, Len(wire)) + 1, Len(wire))
        /\ UNCHANGED <<pc, call, calls, c, f, result, up, forward, reverse, frame, got, srv,
                       sent, meant>>
  BY DEF Arrive, client, server
<1> DEFINE m == Min2(n, Len(wire))
           x == SubSeq(wire, 1, m)
           y == SubSeq(wire, m + 1, Len(wire))
<1>2. wire \in Seq(Nat) /\ socket \in Seq(Nat) /\ n \in Nat
  BY <1>1, IInvIs, SizeAssumption
<1>3. m \in Nat /\ m <= Len(wire)
  BY <1>2 DEF Min2
<1>4. x \in Seq(Nat) /\ y \in Seq(Nat) /\ x \o y = wire
  BY <1>2, <1>3, Halves
<1>5. socket' = socket \o x /\ wire' = y
  BY <1>1
<1> HIDE DEF x, y, m
<1>6. socket' \o wire' = socket \o wire
  <2>1. socket \in Seq(Nat) /\ x \in Seq(Nat) /\ y \in Seq(Nat)
    BY <1>2, <1>4
  <2>2. (socket \o x) \o y = socket \o (x \o y)
    BY <2>1, WordsAssoc, Zenon
  <2> QED BY <1>4, <1>5, <2>2
<1>7. Knows'
  BY <1>1 DEF Faithful, Knows, Current, Session
<1>8. (ValueKept /\ Answered)'
  BY <1>1 DEF Faithful, ValueKept, Answered
<1>9. InTransit'
  <2>1. CASE pc = "frame"
    <3>1. PICK b \in Seq(Nat) : Told(b) /\ socket \o wire = <<4 * Len(b)>> \o b
      BY <2>1 DEF Faithful, InTransit
    <3>2. Told(b)'
      BY <1>1, <3>1 DEF Told, Granted, Denied, Current
    <3> QED BY <1>1, <1>6, <2>1, <3>1, <3>2 DEF InTransit
  <2>2. CASE pc = "body"
    <3> DEFINE b == SubSeq(reverse.contents, 1, got) \o (socket \o wire)
    <3>1. Told(b)
      BY <2>2 DEF Faithful, InTransit
    <3>2. b' = b
      BY <1>1, <1>6
    <3> HIDE DEF b
    <3>3. Told(b)'
      BY <1>1, <3>1, <3>2 DEF Told, Granted, Denied, Current
    <3> QED BY <1>1, <2>2, <3>3 DEF InTransit, b
  <2>3. pc \in {"frame", "body"}
    BY <1>1 DEF OneReply, IInv, TypeOK
  <2> QED BY <2>1, <2>2, <2>3
<1> QED BY <1>7, <1>8, <1>9 DEF Faithful

LEMMA TailOf ==
    ASSUME NEW s \in Seq(Nat), s # <<>>, NEW t \in Seq(Nat)
    PROVE  Tail(s \o t) = Tail(s) \o t
<1> DEFINE a == s \o t
           b == Tail(s)
           e == b \o t
<1>1. /\ a \in Seq(Nat) /\ Len(a) = Len(s) + Len(t) /\ Len(s) \in Nat \ {0} /\ Len(t) \in Nat
      /\ \A i \in 1 .. Len(s) : a[i] = s[i]
      /\ \A i \in 1 .. Len(t) : a[Len(s) + i] = t[i]
  BY ConcatIs
<1>2. /\ b \in Seq(Nat) /\ Len(b) = Len(s) - 1
      /\ \A i \in 1 .. Len(b) : b[i] = s[i + 1]
  OBVIOUS
<1> HIDE DEF a, b
<1>3. /\ e \in Seq(Nat) /\ Len(e) = Len(b) + Len(t)
      /\ \A i \in 1 .. Len(b) : e[i] = b[i]
      /\ \A i \in 1 .. Len(t) : e[Len(b) + i] = t[i]
  <2>1. b \in Seq(Nat) /\ t \in Seq(Nat)
    BY <1>2
  <2> QED BY <2>1, ConcatIs
<1> HIDE DEF e
<1>4. /\ Tail(a) \in Seq(Nat) /\ Len(Tail(a)) = Len(a) - 1
      /\ \A i \in 1 .. Len(a) - 1 : Tail(a)[i] = a[i + 1]
  <2>1. a # <<>>
    <3>1. Len(a) > 0
      BY <1>1
    <3> QED BY <1>1, <3>1, NotEmpty
  <2> QED BY <1>1, <2>1
<1>5. Len(Tail(a)) = Len(e)
  BY <1>1, <1>2, <1>3, <1>4
<1>6. ASSUME NEW i \in 1 .. Len(e) PROVE Tail(a)[i] = e[i]
  <2>1. Tail(a)[i] = a[i + 1]
    BY <1>1, <1>2, <1>3, <1>4
  <2>2. CASE i <= Len(b)
    <3>1. i \in 1 .. Len(b) /\ i + 1 \in 1 .. Len(s)
      BY <1>1, <1>2, <2>2
    <3> QED BY <1>1, <1>2, <1>3, <2>1, <3>1
  <2>3. CASE ~(i <= Len(b))
    <3> DEFINE j == i - Len(b)
    <3>1. j \in 1 .. Len(t) /\ Len(b) + j = i /\ Len(s) + j = i + 1
      BY <1>1, <1>2, <1>3, <2>3
    <3> HIDE DEF j
    <3> QED BY <1>1, <1>3, <2>1, <3>1
  <2> QED BY <2>2, <2>3
<1>7. Tail(a) = e
  BY <1>3, <1>4, <1>5, <1>6, SameSeq
<1> QED BY <1>7 DEF a, b, e

\* The first word says how many follow; they are still to come.
LEMMA ReadFrameTells ==
    ASSUME IInv, Faithful, ReadFrame
    PROVE  Faithful'
<1>1. /\ pc = "frame" /\ socket # <<>> /\ got' = 0 /\ socket' = Tail(socket) /\ pc' = "body"
      /\ UNCHANGED <<call, calls, c, f, result, up, forward, wire, srv, sent, meant>>
  BY DEF ReadFrame, client, server
<1>2. wire \in Seq(Nat) /\ socket \in Seq(Nat)
  BY IInvIs
<1>3. PICK b \in Seq(Nat) : Told(b) /\ socket \o wire = <<4 * Len(b)>> \o b
  BY <1>1 DEF Faithful, InTransit
<1>4. Tail(socket) \o wire = b
  <2> DEFINE h == 4 * Len(b)
             u == <<h>>
  <2>1. h \in Nat
    <3>1. Len(b) \in Nat
      OBVIOUS
    <3> QED BY <3>1
  <2> HIDE DEF h
  <2>2. u \in Seq(Nat) /\ u # <<>> /\ Tail(u) = <<>>
    BY <2>1
  <2>3. socket \o wire = u \o b
    BY <1>3 DEF h
  <2> HIDE DEF u
  <2>4. Tail(socket) \o wire = Tail(socket \o wire)
    BY <1>1, <1>2, TailOf
  <2>5. Tail(u) \o b = Tail(u \o b)
    BY <2>2, TailOf
  <2>6. <<>> \o b = b
    BY ConcatEmpty
  <2> QED BY <2>2, <2>3, <2>4, <2>5, <2>6
<1>5. SubSeq(reverse'.contents, 1, got') \o (socket' \o wire') = b
  <2>1. SubSeq(reverse'.contents, 1, 0) = <<>>
    BY DEF SubSeq
  <2>2. <<>> \o b = b
    BY ConcatEmpty
  <2> QED BY <1>1, <1>4, <2>1, <2>2
<1>6. Told(b)'
  BY <1>1, <1>3 DEF Told, Granted, Denied, Current
<1>7. InTransit'
  BY <1>1, <1>5, <1>6 DEF InTransit
<1>8. Knows'
  BY <1>1 DEF Faithful, Knows, Current, Session
<1>9. (ValueKept /\ Answered)'
  BY <1>1 DEF ValueKept, Answered
<1> QED BY <1>7, <1>8, <1>9 DEF Faithful

\* What the server knows once it has carried a call out.
LEMMA KnowingSays ==
    ASSUME srv \in Server, NEW x \in NoFileCalls \union FileCalls, NEW s \in Knowing(x)
    PROVE  /\ s.root = srv.root
           /\ x.kind # "exchange_id" => s.clientid = srv.clientid
           /\ x.kind # "create_session" => s.session = srv.session /\ s.limit = srv.limit
           /\ x.kind = "create_session" => s.slot = 0
           /\ x.kind # "open" => s.fh = srv.fh /\ s.open = srv.open
           /\ x.kind = "open" => s.fh # <<>> /\ s.latest = s.open
           /\ x.kind \notin {"open", "lock", "unlock"} => s.latest = srv.latest
           /\ x.kind = "size" => Len(s.value) = 2
           /\ x.kind = "read" => s.value \in Name /\ Len(s.value) <= 6
<1>0. x.kind \in Kinds
  BY CallKind
<1>1. CASE x.kind = "exchange_id"
  <2> DEFINE id == <<5, 6>>
  <2>1. s = [srv EXCEPT !.clientid = id, !.seqid = 3]
    BY <1>1 DEF Knowing
  <2> HIDE DEF id
  <2> QED BY <1>1, <2>1 DEF Server
<1>2. CASE x.kind = "create_session"
  <2> DEFINE id == <<11, 12, 13, 14>>
  <2>1. PICK n \in ServerLimit : s = [srv EXCEPT !.session = id, !.slot = 0, !.limit = n]
    BY <1>2 DEF Knowing
  <2> HIDE DEF id
  <2> QED BY <1>2, <2>1 DEF Server
<1>3. CASE x.kind = "open"
  <2> DEFINE id == <<srv.open[1] + 1, 71, 72, 73>>
  <2>1. PICK h \in Handle : s = [srv EXCEPT !.fh = h, !.open = id, !.latest = id]
    BY <1>3 DEF Knowing
  <2>2. h # <<>>
    <3>1. CASE h = <<1, 2, 1>>
      BY <3>1
    <3>2. CASE h = [i \in 1 .. FhSize |-> 2]
      <4>1. FhSize \in Nat /\ FhSize >= 1
        BY SizeAssumption, WIs
      <4>2. h \in Seq(Nat) /\ Len(h) > 0
        <5>1. h \in [1 .. FhSize -> Nat]
          BY <3>2
        <5>2. h \in Seq(Nat) /\ Len(h) = FhSize
          BY <4>1, <5>1, FunctionIs
        <5> QED BY <4>1, <5>2
      <4> QED BY <4>2, NotEmpty
    <3> QED BY <3>1, <3>2 DEF Handle
  <2> HIDE DEF id
  <2> QED BY <1>3, <2>1, <2>2 DEF Server
<1>4. CASE x.kind = "size"
  <2> DEFINE v == Be64(W + 9)
  <2>1. s = [srv EXCEPT !.value = v]
    BY <1>4 DEF Knowing
  <2>2. Len(v) = 2
    BY WIs, Be64Type
  <2> HIDE DEF v
  <2> QED BY <1>4, <2>1, <2>2 DEF Server
<1>5. CASE x.kind = "read"
  <2>1. PICK d \in {e \in Data : Len(e) <= x.length} : s = [srv EXCEPT !.value = d]
    BY <1>5 DEF Knowing
  <2>2. x \in FileCalls
    BY <1>5, CallKind
  <2>3. x.length = 6
    <3> DEFINE a == [kind |-> "size"]
               b == [kind |-> "read", offset |-> W + 5, length |-> 6]
    <3>1. \/ x = a \/ x = b
          \/ x.kind \in {"write", "lock", "unlock"}
      BY <2>2, SMT DEF FileCalls
    <3>2. a.kind = "size" /\ b.length = 6
      OBVIOUS
    <3> HIDE DEF a, b
    <3> QED BY <1>5, <3>1, <3>2
  <2>4. d \in Name /\ Len(d) <= 6
    BY <2>1, <2>3, InputAssumption DEF Name
  <2> QED BY <1>5, <2>1, <2>4 DEF Server
<1>6. CASE x.kind \in {"lock", "unlock"}
  <2> DEFINE id == <<srv.latest[1] + 1, 81, 82, 83>>
  <2>1. s = [srv EXCEPT !.latest = id]
    BY <1>6 DEF Knowing
  <2> HIDE DEF id
  <2> QED BY <1>6, <2>1 DEF Server
<1>7. CASE x.kind \in {"root_fh", "reclaim", "exists", "delete", "write"}
  BY <1>7 DEF Knowing
<1> QED BY <1>0, <1>1, <1>2, <1>3, <1>4, <1>5, <1>6, <1>7 DEF Kinds

\* A call in the session moves its slot on, whether it is carried out or not.
Stepped(x, s) == IF InSession(x) THEN [s EXCEPT !.slot = srv.slot + 1] ELSE s

LEMMA SteppedIs ==
    ASSUME srv \in Server, NEW x, NEW s \in Server
    PROVE  /\ Stepped(x, s) \in Server
           /\ Stepped(x, s).clientid = s.clientid /\ Stepped(x, s).session = s.session
           /\ Stepped(x, s).limit = s.limit /\ Stepped(x, s).root = s.root
           /\ Stepped(x, s).fh = s.fh /\ Stepped(x, s).open = s.open
           /\ Stepped(x, s).latest = s.latest /\ Stepped(x, s).value = s.value
           /\ InSession(x) => Stepped(x, s).slot = srv.slot + 1
           /\ ~InSession(x) => Stepped(x, s) = s
<1> DEFINE n == srv.slot + 1
           t == [s EXCEPT !.slot = n]
<1>1. n \in Nat
  BY ServerIs
<1> HIDE DEF n
<1>2. /\ t \in Server /\ t.clientid = s.clientid /\ t.session = s.session /\ t.limit = s.limit
      /\ t.root = s.root /\ t.fh = s.fh /\ t.open = s.open /\ t.latest = s.latest
      /\ t.value = s.value /\ t.slot = n
  BY <1>1 DEF Server
<1>3. Stepped(x, s) = IF InSession(x) THEN t ELSE s
  BY DEF Stepped, n
<1> HIDE DEF t
<1> QED BY <1>2, <1>3 DEF n

\* The server answers a request with what it knows then, or refuses it.
LEMMA SendTells ==
    ASSUME IInv, Faithful, Send
    PROVE  Faithful'
<1> DEFINE ops == Meant(call)
           named == Numbers(ops)
           Opened(n) == call.kind = "open" /\ n = Len(ops)
<1>0. /\ c \in Client /\ srv \in Server /\ f \in File \union {NoFile} /\ up \in 0 .. 4
  BY IInvIs
<1>1. /\ pc = "send" /\ pc' = "frame" /\ meant'.ops = ops
      /\ UNCHANGED <<call, calls, c, f, result, up, forward, reverse, frame, got, socket>>
  BY DEF Send, client
<1>2. call \in NoFileCalls \union FileCalls
  BY <1>0, <1>1, IInvIs, AllowedIs
<1>3. /\ call.kind = "exchange_id" <=> up = 0
      /\ call.kind = "create_session" <=> up = 1
      /\ call.kind = "root_fh" <=> up = 2
      /\ call.kind = "open" => up = 4 /\ f = NoFile
  <2>1. call \in Allowed
    BY <1>1, IInvIs
  <2> QED BY <1>0, <2>1, AllowedKind
<1>4. named \in Seq(Nat) /\ Len(named) = Len(ops) /\ Leads(named, Carrying(call))
  BY <1>2, NumbersType, MeantIs
<1>5. Knows
  BY DEF Faithful
<1>6. PICK d \in IF call.kind = "open" THEN Delegations ELSE {<<>>} :
         \/ \E s \in Knowing(call) :
              srv' = Stepped(call, s) /\ wire' = Reply(c.xid, named, 0, srv', d)
         \/ \E n \in 1 .. Len(ops) : \E s \in IF Opened(n) THEN Knowing(call) ELSE {srv} :
              srv' = Stepped(call, s) /\ wire' = Reply(c.xid, SubSeq(named, 1, n), 2, srv', d)
  BY DEF Send, Numbers, Stepped
<1>7. d \in Seq(Nat) /\ (call.kind = "open" => d \in Delegations)
  <2>1. <<>> \in Seq(Nat)
    OBVIOUS
  <2> QED BY <1>6, <2>1, DelegationsType
<1> HIDE DEF ops, named
<1>8. PICK s \in Server :
        /\ srv' = Stepped(call, s)
        /\ \/ s \in Knowing(call) /\ wire' = Reply(c.xid, named, 0, srv', d)
           \/ /\ (s \in Knowing(call) /\ call.kind = "open") \/ s = srv
              /\ \E n \in 1 .. Len(named) : wire' = Reply(c.xid, SubSeq(named, 1, n), 2, srv', d)
  <2>1. Knowing(call) \subseteq Server
    BY <1>0, <1>2, KnowingType
  <2>2. CASE \E s \in Knowing(call) :
               srv' = Stepped(call, s) /\ wire' = Reply(c.xid, named, 0, srv', d)
    BY <2>1, <2>2
  <2>3. CASE \E n \in 1 .. Len(ops) : \E s \in IF Opened(n) THEN Knowing(call) ELSE {srv} :
               srv' = Stepped(call, s) /\ wire' = Reply(c.xid, SubSeq(named, 1, n), 2, srv', d)
    BY <1>0, <1>4, <2>1, <2>3
  <2> QED BY <1>6, <2>2, <2>3
<1> HIDE DEF Opened
\* What the server says differs from what it said before only in what the call is about.
<1>9. /\ s.root = srv.root
      /\ call.kind # "exchange_id" => s.clientid = srv.clientid
      /\ call.kind # "create_session" => s.session = srv.session /\ s.limit = srv.limit
      /\ call.kind # "open" => s.fh = srv.fh /\ s.open = srv.open
      /\ call.kind \notin {"open", "lock", "unlock"} => s.latest = srv.latest
  <2>1. s \in Knowing(call) \/ s = srv
    BY <1>8
  <2> QED BY <1>0, <1>2, <2>1, KnowingSays
<1>10. /\ srv' \in Server /\ srv'.clientid = s.clientid /\ srv'.session = s.session
       /\ srv'.limit = s.limit /\ srv'.root = s.root /\ srv'.fh = s.fh /\ srv'.open = s.open
       /\ srv'.latest = s.latest /\ srv'.value = s.value
       /\ InSession(call) => srv'.slot = srv.slot + 1
       /\ ~InSession(call) => srv' = s
  BY <1>0, <1>8, SteppedIs
<1>11. Knows'
  <2>1. up' >= 1 => c'.clientid = srv'.clientid
    BY <1>1, <1>3, <1>5, <1>9, <1>10 DEF Knows
  <2>2. up' = 1 => c'.sequence = 1
    BY <1>1, <1>5 DEF Knows
  <2>3. up' >= 2 => Session'
    <3>1. SUFFICES ASSUME up >= 2 PROVE Session'
      BY <1>1
    <3>2. call.kind # "exchange_id" /\ call.kind # "create_session" /\ InSession(call)
      BY <1>3, <3>1 DEF InSession
    <3>3. c.session = srv.session /\ Within(c, srv) /\ c.sequence = srv.slot + 2
      BY <1>1, <1>5, <3>1 DEF Knows, Session
    <3>4. c'.sequence = srv'.slot + 1
      <4> DEFINE n == srv.slot
      <4>1. n \in Nat /\ srv'.slot = n + 1 /\ c'.sequence = n + 2
        BY <1>0, <1>1, <1>10, <3>2, <3>3, ServerIs
      <4> HIDE DEF n
      <4>2. c'.sequence = (n + 1) + 1
        BY <4>1
      <4> QED BY <4>1, <4>2
    <3>5. Within(c', srv')
      BY <1>1, <1>9, <1>10, <3>2, <3>3 DEF Within
    <3>6. c'.session = srv'.session
      BY <1>1, <1>9, <1>10, <3>2, <3>3
    <3> QED BY <1>1, <3>4, <3>5, <3>6 DEF Session
  <2>4. (up' >= 3 => c'.root = srv'.root) /\ Len(srv'.root) <= FhSize
    BY <1>1, <1>5, <1>9, <1>10 DEF Knows
  <2>5. up' < 4 => srv'.fh = <<>>
    BY <1>1, <1>3, <1>5, <1>9, <1>10 DEF Knows
  <2>6. f' # NoFile => f'.fh = srv'.fh /\ f'.open = srv'.open
    BY <1>1, <1>3, <1>5, <1>9, <1>10 DEF Knows
  <2> QED BY <1>1, <2>1, <2>2, <2>3, <2>4, <2>5, <2>6 DEF Knows
<1>12. call.kind \notin {"lock", "unlock"} \/ s = srv => Current'
  <2>1. Current
    BY <1>1, <1>5 DEF Knows
  <2> QED BY <1>1, <1>3, <1>9, <1>10, <2>1 DEF Current
<1>13. socket' \o wire' = wire' /\ c.xid \in Nat
  <2>1. socket' = <<>> /\ wire' \in Seq(Nat)
    BY <1>1, SendStep DEF OneReply, IInv, TypeOK
  <2> QED BY <1>0, <2>1, ClientIs, ConcatEmpty
<1>14. CASE s \in Knowing(call) /\ wire' = Reply(c.xid, named, 0, srv', d)
  <2> DEFINE xid == c.xid
             t == srv'
  <2>0. PICK b : b = Body(xid, named, 0, t, d)
    OBVIOUS
  <2>1. xid \in Nat /\ t \in Server /\ named \in Seq(Nat) /\ d \in Seq(Nat)
    BY <1>4, <1>7, <1>10, <1>13
  <2>2. Reply(xid, named, 0, t, d) = <<4 * Len(b)>> \o b /\ b \in Seq(Nat)
    <3> DEFINE status == 0
               e == Body(xid, named, status, t, d)
    <3>1. status \in Nat
      OBVIOUS
    <3> HIDE DEF status, xid, t
    <3>2. e \in Seq(Nat)
      BY <2>1, <3>1, BodyType
    <3>3. Reply(xid, named, status, t, d) = <<4 * Len(e)>> \o e
      BY <2>1, <3>1, BodyIs, ZenonT(80)
    <3> QED BY <2>0, <3>2, <3>3 DEF status
  <2>3. Fits(call, t, d)
    <3>1. /\ call.kind = "open" => s.fh # <<>> /\ s.latest = s.open
          /\ call.kind = "size" => Len(s.value) = 2
          /\ call.kind = "read" => s.value \in Name /\ Len(s.value) <= 6
      BY <1>0, <1>2, <1>14, KnowingSays
    <3>2. call.kind = "root_fh" => s.fh = <<>> /\ Len(s.root) <= FhSize
      BY <1>3, <1>5, <1>9 DEF Knows
    <3> QED BY <1>7, <1>10, <3>1, <3>2 DEF Fits
  <2>4. call.kind = "create_session" => t.slot = 0
    <3>1. call.kind = "create_session" => s.slot = 0 /\ ~InSession(call)
      BY <1>0, <1>2, <1>14, KnowingSays DEF InSession
    <3> QED BY <1>10, <3>1
  <2>5. b = Body(c'.xid, Numbers(meant'.ops), 0, srv', d)
    BY <1>1, <2>0 DEF named
  <2>6. Leads(Numbers(meant'.ops), Carrying(call'))
    BY <1>1, <1>4 DEF named
  <2>7. wire' = <<4 * Len(b)>> \o b
    BY <1>14, <2>2
  <2>8. Granted(b)'
    BY <1>1, <1>7, <1>12, <2>3, <2>4, <2>5, <2>6 DEF Granted
  <2> QED BY <1>1, <1>13, <2>2, <2>7, <2>8, <1>11 DEF Faithful, InTransit, Told, ValueKept, Answered
<1>15. CASE /\ (s \in Knowing(call) /\ call.kind = "open") \/ s = srv
            /\ \E n \in 1 .. Len(named) : wire' = Reply(c.xid, SubSeq(named, 1, n), 2, srv', d)
  <2>1. PICK n \in 1 .. Len(named) : wire' = Reply(c.xid, SubSeq(named, 1, n), 2, srv', d)
    BY <1>15
  <2> DEFINE xid == c.xid
             t == srv'
             o == SubSeq(named, 1, n)
             status == 2
  <2>0. PICK b : b = Body(xid, o, status, t, d)
    OBVIOUS
  <2>2. xid \in Nat /\ t \in Server /\ status \in Nat
    BY <1>10, <1>13
  <2>3. o \in Seq(Nat)
    <3>1. n \in Nat /\ n <= Len(named)
      BY <1>4
    <3> QED BY <1>4, <3>1, FrontIs
  <2>4. wire' = Reply(xid, o, status, t, d)
    BY <2>1
  <2>5. status # 0
    OBVIOUS
  <2> HIDE DEF xid, t, o, status
  <2>6. b \in Seq(Nat) /\ Len(b) >= 9 /\ b[7] = status
    BY <1>7, <2>0, <2>2, <2>3, BodyType
  <2>7. Reply(xid, o, status, t, d) = <<4 * Len(b)>> \o b
    <3> DEFINE e == Body(xid, o, status, t, d)
    <3>1. Reply(xid, o, status, t, d) = <<4 * Len(e)>> \o e
      BY <1>7, <2>2, <2>3, BodyIs, ZenonT(80)
    <3> QED BY <2>0, <3>1
  <2>8. Current'
    BY <1>12, <1>15
  <2>9. Denied(b)'
    BY <2>5, <2>6, <2>8 DEF Denied
  <2> QED BY <1>1, <1>11, <1>13, <2>4, <2>6, <2>7, <2>9
          DEF Faithful, InTransit, Told, ValueKept, Answered
<1> QED BY <1>8, <1>14, <1>15

LEMMA StoredBehind ==
    ASSUME NEW r \in Seq(Nat), NEW t \in Seq(Nat), NEW g \in Nat, NEW x \in Seq(Nat),
           g <= Len(r), g + Len(x) <= Len(t), \A i \in 1 .. g : t[i] = r[i],
           \A i \in 1 .. Len(x) : t[g + i] = x[i]
    PROVE  SubSeq(t, 1, g + Len(x)) = SubSeq(r, 1, g) \o x
<1> DEFINE l == g + Len(x)
           a == SubSeq(t, 1, l)
           u == SubSeq(r, 1, g)
           e == u \o x
<1>1. Len(x) \in Nat /\ l \in Nat /\ l <= Len(t)
  OBVIOUS
<1> HIDE DEF l
<1>2. a \in Seq(Nat) /\ Len(a) = l /\ \A i \in 1 .. l : a[i] = t[i]
  BY <1>1, FrontIs
<1>3. u \in Seq(Nat) /\ Len(u) = g /\ \A i \in 1 .. g : u[i] = r[i]
  BY FrontIs
<1> HIDE DEF a, u
<1>4. /\ e \in Seq(Nat) /\ Len(e) = g + Len(x)
      /\ \A i \in 1 .. g : e[i] = u[i]
      /\ \A i \in 1 .. Len(x) : e[g + i] = x[i]
  <2>1. u \in Seq(Nat) /\ x \in Seq(Nat)
    BY <1>3
  <2>2. /\ e \in Seq(Nat) /\ Len(e) = Len(u) + Len(x)
        /\ \A i \in 1 .. Len(u) : e[i] = u[i]
        /\ \A i \in 1 .. Len(x) : e[Len(u) + i] = x[i]
    BY <2>1, ConcatIs
  <2> QED BY <1>3, <2>2
<1> HIDE DEF e
<1>5. ASSUME NEW i \in 1 .. l PROVE a[i] = e[i]
  <2>1. CASE i <= g
    <3>1. i \in 1 .. g
      BY <1>1, <2>1
    <3> QED BY <1>2, <1>3, <1>4, <3>1
  <2>2. CASE ~(i <= g)
    <3> DEFINE j == i - g
    <3>1. j \in 1 .. Len(x) /\ g + j = i
      BY <1>1, <2>2 DEF l
    <3> HIDE DEF j
    <3>2. t[g + j] = x[j] /\ e[g + j] = x[j]
      BY <1>4, <3>1
    <3> QED BY <1>2, <3>1, <3>2
  <2> QED BY <2>1, <2>2
<1>6. Len(e) = l
  BY <1>4 DEF l
<1>7. a = e
  <2>1. a \in Seq(Nat) /\ e \in Seq(Nat) /\ Len(a) = Len(e)
    BY <1>2, <1>4, <1>6
  <2>2. ASSUME NEW i \in 1 .. Len(a) PROVE a[i] = e[i]
    BY <1>2, <1>5
  <2> QED BY <2>1, <2>2, SameSeq
<1> QED BY <1>7 DEF a, e, u, l

\* read_fully() puts the words behind those it has read.
LEMMA ReadBodyTells ==
    ASSUME IInv, Faithful, ReadBody
    PROVE  Faithful'
<1> DEFINE n == Min2(Len(socket), frame)
           x == SubSeq(socket, 1, n)
           y == SubSeq(socket, n + 1, Len(socket))
           s == Store(reverse, Place, x)
           m == IF got' = frame THEN frame ELSE 0
<1>1. /\ pc = "body" /\ n > 0 /\ got' = got + n /\ reverse' = [s EXCEPT !.end = m]
      /\ socket' = y /\ pc' = IF got' >= frame THEN "parse" ELSE "body"
      /\ UNCHANGED <<call, calls, c, f, result, up, forward, frame, wire, srv, sent, meant>>
  BY DEF ReadBody, client, server
<1>2. /\ wire \in Seq(Nat) /\ socket \in Seq(Nat) /\ Whole(reverse)
      /\ frame \in Nat /\ got \in Nat
  BY IInvIs
<1>3. /\ got + Len(socket) + Len(wire) = frame /\ got < frame
      /\ frame <= reverse.capacity /\ reverse.start = 0
  BY <1>1 DEF IInv, OneReply
<1>4. Len(socket) \in Nat /\ Len(wire) \in Nat
  BY <1>2
<1>5. n \in Nat /\ n <= Len(socket) /\ got + n <= frame
  BY <1>2, <1>3, <1>4 DEF Min2
<1>6. x \in Seq(Nat) /\ Len(x) = n /\ y \in Seq(Nat) /\ x \o y = socket
  BY <1>2, <1>5, Halves
<1> HIDE DEF n, x, y
<1>7. PICK t \in Seq(Nat) :
        /\ s = [reverse EXCEPT !.contents = t] /\ Len(t) = reverse.capacity
        /\ \A i \in 1 .. got : t[i] = reverse.contents[i]
        /\ \A i \in 1 .. Len(x) : t[got + i] = x[i]
  <2> DEFINE p == Place
  <2>1. p = got /\ p \in Nat
    BY <1>2, <1>3 DEF Place
  <2>2. /\ reverse \in Buffer /\ Len(reverse.contents) = reverse.capacity
        /\ reverse.capacity \in Nat
    BY <1>2 DEF Whole, Buffer
  <2>3. p + Len(x) <= reverse.capacity
    BY <1>2, <1>3, <1>5, <1>6, <2>1, <2>2
  <2> HIDE DEF p
  <2>4. PICK t \in Seq(Nat) :
          /\ Store(reverse, p, x) = [reverse EXCEPT !.contents = t]
          /\ Len(t) = reverse.capacity
          /\ \A i \in 1 .. p : t[i] = reverse.contents[i]
          /\ \A i \in 1 .. Len(x) : t[p + i] = x[i]
    BY <1>6, <2>1, <2>2, <2>3, StoreIs
  <2>5. s = [reverse EXCEPT !.contents = t]
    BY <2>4 DEF p
  <2> QED BY <2>1, <2>4, <2>5
<1> HIDE DEF s
<1>8. reverse'.contents = t /\ reverse'.start = 0 /\ reverse'.end = m
  <2>1. reverse \in Buffer
    BY <1>2 DEF Whole
  <2> HIDE DEF m
  <2> QED BY <1>1, <1>3, <1>7, <2>1 DEF Buffer
<1> DEFINE u == SubSeq(reverse.contents, 1, got)
           v == SubSeq(t, 1, got')
           all == u \o (socket \o wire)
<1>9. reverse.contents \in Seq(Nat) /\ got <= Len(reverse.contents) /\ got + n <= Len(t)
  <2>1. reverse.contents \in Seq(Nat) /\ Len(reverse.contents) = reverse.capacity
        /\ reverse.capacity \in Nat
    BY <1>2 DEF Whole, Buffer
  <2> QED BY <1>2, <1>3, <1>5, <1>7, <2>1, SMTT(30)
<1>10. u \in Seq(Nat)
  BY <1>2, <1>9, FrontIs
<1>11. v = u \o x
  <2> DEFINE r == reverse.contents
  <2>1. r \in Seq(Nat) /\ got <= Len(r) /\ got + Len(x) <= Len(t) /\ x \in Seq(Nat)
    BY <1>6, <1>9
  <2>2. \A i \in 1 .. got : t[i] = r[i]
    BY <1>7
  <2>3. \A i \in 1 .. Len(x) : t[got + i] = x[i]
    BY <1>7
  <2> HIDE DEF r
  <2>4. SubSeq(t, 1, got + Len(x)) = SubSeq(r, 1, got) \o x
    BY <1>2, <2>1, <2>2, <2>3, StoredBehind, ZenonT(80)
  <2> QED BY <1>1, <1>6, <2>4 DEF r
<1> HIDE DEF u, v
<1>12. v \o (y \o wire) = all
  <2>1. u \in Seq(Nat) /\ x \in Seq(Nat) /\ y \in Seq(Nat) /\ wire \in Seq(Nat)
    BY <1>2, <1>6, <1>10
  <2>2. y \o wire \in Seq(Nat)
    BY <2>1, ConcatIs
  <2>3. (u \o x) \o (y \o wire) = u \o (x \o (y \o wire))
    BY <2>1, <2>2, WordsAssoc, ZenonT(80)
  <2>4. (x \o y) \o wire = x \o (y \o wire)
    BY <2>1, WordsAssoc, ZenonT(80)
  <2> QED BY <1>6, <1>11, <2>3, <2>4
<1>13. Told(all)
  BY <1>1 DEF Faithful, InTransit, u
<1> HIDE DEF all, m
<1>14. PICK b : b = all
  OBVIOUS
<1>15. Told(b)'
  BY <1>1, <1>13, <1>14 DEF Told, Granted, Denied, Current
<1>16. SubSeq(reverse'.contents, 1, got') \o (socket' \o wire') = b
  BY <1>1, <1>8, <1>12, <1>14 DEF v
<1>17. InTransit'
  <2>1. CASE got' >= frame
    <3>1. pc' = "parse" /\ got' = frame
      <4> DEFINE g == got'
      <4>1. g \in Nat /\ g <= frame
        BY <1>1, <1>2, <1>5
      <4> HIDE DEF g
      <4>2. g = frame
        BY <1>2, <2>1, <4>1 DEF g
      <4> QED BY <1>1, <2>1, <4>2 DEF g
    <3>2. socket' = <<>> /\ wire' = <<>>
      BY <3>1, ReadBodyStep DEF IInv, OneReply
    <3>3. v \in Seq(Nat)
      BY <1>6, <1>10, <1>11, ConcatIs
    <3>4. v \o (<<>> \o <<>>) = v
      <4>1. v \o <<>> = v
        BY <3>3, ConcatEmpty
      <4>2. <<>> \in Seq(Nat)
        OBVIOUS
      <4>3. <<>> \o <<>> = <<>>
        BY <4>2, ConcatEmpty
      <4> QED BY <4>1, <4>3
    <3>5. v = b
      BY <1>8, <1>16, <3>2, <3>4 DEF v
    <3>6. Contents(reverse)' = v
      <4>1. Contents(reverse') = SubSeq(t, 0 + 1, m)
        BY <1>8 DEF Contents
      <4>2. m = got' /\ 0 + 1 = 1
        BY <3>1 DEF m
      <4> QED BY <4>1, <4>2 DEF v
    <3> QED BY <1>8, <1>15, <3>1, <3>5, <3>6 DEF InTransit
  <2>2. CASE ~(got' >= frame)
    <3>1. pc' = "body"
      BY <1>1, <2>2
    <3> QED BY <1>15, <1>16, <3>1 DEF InTransit
  <2> QED BY <2>1, <2>2
<1>18. Knows'
  BY <1>1 DEF Faithful, Knows, Current, Session
<1>19. (ValueKept /\ Answered)'
  BY <1>1 DEF ValueKept, Answered
<1> QED BY <1>17, <1>18, <1>19 DEF Faithful

\* A call takes from the reply what the server knows, or fails and takes nothing.
\* What transact() returns is what the server has said, or an error.
LEMMA ReturnLearns ==
    ASSUME IInv, Faithful, Return
    PROVE  \E o \in Outcomes(call, Contents(reverse)) :
             /\ c' = o.c /\ f' = o.f /\ result' = [ok |-> o.ok, value |-> o.value]
             /\ up' = IF up < 4 /\ o.ok THEN up + 1 ELSE up
             /\ pc' = IF up < 4 /\ ~o.ok THEN "closed" ELSE "idle"
             /\ \/ /\ Learns(call, srv, o)
                   /\ Contents(reverse) \in Seq(Nat) /\ Len(Contents(reverse)) >= 9
                   /\ Contents(reverse)[7] = 0
                   /\ call.kind \notin {"lock", "unlock"} => Current
                   /\ call.kind = "create_session" => srv.slot = 0
                \/ /\ o = Failed
                   /\ Contents(reverse) \in Seq(Nat) /\ Len(Contents(reverse)) >= 9
                   /\ Contents(reverse)[7] # 0 /\ Current
<1> DEFINE r == Contents(reverse)
<1>1. /\ pc = "parse" /\ reverse' = [reverse EXCEPT !.start = reverse.end]
      /\ UNCHANGED <<call, calls, forward, frame, got, wire, socket, srv, sent, meant>>
  BY DEF Return, network, server
<1>2. PICK o \in Outcomes(call, r) :
         /\ c' = o.c /\ f' = o.f /\ result' = [ok |-> o.ok, value |-> o.value]
         /\ up' = IF up < 4 /\ o.ok THEN up + 1 ELSE up
         /\ pc' = IF up < 4 /\ ~o.ok THEN "closed" ELSE "idle"
  <2>1. got = frame
    BY <1>1 DEF IInv, OneReply
  <2> QED BY <2>1 DEF Return
<1>3. /\ Whole(reverse) /\ c \in Client /\ srv \in Server /\ f \in File \union {NoFile}
      /\ up \in 0 .. 4 /\ call \in Allowed
  BY <1>1, IInvIs
<1>4. call \in NoFileCalls \union FileCalls
  BY <1>3, AllowedIs
<1>5. Knows /\ Told(r) /\ reverse.start = 0
  BY <1>1 DEF Faithful, InTransit
<1>6. \/ /\ Learns(call, srv, o) /\ r \in Seq(Nat) /\ Len(r) >= 9 /\ r[7] = 0
         /\ call.kind \notin {"lock", "unlock"} => Current
         /\ call.kind = "create_session" => srv.slot = 0
      \/ o = Failed /\ r \in Seq(Nat) /\ Len(r) >= 9 /\ r[7] # 0 /\ Current
  <2> HIDE DEF r
  <2>1. CASE Granted(r)
    <3> DEFINE ops == Numbers(meant.ops)
               zero == 0
    <3>1. PICK d \in Seq(Nat) : r = Body(c.xid, ops, zero, srv, d) /\ Fits(call, srv, d)
      BY <2>1 DEF Granted
    <3>2. Leads(ops, Carrying(call))
      BY <2>1 DEF Granted
    <3>3. ops \in Seq(Nat) /\ c.xid \in Nat /\ zero \in Nat
      <4> HIDE DEF ops
      <4>1. ops \in Seq(Nat)
        BY <1>4, <3>2, LeadsType
      <4>2. c.xid \in Nat
        BY <1>3, ClientIs
      <4> QED BY <4>1, <4>2
    <3>4. Learns(call, srv, o)
      <4>1. o \in Outcomes(call, Body(c.xid, ops, 0, srv, d))
        BY <1>2, <3>1
      <4> HIDE DEF ops
      <4> QED BY <1>3, <1>4, <3>1, <3>2, <4>1, CarriedOutTells
    <3> HIDE DEF ops, zero
    <3>5. r \in Seq(Nat) /\ Len(r) >= 9 /\ r[7] = zero
      BY <1>3, <3>1, <3>3, BodyType
    <3> QED BY <2>1, <3>4, <3>5 DEF Granted, zero
  <2>2. CASE Denied(r)
    <3>1. r \in Seq(Nat) /\ Len(r) >= 9 /\ r[7] # 0 /\ Current
      BY <2>2 DEF Denied
    <3> QED BY <1>2, <3>1, RefusedFails
  <2> QED BY <1>5, <2>1, <2>2 DEF Told
<1> QED BY <1>2, <1>6 DEF r

LEMMA ReturnTells ==
    ASSUME IInv, Faithful, Return
    PROVE  Faithful'
<1> DEFINE r == Contents(reverse)
<1>1. /\ pc = "parse" /\ reverse' = [reverse EXCEPT !.start = reverse.end]
      /\ UNCHANGED <<call, calls, forward, frame, got, wire, socket, srv, sent, meant>>
  BY DEF Return, network, server
<1>2. PICK o \in Outcomes(call, r) :
         /\ c' = o.c /\ f' = o.f /\ result' = [ok |-> o.ok, value |-> o.value]
         /\ up' = IF up < 4 /\ o.ok THEN up + 1 ELSE up
         /\ pc' = IF up < 4 /\ ~o.ok THEN "closed" ELSE "idle"
         /\ \/ /\ Learns(call, srv, o) /\ r \in Seq(Nat) /\ Len(r) >= 9 /\ r[7] = 0
               /\ call.kind \notin {"lock", "unlock"} => Current
               /\ call.kind = "create_session" => srv.slot = 0
            \/ o = Failed /\ r \in Seq(Nat) /\ Len(r) >= 9 /\ r[7] # 0 /\ Current
  BY ReturnLearns
<1>3. /\ Whole(reverse) /\ c \in Client /\ srv \in Server /\ f \in File \union {NoFile}
      /\ up \in 0 .. 4 /\ call \in Allowed
  BY <1>1, IInvIs
<1>4. call \in NoFileCalls \union FileCalls
  BY <1>3, AllowedIs
<1>5. /\ call.kind = "exchange_id" <=> up = 0
      /\ call.kind = "create_session" <=> up = 1
      /\ call.kind = "root_fh" <=> up = 2
      /\ call.kind = "open" => up = 4 /\ f = NoFile
      /\ call.kind \in {"lock", "unlock"} => up = 4 /\ f \in File /\ f # NoFile
  BY <1>3, <1>4, AllowedKind, CallKind
<1>6. Knows /\ Told(r) /\ reverse.start = 0
  BY <1>1 DEF Faithful, InTransit
<1>7. \/ /\ Learns(call, srv, o) /\ r \in Seq(Nat) /\ Len(r) >= 9 /\ r[7] = 0
         /\ call.kind \notin {"lock", "unlock"} => Current
         /\ call.kind = "create_session" => srv.slot = 0
      \/ o = Failed /\ r \in Seq(Nat) /\ Len(r) >= 9 /\ r[7] # 0 /\ Current
  BY <1>2
<1>8. WordAt(reverse'.contents, 7) = r[7]
  <2> DEFINE w == reverse.contents
             e == reverse.end
  <2>1. /\ reverse.start \in Nat /\ e \in Nat /\ e <= Len(w) /\ w \in Seq(Nat)
        /\ reverse'.contents = w
    BY <1>1, <1>3 DEF Whole, Buffer
  <2>2. r = SubSeq(w, 1, e)
    BY <1>6 DEF Contents
  <2>3. Len(r) >= 9
    BY <1>7
  <2> HIDE DEF w, e, r
  <2>4. Len(r) = e /\ \A i \in 1 .. e : r[i] = w[i]
    BY <2>1, <2>2, FrontIs
  <2>5. 7 \in 1 .. e /\ 7 \in DOMAIN w
    BY <2>1, <2>3, <2>4
  <2>6. WordAt(w, 7) = w[7]
    BY <2>5 DEF WordAt
  <2> QED BY <2>1, <2>4, <2>5, <2>6
<1> HIDE DEF r
<1>9. InTransit'
  BY <1>2 DEF InTransit
<1>10. ASSUME o = Failed, r[7] # 0, Current PROVE Faithful'
  <2>1. o.c = c /\ o.f = f /\ o.ok = FALSE
    BY <1>10 DEF Failed, Outcome
  <2>2. c' = c /\ f' = f /\ up' = up /\ result'.ok = FALSE
    BY <1>2, <2>1
  <2>3. pc' \in {"idle", "closed"}
    BY <1>2
  <2>4. Knows'
    BY <1>1, <1>6, <1>10, <2>2, <2>3 DEF Knows, Current, Session
  <2>5. ValueKept' /\ Answered'
    BY <1>8, <1>10, <2>2 DEF ValueKept, Answered
  <2> QED BY <1>9, <2>4, <2>5 DEF Faithful
<1>11. ASSUME Learns(call, srv, o), r[7] = 0,
              call.kind \notin {"lock", "unlock"} => Current,
              call.kind = "create_session" => srv.slot = 0
       PROVE  Faithful'
  <2>1. /\ result'.ok = o.ok /\ result'.value = o.value
        /\ o.ok \/ call.kind = "open"
        /\ call.kind \in {"size", "read"} => o.value = srv.value
    BY <1>2, <1>11 DEF Learns
  <2>2. ValueKept' /\ Answered'
    BY <1>1, <1>8, <1>11, <2>1 DEF ValueKept, Answered
  <2>3. pc' = "idle" /\ up' = (IF up < 4 THEN up + 1 ELSE up)
    BY <1>2, <1>5, <2>1
  <2>4. up = 0 => up' = 1 /\ c'.clientid = srv.clientid
    BY <1>2, <1>5, <1>11, <2>3 DEF Learns
  <2>5. up = 1 => up' = 2 /\ c'.clientid = srv.clientid /\ Session'
    <3>1. SUFFICES ASSUME up = 1 PROVE up' = 2 /\ c'.clientid = srv.clientid /\ Session'
      OBVIOUS
    <3>2. /\ c'.clientid = c.clientid /\ c'.sequence = c.sequence
          /\ c'.session = srv.session /\ Within(c', srv)
      BY <1>2, <1>5, <1>11, <3>1 DEF Learns
    <3>3. c.clientid = srv.clientid /\ c.sequence = 1 /\ srv.slot = 0
      BY <1>1, <1>5, <1>6, <1>11, <3>1 DEF Knows
    <3>4. Within(c, srv)'
      BY <1>1, <3>2 DEF Within
    <3> QED BY <1>1, <2>3, <3>1, <3>2, <3>3, <3>4 DEF Session
  <2>6. up = 2 => /\ up' = 3 /\ c'.clientid = srv.clientid /\ Session'
                  /\ c'.root = srv.root
    <3>1. SUFFICES ASSUME up = 2
                   PROVE  /\ up' = 3 /\ c'.clientid = srv.clientid /\ Session'
                          /\ c'.root = srv.root
      OBVIOUS
    <3>2. c' = [c EXCEPT !.root = srv.root]
      BY <1>2, <1>5, <1>11, <3>1 DEF Learns
    <3>3. /\ c'.clientid = c.clientid /\ c'.sequence = c.sequence /\ c'.session = c.session
          /\ c'.maxreq = c.maxreq /\ c'.maxresp = c.maxresp /\ c'.maxops = c.maxops
          /\ c'.maxreqs = c.maxreqs /\ c'.root = srv.root
      BY <1>3, <3>2 DEF Client
    <3>4. c.clientid = srv.clientid /\ Session
      BY <1>6, <3>1 DEF Knows
    <3> QED BY <1>1, <2>3, <3>1, <3>3, <3>4 DEF Session, Within
  <2>7. up >= 3 => c' = c /\ up' = 4
    <3>1. SUFFICES ASSUME up >= 3 PROVE c' = c /\ up' = 4
      OBVIOUS
    <3>2. call.kind \notin {"exchange_id", "create_session", "root_fh"}
      BY <1>5, <3>1
    <3>3. o.c = c
      BY <1>11, <3>2 DEF Learns
    <3> QED BY <1>2, <1>3, <2>3, <3>1, <3>3
  <2>8. f' # NoFile => f'.fh = srv.fh /\ f'.open = srv.open /\ f'.latest = srv.latest
    <3>1. CASE call.kind = "open"
      <4>1. f = NoFile /\ (f' = f \/ f' = Handed(srv))
        BY <1>2, <1>5, <1>11, <3>1 DEF Learns
      <4> QED BY <4>1 DEF Handed
    <3>2. CASE call.kind \in {"lock", "unlock"}
      <4>1. f' = [f EXCEPT !.latest = srv.latest] /\ f \in File /\ f # NoFile
        BY <1>2, <1>5, <1>11, <3>2 DEF Learns
      <4>2. f'.fh = f.fh /\ f'.open = f.open /\ f'.latest = srv.latest
        BY <4>1 DEF File
      <4> QED BY <1>6, <4>1, <4>2 DEF Knows
    <3>3. CASE call.kind \notin {"open", "lock", "unlock"}
      <4>1. f' = f /\ Current
        BY <1>2, <1>11, <3>3 DEF Learns
      <4> QED BY <1>6, <4>1 DEF Knows, Current
    <3> QED BY <3>1, <3>2, <3>3
  <2>9. up' < 4 => srv.fh = <<>>
    BY <1>3, <1>6, <2>3 DEF Knows
  <2>10. /\ up' >= 1 => c'.clientid = srv.clientid
         /\ up' >= 2 => Session'
         /\ up' >= 3 => c'.root = srv.root
    <3>1. CASE up >= 3
      <4>1. c' = c /\ c.clientid = srv.clientid /\ Session /\ c.root = srv.root
        BY <1>3, <1>6, <2>7, <3>1 DEF Knows
      <4>2. Session'
        BY <1>1, <2>3, <4>1 DEF Session, Within
      <4> QED BY <4>1, <4>2
    <3>2. CASE up \in {0, 1, 2}
      BY <2>4, <2>5, <2>6, <3>2
    <3> QED BY <1>3, <3>1, <3>2
  <2>11. Knows'
    BY <1>1, <1>6, <2>3, <2>8, <2>9, <2>10 DEF Knows, Current
  <2> QED BY <1>9, <2>2, <2>11 DEF Faithful
<1> QED BY <1>7, <1>10, <1>11

\* What is in transit is what the server knows, and what the client has been told it
\* keeps, in every state.
LEMMA FaithfulHolds == Spec => []Faithful
<1>1. ASSUME IInv, Faithful, [Next]_vars PROVE Faithful'
  <2>1. CASE Connect
    <3>1. Begin([kind |-> Startup[up + 1]]) /\ up < 4
      BY <2>1 DEF Connect
    <3>2. [kind |-> Startup[up + 1]] \in Allowed
      BY <3>1 DEF Allowed
    <3> QED BY <1>1, <3>1, <3>2, BeginTells
  <2>2. CASE Use
    <3>1. up = 4
      BY <2>2 DEF Use
    <3>2. PICK x \in IF f = NoFile THEN NameCalls \union OpenCalls ELSE FileCalls : Begin(x)
      BY <2>2 DEF Use
    <3>3. x \in Allowed
      BY <3>1 DEF Allowed
    <3> QED BY <1>1, <3>2, <3>3, BeginTells
  <2>3. CASE UNCHANGED vars
    <3>1. /\ UNCHANGED <<pc, call, calls, c, f, result, up, forward, reverse, frame, got, wire>>
          /\ UNCHANGED <<socket, srv, sent, meant>>
      BY <2>3 DEF vars, client, network, server
    <3>2. InTransit'
      BY <1>1, <3>1 DEF Faithful, InTransit, Told, Granted, Denied, Current
    <3>3. Knows'
      BY <1>1, <3>1 DEF Faithful, Knows, Session, Current
    <3>4. (ValueKept /\ Answered)'
      BY <1>1, <3>1 DEF Faithful, ValueKept, Answered
    <3> QED BY <3>2, <3>3, <3>4 DEF Faithful
  <2> QED BY <1>1, <2>1, <2>2, <2>3, CloseTells, SendTells, ArriveTells, ReadFrameTells,
             ReadBodyTells, ReturnTells DEF Next
<1> QED BY FaithfulAtFirst, TypeCorrect, <1>1, PTL DEF Spec

\* A call the server has carried out succeeds, an OPEN excepted whose parse_open() has
\* no return value; one it has refused fails.
THEOREM AnsweredHolds == Spec => []Answered
<1>1. Faithful => Answered
  BY DEF Faithful
<1> QED BY <1>1, FaithfulHolds, PTL

\* Between calls the client knows what the server has told it: the client id, the
\* session and its next sequence id, the limits, the root handle, the handle and the
\* stateids of the file, and what a call has returned are the server's.
THEOREM InStepHolds == Spec => []InStep
<1>1. IInv /\ Faithful => InStep
  <2>1. SUFFICES ASSUME IInv, Faithful, pc = "idle" PROVE InStep
    BY DEF InStep
  <2>2. Knows /\ ValueKept
    BY <2>1 DEF Faithful
  <2>3. up >= 2 => /\ c.session = srv.session /\ c.sequence = srv.slot + 1
                   /\ \A n \in {c.maxreq, c.maxresp, c.maxops, c.maxreqs} : n <= srv.limit
    BY <2>1, <2>2 DEF Knows, Session, Within
  <2>4. f # NoFile => f = [fh |-> srv.fh, open |-> srv.open, latest |-> srv.latest]
    <3>1. SUFFICES ASSUME f # NoFile
                   PROVE  f = [fh |-> srv.fh, open |-> srv.open, latest |-> srv.latest]
      OBVIOUS
    <3>2. f \in File
      BY <2>1, <3>1, IInvIs
    <3>3. f.fh = srv.fh /\ f.open = srv.open /\ f.latest = srv.latest
      BY <2>1, <2>2, <3>1 DEF Knows, Current
    <3> QED BY <3>2, <3>3 DEF File
  <2>5. up >= 1 => c.clientid = srv.clientid
    BY <2>2 DEF Knows
  <2>6. up >= 3 => c.root = srv.root
    BY <2>2 DEF Knows
  <2>7. result.ok /\ call.kind \in {"size", "read"} => result.value = srv.value
    BY <2>1, <2>2 DEF ValueKept
  <2> QED BY <2>3, <2>4, <2>5, <2>6, <2>7 DEF InStep
<1> QED BY <1>1, TypeCorrect, FaithfulHolds, PTL
=============================================================================
