--------------------------- MODULE LoweringProofs ---------------------------
(***************************************************************************)
(* The instructions of the Pass are a parallel form of the loop nest, for  *)
(* every matrix, every environment and every shape.                        *)
(***************************************************************************)
EXTENDS BlockCholesky, LoweringProperties, TLAPS, WellFoundedInduction,
        SequenceTheorems, FiniteSetTheorems

-----------------------------------------------------------------------------
(* Sequences of sequences.  FlattenSeq is a recursive function; that it is   *)
(* one, and what it computes, follows for all lengths since a set of natural *)
(* numbers has a least element.                                              *)

LEMMA LeastElement ==
    ASSUME NEW S, S \subseteq Nat, S # {}
    PROVE  \E m \in S : \A i \in S : m <= i
<1>1. PICK m \in S : \A i \in S : ~(<<i, m>> \in OpToRel(<, Nat))
  BY NatLessThanWellFounded, WFMin, Zenon
<1>2. ASSUME NEW i \in S PROVE m <= i
  <2>1. ~(i < m) BY <1>1, Zenon DEF OpToRel
  <2> QED BY <2>1
<1> QED BY <1>2

\* What holds of no number, or first of none, holds of none.
LEMMA NoFirst ==
    ASSUME NEW S, S \subseteq Nat, 0 \notin S,
           \A n \in Nat : n \notin S => n + 1 \notin S
    PROVE  S = {}
<1>1. ASSUME S # {} PROVE FALSE
  <2>1. PICK m \in S : \A i \in S : m <= i BY <1>1, LeastElement
  <2>2. m \in Nat /\ m # 0 BY <2>1
  <2>3. m - 1 \in Nat /\ m - 1 \notin S BY <2>1, <2>2
  <2>4. (m - 1) + 1 = m BY <2>2
  <2> QED BY <2>1, <2>3, <2>4
<1> QED BY <1>1

\* The first n of the sequences, one after the other, are f[n].
Flattens(ss, f, n) ==
    \A i \in 1 .. n : f[i] = IF i = 1 THEN ss[i] ELSE f[i - 1] \o ss[i]

LEMMA FlattenExists ==
    ASSUME NEW S, NEW ss \in Seq(Seq(S))
    PROVE  \E f \in [1 .. Len(ss) -> Seq(S)] : Flattens(ss, f, Len(ss))
<1> DEFINE L == Len(ss)
           Bad == {n \in Nat : n <= L /\ ~ \E f \in [1 .. n -> Seq(S)] : Flattens(ss, f, n)}
<1>1. L \in Nat /\ \A i \in 1 .. L : ss[i] \in Seq(S) BY LenProperties, ElementOfSeq
<1> HIDE DEF L
<1>2. 0 \notin Bad
  <2>1. [i \in 1 .. 0 |-> <<>>] \in [1 .. 0 -> Seq(S)] OBVIOUS
  <2>2. Flattens(ss, [i \in 1 .. 0 |-> <<>>], 0) BY DEF Flattens
  <2> QED BY <2>1, <2>2
<1>3. ASSUME NEW n \in Nat, n \notin Bad PROVE n + 1 \notin Bad
  <2>1. CASE n + 1 > L BY <2>1, <1>1
  <2>2. CASE n + 1 <= L
    <3>1. PICK f \in [1 .. n -> Seq(S)] : Flattens(ss, f, n) BY <1>1, <1>3, <2>2
    <3> DEFINE last == IF n = 0 THEN ss[1] ELSE f[n] \o ss[n + 1]
               g == [i \in 1 .. n + 1 |-> IF i = n + 1 THEN last ELSE f[i]]
    <3>2. last \in Seq(S)
      <4>1. ss[n + 1] \in Seq(S) BY <1>1, <2>2
      <4>2. CASE n = 0 BY <4>1, <4>2
      <4>3. CASE n # 0
        <5>1. f[n] \in Seq(S) BY <3>1, <4>3
        <5> QED BY <4>1, <4>3, <5>1, ConcatProperties
      <4> QED BY <4>2, <4>3
    <3> HIDE DEF last
    <3>3. g \in [1 .. n + 1 -> Seq(S)] BY <3>1, <3>2
    <3>4. ASSUME NEW i \in 1 .. n + 1
          PROVE  g[i] = IF i = 1 THEN ss[i] ELSE g[i - 1] \o ss[i]
      <4>1. CASE i = n + 1 /\ n = 0 BY <4>1 DEF last
      <4>2. CASE i = n + 1 /\ n # 0
        <5>1. g[i] = f[n] \o ss[n + 1] BY <4>2 DEF last
        <5>2. i - 1 \in 1 .. n + 1 /\ i - 1 # n + 1 /\ i - 1 = n /\ i # 1 BY <4>2
        <5>3. g[i - 1] = f[n] BY <5>2
        <5> QED BY <4>2, <5>1, <5>2, <5>3
      <4>3. CASE i # n + 1
        <5>1. i \in 1 .. n /\ g[i] = f[i] BY <4>3
        <5>2. f[i] = IF i = 1 THEN ss[i] ELSE f[i - 1] \o ss[i] BY <3>1, <5>1 DEF Flattens
        <5>3. i # 1 => i - 1 \in 1 .. n + 1 /\ i - 1 # n + 1 BY <5>1
        <5> QED BY <5>1, <5>2, <5>3
      <4> QED BY <4>1, <4>2, <4>3
    <3> HIDE DEF g
    <3>5. Flattens(ss, g, n + 1) BY <3>4 DEF Flattens
    <3> QED BY <3>3, <3>5
  <2> QED BY <1>1, <2>1, <2>2
<1>4. Bad = {}
  <2>1. Bad \subseteq Nat OBVIOUS
  <2> HIDE DEF Bad
  <2> QED BY <1>2, <1>3, <2>1, NoFirst
<1>5. L \notin Bad BY <1>4
<1> QED BY <1>1, <1>5 DEF L

\* FlattenSeq is the last of them.
LEMMA FlattenSeqIs ==
    ASSUME NEW S, NEW ss \in Seq(Seq(S)), Len(ss) # 0
    PROVE  \E f : Flattens(ss, f, Len(ss)) /\ FlattenSeq(ss) = f[Len(ss)]
<1> DEFINE L == Len(ss)
           Rec(f) == f = [i \in 1 .. L |-> IF i = 1 THEN ss[i] ELSE f[i - 1] \o ss[i]]
           F == CHOOSE flatten :
                    flatten = [i \in 1 .. Len(ss) |->
                                IF i = 1 THEN ss[i] ELSE flatten[i - 1] \o ss[i]]
<1>1. FlattenSeq(ss) = F[Len(ss)] BY DEF FlattenSeq
<1>2. PICK g \in [1 .. L -> Seq(S)] : Flattens(ss, g, L) BY FlattenExists
<1>3. g = [i \in 1 .. L |-> IF i = 1 THEN ss[i] ELSE g[i - 1] \o ss[i]]
  BY <1>2 DEF Flattens
<1>4. F = [i \in 1 .. L |-> IF i = 1 THEN ss[i] ELSE F[i - 1] \o ss[i]]
  <2>1. Rec(g) BY <1>3
  <2>2. Rec(CHOOSE f : Rec(f))
    <3> HIDE DEF Rec
    <3> QED BY <2>1, Zenon
  <2> QED BY <2>2
<1>5. Flattens(ss, F, L)
  <2> HIDE DEF F
  <2> QED BY <1>4 DEF Flattens
<1> QED BY <1>1, <1>5

\* The first n of the sequences lie in s one after the other, the i-th of them
\* behind start[i - 1].
Flat(ss, s, start, n) ==
    /\ start \in [0 .. n -> Nat]
    /\ start[0] = 0
    /\ \A i \in 1 .. n : start[i] = start[i - 1] + Len(ss[i])
    /\ Len(s) = start[n]
    /\ \A i \in 1 .. n : \A k \in 1 .. Len(ss[i]) :
            start[i - 1] + k \in 1 .. Len(s) /\ s[start[i - 1] + k] = ss[i][k]

LEMMA FlatStep ==
    ASSUME NEW S, NEW ss \in Seq(Seq(S)), NEW n \in 0 .. Len(ss) - 1,
           NEW s \in Seq(S), NEW start, Flat(ss, s, start, n)
    PROVE  \E next : Flat(ss, s \o ss[n + 1], next, n + 1)
<1> DEFINE t == ss[n + 1]
           next == [i \in 0 .. n + 1 |-> IF i = n + 1 THEN start[n] + Len(t) ELSE start[i]]
<1>1. Len(ss) \in Nat /\ n \in Nat /\ n + 1 \in 1 .. Len(ss) BY LenProperties
<1>2. t \in Seq(S) /\ Len(t) \in Nat /\ Len(s) \in Nat BY <1>1, ElementOfSeq, LenProperties
<1>3. /\ Len(s \o t) = Len(s) + Len(t)
      /\ \A i \in 1 .. Len(s) + Len(t) :
            (s \o t)[i] = IF i <= Len(s) THEN s[i] ELSE t[i - Len(s)]
  BY <1>2, ConcatProperties
<1>4. start \in [0 .. n -> Nat] /\ start[0] = 0 /\ Len(s) = start[n] BY DEF Flat
<1>5. \A i \in 1 .. n : /\ start[i] = start[i - 1] + Len(ss[i])
                        /\ \A k \in 1 .. Len(ss[i]) :
                             start[i - 1] + k \in 1 .. Len(s) /\ s[start[i - 1] + k] = ss[i][k]
  BY DEF Flat
<1> HIDE DEF t
<1>6. /\ next \in [0 .. n + 1 -> Nat] /\ next[0] = 0
      /\ next[n + 1] = start[n] + Len(t) /\ \A i \in 0 .. n : next[i] = start[i]
  BY <1>1, <1>2, <1>4
<1> HIDE DEF next
<1>7. ASSUME NEW i \in 1 .. n + 1
      PROVE  /\ next[i] = next[i - 1] + Len(ss[i])
             /\ \A k \in 1 .. Len(ss[i]) : /\ next[i - 1] + k \in 1 .. Len(s \o t)
                                           /\ (s \o t)[next[i - 1] + k] = ss[i][k]
  <2>1. CASE i = n + 1
    <3>1. i - 1 = n /\ ss[i] = t /\ next[i - 1] = start[n] BY <1>1, <1>6, <2>1 DEF t
    <3>2. ASSUME NEW k \in 1 .. Len(t)
          PROVE  /\ start[n] + k \in 1 .. Len(s \o t)
                 /\ (s \o t)[start[n] + k] = t[k]
      <4>1. start[n] + k \in 1 .. Len(s) + Len(t) /\ ~(start[n] + k <= Len(s))
            /\ (start[n] + k) - Len(s) = k
        BY <1>2, <1>4
      <4> QED BY <1>3, <4>1
    <3> QED BY <1>6, <2>1, <3>1, <3>2
  <2>2. CASE i # n + 1
    <3>1. i \in 1 .. n /\ i \in 0 .. n /\ i - 1 \in 0 .. n BY <1>1, <2>2
    <3>2. next[i] = start[i] /\ next[i - 1] = start[i - 1] BY <1>6, <3>1
    <3>3. ASSUME NEW k \in 1 .. Len(ss[i])
          PROVE  /\ start[i - 1] + k \in 1 .. Len(s \o t)
                 /\ (s \o t)[start[i - 1] + k] = ss[i][k]
      <4>1. start[i - 1] + k \in 1 .. Len(s) /\ s[start[i - 1] + k] = ss[i][k]
        BY <1>5, <3>1
      <4>2. start[i - 1] + k \in 1 .. Len(s) + Len(t) /\ start[i - 1] + k <= Len(s)
        BY <1>2, <4>1
      <4> QED BY <1>3, <4>1, <4>2
    <3> QED BY <1>5, <3>1, <3>2, <3>3
  <2> QED BY <2>1, <2>2
<1>8. Len(s \o t) = next[n + 1] BY <1>3, <1>4, <1>6
<1>9. Flat(ss, s \o t, next, n + 1) BY <1>6, <1>7, <1>8 DEF Flat
<1> QED BY <1>9 DEF t

\* FlattenSeq lays the sequences out one after the other.
LEMMA FlattenSeqIsFlat ==
    ASSUME NEW S, NEW ss \in Seq(Seq(S))
    PROVE  /\ FlattenSeq(ss) \in Seq(S)
           /\ \E start : Flat(ss, FlattenSeq(ss), start, Len(ss))
<1> DEFINE L == Len(ss)
<1>1. L \in Nat /\ \A i \in 1 .. L : ss[i] \in Seq(S) BY LenProperties, ElementOfSeq
<1>2. CASE L = 0
  <2>1. FlattenSeq(ss) = ss BY <1>2 DEF FlattenSeq
  <2>2. ss = <<>> BY <1>2, EmptySeq
  <2>3. ss \in Seq(S) /\ Len(ss) = 0 BY <2>2, EmptySeq
  <2>4. Flat(ss, ss, [i \in 0 .. 0 |-> 0], 0) BY <2>3 DEF Flat
  <2> QED BY <1>2, <2>1, <2>3, <2>4
<1>3. CASE L # 0
  <2>1. PICK f : Flattens(ss, f, L) /\ FlattenSeq(ss) = f[L] BY <1>3, FlattenSeqIs
  <2> DEFINE Good(n) == f[n] \in Seq(S) /\ \E start : Flat(ss, f[n], start, n)
             Bad == {n \in Nat : n # 0 /\ n <= L /\ ~Good(n)}
  <2>2. 0 \notin Bad OBVIOUS
  <2>3. ASSUME NEW n \in Nat, n \notin Bad PROVE n + 1 \notin Bad
    <3>1. CASE n + 1 > L BY <1>1, <3>1
    <3>2. CASE n + 1 <= L /\ n = 0
      <4>1. f[1] = ss[1] /\ ss[1] \in Seq(S) BY <1>1, <2>1, <3>2 DEF Flattens
      <4>2. <<>> \in Seq(S) /\ Len(<<>>) = 0 /\ <<>> \o ss[1] = ss[1]
        BY <4>1, EmptySeq, ConcatEmptySeq
      <4>3. Flat(ss, <<>>, [i \in 0 .. 0 |-> 0], 0) BY <4>2 DEF Flat
      <4>4. 0 \in 0 .. Len(ss) - 1 BY <1>1, <3>2
      <4>5. \E next : Flat(ss, <<>> \o ss[0 + 1], next, 0 + 1)
        BY <4>2, <4>3, <4>4, FlatStep
      <4>6. \E next : Flat(ss, f[1], next, 1) BY <4>1, <4>2, <4>5
      <4> QED BY <3>2, <4>1, <4>6
    <3>3. CASE n + 1 <= L /\ n # 0
      <4>1. Good(n) BY <1>1, <2>3, <3>3
      <4>2. n + 1 \in 1 .. L /\ n + 1 # 1 /\ (n + 1) - 1 = n /\ n \in 0 .. Len(ss) - 1
        BY <1>1, <3>3
      <4>3. f[n + 1] = f[n] \o ss[n + 1] BY <2>1, <4>2 DEF Flattens
      <4>4. f[n + 1] \in Seq(S) BY <1>1, <4>1, <4>2, <4>3, ConcatProperties
      <4>5. \E next : Flat(ss, f[n + 1], next, n + 1) BY <4>1, <4>2, <4>3, FlatStep
      <4> QED BY <4>4, <4>5
    <3> QED BY <1>1, <3>1, <3>2, <3>3
  <2>4. Bad = {}
    <3>1. Bad \subseteq Nat OBVIOUS
    <3> HIDE DEF Bad
    <3> QED BY <2>2, <2>3, <3>1, NoFirst
  <2>5. Good(L) BY <1>1, <1>3, <2>4
  <2> QED BY <2>1, <2>5
<1> QED BY <1>2, <1>3

Apart(ss, start) ==
    \A i1 \in 1 .. Len(ss) : \A i2 \in i1 + 1 .. Len(ss) : start[i1] <= start[i2 - 1]

Filled(ss, s, start) ==
    \A j \in 1 .. Len(s) : \E i \in 1 .. Len(ss) : \E k \in 1 .. Len(ss[i]) :
        j = start[i - 1] + k

\* The places of the sequences in s do not overlap and leave no gap.
LEMMA FlatPlaces ==
    ASSUME NEW S, NEW ss \in Seq(Seq(S)), NEW s \in Seq(S), NEW start,
           Flat(ss, s, start, Len(ss))
    PROVE  Apart(ss, start) /\ Filled(ss, s, start)
<1> DEFINE L == Len(ss)
<1>1. L \in Nat /\ \A i \in 1 .. L : Len(ss[i]) \in Nat BY LenProperties, ElementOfSeq
<1>2. /\ start \in [0 .. L -> Nat] /\ start[0] = 0 /\ Len(s) = start[L]
      /\ \A i \in 1 .. L : start[i] = start[i - 1] + Len(ss[i])
  BY DEF Flat
<1> HIDE DEF L
<1>3. ASSUME NEW i1 \in 1 .. L, NEW i2 \in i1 + 1 .. L
      PROVE  start[i1] <= start[i2 - 1]
  <2> DEFINE Bad == {d \in Nat : i1 + d <= L /\ ~(start[i1] <= start[i1 + d])}
  <2>1. 0 \notin Bad BY <1>2
  <2>2. ASSUME NEW d \in Nat, d \notin Bad PROVE d + 1 \notin Bad
    <3>1. CASE i1 + (d + 1) <= L
      <4>1. /\ i1 + (d + 1) \in 1 .. L /\ (i1 + (d + 1)) - 1 = i1 + d /\ i1 + d \in 0 .. L
            /\ i1 + (d + 1) \in 0 .. L /\ i1 \in 0 .. L
        BY <1>1, <3>1
      <4>2. start[i1 + (d + 1)] = start[i1 + d] + Len(ss[i1 + (d + 1)]) BY <1>2, <4>1
      <4>3. start[i1] <= start[i1 + d] BY <2>2, <3>1, <4>1
      <4>4. Len(ss[i1 + (d + 1)]) \in Nat BY <1>1, <4>1
      <4>5. start[i1] \in Nat /\ start[i1 + d] \in Nat BY <1>2, <4>1
      <4> QED BY <4>2, <4>3, <4>4, <4>5
    <3> QED BY <3>1
  <2>3. Bad \subseteq Nat OBVIOUS
  <2> HIDE DEF Bad
  <2>4. Bad = {} BY <2>1, <2>2, <2>3, NoFirst
  <2>5. (i2 - 1) - i1 \in Nat /\ i1 + ((i2 - 1) - i1) = i2 - 1 /\ i2 - 1 <= L BY <1>1
  <2> QED BY <2>4, <2>5 DEF Bad
<1>4. ASSUME NEW j \in 1 .. Len(s)
      PROVE  \E i \in 1 .. L : \E k \in 1 .. Len(ss[i]) : j = start[i - 1] + k
  <2> DEFINE Reach == {i \in 0 .. L : j <= start[i]}
  <2>1. L \in Reach /\ Reach \subseteq Nat BY <1>1, <1>2
  <2>2. PICK i \in Reach : \A h \in Reach : i <= h BY <2>1, LeastElement
  <2>3. i # 0 /\ i \in 1 .. L /\ i - 1 \in 0 .. L BY <1>1, <1>2, <2>2
  <2>4. ~(j <= start[i - 1]) BY <2>2, <2>3
  <2>5. start[i - 1] \in Nat /\ start[i] = start[i - 1] + Len(ss[i]) /\ Len(ss[i]) \in Nat
    BY <1>1, <1>2, <2>3
  <2>6. j - start[i - 1] \in 1 .. Len(ss[i]) /\ j = start[i - 1] + (j - start[i - 1])
    <3> DEFINE a == start[i - 1]
               e == start[i]
               l == Len(ss[i])
    <3>1. a \in Nat /\ e = a + l /\ l \in Nat /\ ~(j <= a) /\ j <= e /\ j \in Nat
      BY <1>1, <2>2, <2>4, <2>5
    <3> HIDE DEF a, e, l
    <3>2. j - a \in 1 .. l /\ j = a + (j - a) BY ONLY <3>1
    <3> QED BY ONLY <3>2 DEF a, l
  <2> QED BY <2>3, <2>6
<1>5. Apart(ss, start) BY <1>3 DEF L, Apart
<1>6. Filled(ss, s, start) BY <1>4 DEF L, Filled
<1> QED BY <1>5, <1>6

-----------------------------------------------------------------------------
(* Arithmetic. *)

\* std::max of two numbers is one of them and not below the other.
LEMMA MaxOfTwo ==
    ASSUME NEW a \in Int, NEW b \in Int
    PROVE  Max({a, b}) = IF a >= b THEN a ELSE b
<1>1. \E x \in {a, b} : \A y \in {a, b} : x >= y
  BY SMT
<1>2. /\ Max({a, b}) \in {a, b}
      /\ \A y \in {a, b} : Max({a, b}) >= y
  BY <1>1, Zenon DEF Max
<1> QED
  BY <1>2, SMT

\* std::min of two numbers is one of them and not above the other.
LEMMA MinOfTwo ==
    ASSUME NEW a \in Int, NEW b \in Int
    PROVE  Min({a, b}) = IF a <= b THEN a ELSE b
<1>1. \E x \in {a, b} : \A y \in {a, b} : x <= y
  BY SMT
<1>2. /\ Min({a, b}) \in {a, b}
      /\ \A y \in {a, b} : Min({a, b}) <= y
  BY <1>1, Zenon DEF Min
<1> QED
  BY <1>2, SMT

\* Division rounds down.
LEMMA Division ==
    ASSUME NEW a \in Nat, NEW b \in Nat \ {0}
    PROVE  /\ a \div b \in Nat
           /\ (a \div b) * b <= a
           /\ a < (a \div b) * b + b
  BY SMT

\* Multiplication by a positive number keeps the order.
LEMMA Monotonic ==
    ASSUME NEW a \in Int, NEW b \in Int, NEW c \in Nat \ {0}
    PROVE  /\ a <= b => a * c <= b * c
           /\ a * c < b * c => a < b
  BY SMT

\* Dividing a multiple with a remainder.
LEMMA DivMod ==
    ASSUME NEW q \in Nat, NEW b \in Nat \ {0}, NEW r \in 0 .. b - 1
    PROVE  (q * b + r) \div b = q /\ (q * b + r) % b = r
<1> DEFINE a == q * b + r
           d == a \div b
<1>1. a \in Nat BY SMT
<1>2. d \in Nat /\ d * b <= a /\ a < d * b + b BY <1>1, Division
<1>3. a = q * b + r /\ q * b \in Nat BY SMT
<1>4. a % b = a - d * b BY <1>1, SMT
<1> HIDE DEF a, d
<1>5. d * b \in Nat /\ (d + 1) * b = d * b + b /\ (q + 1) * b = q * b + b BY <1>2, SMT
<1>6. d * b < (q + 1) * b /\ q * b < (d + 1) * b BY <1>2, <1>3, <1>5
<1>7. d < q + 1 /\ q < d + 1 BY <1>2, <1>6, Monotonic
<1>8. d = q BY <1>2, <1>7
<1> QED BY <1>3, <1>4, <1>8 DEF a, d

-----------------------------------------------------------------------------
(* Ranges. *)

\* No task of a range is empty or leaves the range, and every logical index
\* belongs to exactly one task.
Tiles(chunks, count) ==
    /\ \A c \in DOMAIN chunks :
            /\ 0 <= chunks[c].begin
            /\ chunks[c].begin < chunks[c].end
            /\ chunks[c].end <= count
    /\ \A x \in 0 .. count - 1 :
            \E c \in DOMAIN chunks :
                \A d \in DOMAIN chunks : x \in chunks[d].begin .. chunks[d].end - 1 <=> d = c

\* The loop of submitRange cuts a range without a gap or an overlap, whatever the
\* length of the tasks.
LEMMA ChunksTile ==
    ASSUME NEW count \in Nat \ {0}, NEW length \in Nat \ {0}
    PROVE  Tiles(Chunks(count, length), count)
<1> DEFINE chunks == Chunks(count, length)
           last == (count + length - 1) \div length
<1>1. /\ last \in Nat
      /\ last * length <= count + length - 1
      /\ count + length - 1 < last * length + length
  BY Division, SMT
<1>2. /\ DOMAIN chunks = 1 .. last
      /\ \A c \in 1 .. last : chunks[c] = [begin |-> (c - 1) * length,
                                           end |-> Min({count, (c - 1) * length + length})]
  BY DEF Chunks
<1> HIDE DEF chunks, last
<1>3. ASSUME NEW c \in 1 .. last
      PROVE  /\ (c - 1) * length \in Nat
             /\ (c - 1) * length < count
             /\ (c - 1) * length + length \in Nat
             /\ chunks[c].begin = (c - 1) * length
             /\ chunks[c].end = IF count <= (c - 1) * length + length
                                THEN count ELSE (c - 1) * length + length
  <2>1. (c - 1) * length \in Nat
    BY <1>1, SMT
  <2>2. c * length <= last * length
    BY <1>1, Monotonic, SMT
  <2>3. c * length = (c - 1) * length + length
    BY <1>1, SMT
  <2>4. (c - 1) * length < count
    BY <1>1, <2>1, <2>2, <2>3, SMT
  <2>5. Min({count, (c - 1) * length + length}) =
            IF count <= (c - 1) * length + length THEN count ELSE (c - 1) * length + length
    BY <2>1, MinOfTwo, SMT
  <2> QED
    BY <1>2, <2>1, <2>4, <2>5
<1>4. ASSUME NEW x \in 0 .. count - 1
      PROVE  \E c \in DOMAIN chunks : \A d \in DOMAIN chunks :
                x \in chunks[d].begin .. chunks[d].end - 1 <=> d = c
  <2> DEFINE q == x \div length
  <2>1. /\ q \in Nat
        /\ q * length <= x
        /\ x < q * length + length
    BY Division, SMT
  <2> HIDE DEF q
  <2>2. q + 1 \in 1 .. last
    <3>1. q * length \in Nat /\ last * length \in Nat
      BY <1>1, <2>1, SMT
    <3>2. q * length < last * length
      BY <1>1, <2>1, <3>1, SMT
    <3>3. q < last
      BY <1>1, <2>1, <3>2, Monotonic, SMT
    <3> QED
      BY <1>1, <2>1, <3>3, SMT
  <2>3. ASSUME NEW d \in DOMAIN chunks
        PROVE  x \in chunks[d].begin .. chunks[d].end - 1 <=> d = q + 1
    <3> d \in 1 .. last
      BY <1>2
    <3>1. d \in Nat /\ d - 1 \in Nat /\ q * length \in Nat
      BY <1>1, <2>1, SMT
    <3>2. CASE d = q + 1
      <4>1. d - 1 = q
        BY <2>1, <3>2, SMT
      <4> QED
        BY <1>3, <2>1, <3>1, <3>2, <4>1, SMT
    <3>3. CASE d <= q
      <4>1. d * length <= q * length
        BY <2>1, <3>1, <3>3, Monotonic, SMT
      <4>2. d * length = (d - 1) * length + length
        BY <3>1, SMT
      <4> QED
        BY <1>3, <2>1, <3>1, <3>3, <4>1, <4>2, SMT
    <3>4. CASE d > q + 1
      <4>1. (q + 1) * length <= (d - 1) * length
        BY <2>1, <3>1, <3>4, Monotonic, SMT
      <4>2. (q + 1) * length = q * length + length
        BY <2>1, SMT
      <4> QED
        BY <1>3, <2>1, <3>1, <3>4, <4>1, <4>2, SMT
    <3> QED
      BY <2>1, <3>1, <3>2, <3>3, <3>4, SMT
  <2>4. q + 1 \in DOMAIN chunks
    BY <1>2, <2>2
  <2> QED
    BY <2>3, <2>4
<1>5. ASSUME NEW c \in 1 .. last
      PROVE  /\ 0 <= chunks[c].begin
             /\ chunks[c].begin < chunks[c].end
             /\ chunks[c].end <= count
  <2> DEFINE first == (c - 1) * length
  <2>1. /\ first \in Nat /\ first < count
        /\ chunks[c].begin = first
        /\ chunks[c].end = IF count <= first + length THEN count ELSE first + length
    BY <1>3
  <2> HIDE DEF first
  <2> QED
    BY <2>1, SMT
<1>6. Tiles(chunks, count)
  <2>1. \A c \in DOMAIN chunks :
            /\ 0 <= chunks[c].begin
            /\ chunks[c].begin < chunks[c].end
            /\ chunks[c].end <= count
    BY <1>2, <1>5
  <2>2. \A x \in 0 .. count - 1 :
            \E c \in DOMAIN chunks :
                \A d \in DOMAIN chunks :
                    x \in chunks[d].begin .. chunks[d].end - 1 <=> d = c
    BY <1>4
  <2> QED
    BY <2>1, <2>2 DEF Tiles
<1> QED
  BY <1>6 DEF chunks

\* The task length is a positive number within the range, whatever the flop budget,
\* the tile size and the grain.
LEMMA ChunkLengthInRange ==
    ASSUME NEW env \in Environment, NEW b \in Int, NEW count \in Nat \ {0}, NEW grain \in Int
    PROVE  ChunkLength(env, b, count, grain) \in 1 .. count
<1>1. CASE grain > 0
  BY <1>1, MinOfTwo, SMT DEF ChunkLength
<1>2. CASE grain <= 0 /\ b <= 0
  BY <1>2, SMT DEF ChunkLength, RangeChunkLength
<1>3. CASE grain <= 0 /\ b > 0
  <2> DEFINE budget == Configured(env.range_flops, 200000)
             madd_flops == 2 * b * b * b
             chunk == budget \div madd_flops
  <2>1. budget \in Nat
    BY DEF Environment, Setting, Configured
  <2>2. madd_flops \in Nat \ {0}
    <3>1. b * b \in Nat \ {0}
      BY <1>3, SMT
    <3>2. b * b * b \in Nat \ {0}
      BY <1>3, <3>1, SMT
    <3> QED
      BY <1>3, <3>1, <3>2, SMT
  <2>3. chunk \in Nat
    BY <2>1, <2>2, Division
  <2>4. ChunkLength(env, b, count, grain) = Min({count, Max({1, chunk})})
    BY <1>3, SMT DEF ChunkLength, RangeChunkLength
  <2> HIDE DEF chunk
  <2>5. Max({1, chunk}) = IF 1 >= chunk THEN 1 ELSE chunk
    BY <2>3, MaxOfTwo, SMT
  <2>6. Max({1, chunk}) \in Nat \ {0}
    BY <2>3, <2>5, SMT
  <2>7. Min({count, Max({1, chunk})}) =
            IF count <= Max({1, chunk}) THEN count ELSE Max({1, chunk})
    <3> DEFINE at_least_one == Max({1, chunk})
    <3>1. at_least_one \in Int /\ count \in Int
      BY <2>6, SMT
    <3> HIDE DEF at_least_one
    <3>2. Min({count, at_least_one}) = IF count <= at_least_one THEN count ELSE at_least_one
      BY <3>1, MinOfTwo
    <3> QED
      BY <3>2 DEF at_least_one
  <2> QED
    BY <2>4, <2>6, <2>7, SMT
<1> QED
  BY <1>1, <1>2, <1>3, SMT

\* submitRange submits every logical index of a range exactly once, for every
\* environment, tile size, count and grain: the operator calls that a lowered loop
\* makes do not depend on how the runtime cuts it up.
THEOREM RangesAreTiled ==
    ASSUME NEW env \in Environment, NEW b \in Int, NEW count \in Nat, NEW grain \in Int
    PROVE  Tiles(SubmitRange(env, b, count, grain), count)
<1>1. CASE count = 0
  BY <1>1, SMT DEF Tiles, SubmitRange
<1>2. CASE count > 0
  <2>1. count \in Nat \ {0}
    BY <1>2, SMT
  <2>2. ChunkLength(env, b, count, grain) \in Nat \ {0}
    BY <2>1, ChunkLengthInRange, SMT
  <2>3. SubmitRange(env, b, count, grain) =
            Chunks(count, ChunkLength(env, b, count, grain))
    BY <1>2, SMT DEF SubmitRange
  <2> QED
    BY <2>1, <2>2, <2>3, ChunksTile
<1> QED
  BY <1>1, <1>2, SMT

-----------------------------------------------------------------------------
(* Tiles and calls. *)

\* A matrix that block_cholesky accepts.
Regular(m) ==
    /\ m.n \in Nat \ {0} /\ m.b \in Nat \ {0} /\ m.env \in Environment
    /\ m.n % m.b = 0

Index(m) == 0 .. Blocks(m) - 1

TileAt(m, row, col) == At(m.n, row * m.b, col * m.b)

LEMMA BlocksOf ==
    ASSUME NEW m, Regular(m)
    PROVE  Blocks(m) \in Nat \ {0} /\ m.n = Blocks(m) * m.b
<1> DEFINE n == m.n
           b == m.b
           d == n \div b
<1>1. n \in Nat \ {0} /\ b \in Nat \ {0} /\ n % b = 0 BY DEF Regular
<1> HIDE DEF n, b
<1>2. d \in Nat /\ n % b = n - d * b
  <2>1. d \in Nat BY <1>1, Division
  <2>2. n % b = n - d * b BY <1>1, SMT
  <2> QED BY <2>1, <2>2
<1> HIDE DEF d
<1>3. d * b \in Nat BY <1>1, <1>2, SMT
<1>4. n = d * b BY <1>1, <1>2, <1>3
<1>5. d # 0 BY <1>1, <1>2, <1>4, SMT
<1> QED BY <1>2, <1>4, <1>5 DEF n, b, d, Blocks

\* The block coordinates of a tile are recovered from its offset.
LEMMA TileCoordinates ==
    ASSUME NEW m, Regular(m), NEW r \in Index(m), NEW c \in Index(m)
    PROVE  /\ TileAt(m, r, c) \in Nat
           /\ BlockRow(m, TileAt(m, r, c)) = r
           /\ BlockCol(m, TileAt(m, r, c)) = c
<1> DEFINE n == m.n
           b == m.b
           N == Blocks(m)
           row == r * b
           col == c * b
<1>1. n \in Nat \ {0} /\ b \in Nat \ {0} /\ N \in Nat \ {0} /\ n = N * b
  BY BlocksOf DEF Regular
<1>2. r \in Nat /\ c \in Nat /\ c + 1 <= N BY <1>1 DEF Index
<1> HIDE DEF n, b, N
<1>3. row \in Nat /\ col \in Nat BY <1>1, <1>2, SMT
<1>4. (c + 1) * b <= N * b BY <1>1, <1>2, Monotonic
<1>5. (c + 1) * b = col + b BY <1>1, <1>2, SMT
<1>6. col \in 0 .. n - 1 BY <1>1, <1>3, <1>4, <1>5
<1>7. row \div b = r /\ col \div b = c
  <2>1. 0 \in 0 .. b - 1 BY <1>1
  <2>2. (r * b + 0) \div b = r /\ (c * b + 0) \div b = c BY <1>1, <1>2, <2>1, DivMod
  <2>3. row + 0 = row /\ col + 0 = col BY <1>3
  <2> QED BY <2>2, <2>3
<1> HIDE DEF row, col
<1>8. (row * n + col) \div n = row /\ (row * n + col) % n = col BY <1>1, <1>3, <1>6, DivMod
<1>9. TileAt(m, r, c) = row * n + col BY DEF TileAt, At, row, col, n, b
<1>10. row * n + col \in Nat BY <1>1, <1>3, SMT
<1> QED BY <1>7, <1>8, <1>9, <1>10 DEF BlockRow, BlockCol, n, b

\* Different tiles have different offsets.
LEMMA TileInjective ==
    ASSUME NEW m, Regular(m), NEW r1 \in Index(m), NEW c1 \in Index(m),
           NEW r2 \in Index(m), NEW c2 \in Index(m), TileAt(m, r1, c1) = TileAt(m, r2, c2)
    PROVE  r1 = r2 /\ c1 = c2
BY TileCoordinates

\* The key of a tile is its linear block index: different tiles have different keys.
LEMMA KeyOfTile ==
    ASSUME NEW m, Regular(m), NEW r \in Index(m), NEW c \in Index(m)
    PROVE  /\ BlockKey(m, TileAt(m, r, c)) = r * Blocks(m) + c
           /\ BlockKey(m, TileAt(m, r, c)) \in 0 .. Blocks(m) * Blocks(m) - 1
<1> DEFINE N == Blocks(m)
<1>1. N \in Nat \ {0} BY BlocksOf
<1>2. r \in 0 .. N - 1 /\ c \in 0 .. N - 1 BY DEF Index
<1>3. BlockKey(m, TileAt(m, r, c)) = r * N + c BY TileCoordinates DEF BlockKey, Blocks
<1> HIDE DEF N
<1>4. r * N \in Nat /\ (r + 1) * N = r * N + N /\ N * N \in Nat BY <1>1, <1>2, SMT
<1>5. (r + 1) * N <= N * N BY <1>1, <1>2, Monotonic
<1>6. r * N + c \in 0 .. N * N - 1 BY <1>1, <1>2, <1>4, <1>5
<1> QED BY <1>3, <1>6 DEF N

LEMMA KeyInjective ==
    ASSUME NEW m, Regular(m), NEW r1 \in Index(m), NEW c1 \in Index(m),
           NEW r2 \in Index(m), NEW c2 \in Index(m),
           BlockKey(m, TileAt(m, r1, c1)) = BlockKey(m, TileAt(m, r2, c2))
    PROVE  r1 = r2 /\ c1 = c2
<1> DEFINE N == Blocks(m)
<1>1. N \in Nat \ {0} BY BlocksOf
<1>2. r1 \in Nat /\ r2 \in Nat /\ c1 \in 0 .. N - 1 /\ c2 \in 0 .. N - 1 BY DEF Index
<1>3. r1 * N + c1 = r2 * N + c2 BY KeyOfTile
<1> HIDE DEF N
<1>4. /\ (r1 * N + c1) \div N = r1 /\ (r1 * N + c1) % N = c1
      /\ (r2 * N + c2) \div N = r2 /\ (r2 * N + c2) % N = c2
  BY <1>1, <1>2, DivMod
<1> QED BY <1>3, <1>4

LEMMA PlaceTypes ==
    ASSUME NEW m, NEW t \in Place(m)
    PROVE  /\ t.panel \in Index(m) /\ t.col \in Index(m) /\ t.row \in Index(m)
           /\ t.panel \in Nat /\ t.col \in Nat /\ t.row \in Nat
           /\ t.panel <= t.col /\ t.col <= t.row
           /\ t = [panel |-> t.panel, col |-> t.col, row |-> t.row]
BY DEF Place, Index

LEMMA PlaceIs ==
    ASSUME NEW m, NEW p \in Index(m), NEW c \in Index(m), NEW r \in Index(m), p <= c, c <= r
    PROVE  [panel |-> p, col |-> c, row |-> r] \in Place(m)
BY DEF Place, Index

\* What a call reads and writes.
LEMMA CallOperands ==
    ASSUME NEW m, NEW t \in Place(m)
    PROVE  /\ Output(CallAt(m, t)) = TileAt(m, t.row, t.col)
           /\ Operands(CallAt(m, t)) =
                {TileAt(m, t.row, t.col), TileAt(m, t.row, t.panel), TileAt(m, t.col, t.panel)}
<1>1. t.panel \in Nat /\ t.col \in Nat /\ t.row \in Nat /\ t.panel <= t.col /\ t.col <= t.row
  BY PlaceTypes
<1>2. CASE t.panel = t.row
  <2>1. CallAt(m, t) = [op |-> "cholesky",
                        args |-> <<TileAt(m, t.panel, t.panel), TileAt(m, t.panel, t.panel)>>]
    BY <1>2 DEF CallAt, CholeskyCall, TileAt
  <2>2. t.col = t.panel /\ t.row = t.panel BY <1>1, <1>2
  <2> QED BY <2>1, <2>2 DEF Output, Operands, Last
<1>3. CASE t.panel # t.row /\ t.panel = t.col
  <2>1. CallAt(m, t) = [op |-> "trsm",
            args |-> <<TileAt(m, t.row, t.panel), TileAt(m, t.panel, t.panel),
                       TileAt(m, t.row, t.panel)>>]
    BY <1>3 DEF CallAt, TrsmCall, TileAt
  <2> QED BY <1>3, <2>1 DEF Output, Operands, Last
<1>4. CASE t.panel # t.row /\ t.panel # t.col
  <2>1. CallAt(m, t) = [op |-> "madd",
            args |-> <<TileAt(m, t.row, t.panel), TileAt(m, t.col, t.panel),
                       TileAt(m, t.row, t.col)>>]
    BY <1>4 DEF CallAt, MaddCall, TileAt
  <2> QED BY <2>1 DEF Output, Operands, Last
<1> QED BY <1>2, <1>3, <1>4

\* Different places have different calls.
LEMMA CallInjective ==
    ASSUME NEW m, Regular(m), NEW t1 \in Place(m), NEW t2 \in Place(m),
           CallAt(m, t1) = CallAt(m, t2)
    PROVE  t1 = t2
<1>1. t1.row = t2.row /\ t1.col = t2.col
  <2>1. TileAt(m, t1.row, t1.col) = TileAt(m, t2.row, t2.col) BY CallOperands
  <2> QED BY <2>1, PlaceTypes, TileInjective
<1>2. t1.panel = t2.panel
  <2> DEFINE second(t) == IF t.panel = t.row THEN TileAt(m, t.panel, t.panel)
                          ELSE IF t.panel = t.col THEN TileAt(m, t.panel, t.panel)
                          ELSE TileAt(m, t.col, t.panel)
             op(t) == IF t.panel = t.row THEN "cholesky"
                      ELSE IF t.panel = t.col THEN "trsm" ELSE "madd"
  <2>1. ASSUME NEW t \in Place(m)
        PROVE  CallAt(m, t).op = op(t) /\ CallAt(m, t).args[2] = second(t)
    BY DEF CallAt, CholeskyCall, TrsmCall, MaddCall, TileAt
  <2>2. op(t1) = op(t2) /\ second(t1) = second(t2)
    <3> HIDE DEF op, second
    <3> QED BY <2>1
  <2>3. CASE t1.panel = t1.row
    BY <1>1, <2>2, <2>3, PlaceTypes, TileInjective
  <2>4. CASE t1.panel # t1.row /\ t1.panel = t1.col
    BY <1>1, <2>2, <2>4, PlaceTypes, TileInjective
  <2>5. CASE t1.panel # t1.row /\ t1.panel # t1.col
    <3>1. TileAt(m, t1.col, t1.panel) = TileAt(m, t2.col, t2.panel)
      BY <2>2, <2>5
    <3> QED BY <3>1, PlaceTypes, TileInjective
  <2> QED BY <2>3, <2>4, <2>5
<1> QED BY <1>1, <1>2, PlaceTypes

-----------------------------------------------------------------------------
(* Lists of calls. *)

\* s has each of these calls once, and no others.
Lists(s, calls) ==
    /\ s \in Seq(calls)
    /\ \A c \in calls : \E k \in DOMAIN s : s[k] = c
    /\ \A k1, k2 \in DOMAIN s : s[k1] = s[k2] => k1 = k2

LEMMA ListsConcat ==
    ASSUME NEW s, NEW t, NEW C, NEW D, Lists(s, C), Lists(t, D), C \cap D = {}
    PROVE  Lists(s \o t, C \cup D)
<1> DEFINE U == C \cup D
<1>1. s \in Seq(C) /\ t \in Seq(D) BY DEF Lists
<1>2. s \in Seq(U) /\ t \in Seq(U) BY <1>1, SeqMonotonic
<1>3. /\ Len(s) \in Nat /\ DOMAIN s = 1 .. Len(s) /\ \A k \in 1 .. Len(s) : s[k] \in C
      /\ Len(t) \in Nat /\ DOMAIN t = 1 .. Len(t) /\ \A k \in 1 .. Len(t) : t[k] \in D
  BY <1>1, LenProperties, ElementOfSeq
<1>4. /\ s \o t \in Seq(U)
      /\ Len(s \o t) = Len(s) + Len(t) /\ DOMAIN (s \o t) = 1 .. Len(s) + Len(t)
      /\ \A i \in 1 .. Len(s) + Len(t) :
            (s \o t)[i] = IF i <= Len(s) THEN s[i] ELSE t[i - Len(s)]
  BY <1>2, ConcatProperties, LenProperties
<1>5. ASSUME NEW c \in U PROVE \E k \in DOMAIN (s \o t) : (s \o t)[k] = c
  <2>1. CASE c \in C
    <3>1. PICK k \in 1 .. Len(s) : s[k] = c BY <1>3, <2>1 DEF Lists
    <3>2. k \in 1 .. Len(s) + Len(t) /\ k <= Len(s) BY <1>3
    <3> QED BY <1>4, <3>1, <3>2
  <2>2. CASE c \in D
    <3>1. PICK k \in 1 .. Len(t) : t[k] = c BY <1>3, <2>2 DEF Lists
    <3>2. Len(s) + k \in 1 .. Len(s) + Len(t) /\ ~(Len(s) + k <= Len(s))
          /\ (Len(s) + k) - Len(s) = k
      BY <1>3
    <3> QED BY <1>4, <3>1, <3>2
  <2> QED BY <2>1, <2>2
<1>6. ASSUME NEW k1 \in DOMAIN (s \o t), NEW k2 \in DOMAIN (s \o t),
             (s \o t)[k1] = (s \o t)[k2]
      PROVE  k1 = k2
  <2>1. k1 \in 1 .. Len(s) + Len(t) /\ k2 \in 1 .. Len(s) + Len(t) BY <1>4
  <2>2. CASE k1 <= Len(s) /\ k2 <= Len(s)
    <3>1. k1 \in DOMAIN s /\ k2 \in DOMAIN s /\ s[k1] = s[k2] BY <1>3, <1>4, <1>6, <2>1, <2>2
    <3> QED BY <3>1 DEF Lists
  <2>3. CASE ~(k1 <= Len(s)) /\ ~(k2 <= Len(s))
    <3>1. k1 - Len(s) \in DOMAIN t /\ k2 - Len(s) \in DOMAIN t BY <1>3, <2>1, <2>3
    <3>2. t[k1 - Len(s)] = t[k2 - Len(s)] BY <1>4, <1>6, <2>1, <2>3
    <3>3. k1 - Len(s) = k2 - Len(s) BY <3>1, <3>2 DEF Lists
    <3> QED BY <1>3, <2>1, <3>3
  <2>4. CASE k1 <= Len(s) /\ ~(k2 <= Len(s))
    <3>1. k1 \in 1 .. Len(s) /\ k2 - Len(s) \in 1 .. Len(t) BY <1>3, <2>1, <2>4
    <3>2. s[k1] = t[k2 - Len(s)] BY <1>4, <1>6, <2>1, <2>4
    <3> QED BY <1>3, <3>1, <3>2
  <2>5. CASE ~(k1 <= Len(s)) /\ k2 <= Len(s)
    <3>1. k2 \in 1 .. Len(s) /\ k1 - Len(s) \in 1 .. Len(t) BY <1>3, <2>1, <2>5
    <3>2. s[k2] = t[k1 - Len(s)] BY <1>4, <1>6, <2>1, <2>5
    <3> QED BY <1>3, <3>1, <3>2
  <2> QED BY <2>2, <2>3, <2>4, <2>5
<1> QED BY <1>4, <1>5, <1>6 DEF Lists

LEMMA ListsFlatten ==
    ASSUME NEW n \in Nat, NEW ss, ss = [i \in 1 .. n |-> ss[i]], NEW C,
           \A i \in 1 .. n : Lists(ss[i], C[i]),
           \A i1, i2 \in 1 .. n : i1 # i2 => C[i1] \cap C[i2] = {}
    PROVE  Lists(FlattenSeq(ss), UNION {C[i] : i \in 1 .. n})
<1> DEFINE U == UNION {C[i] : i \in 1 .. n}
           s == FlattenSeq(ss)
<1>1. ASSUME NEW i \in 1 .. n
      PROVE  /\ ss[i] \in Seq(U) /\ Len(ss[i]) \in Nat /\ DOMAIN ss[i] = 1 .. Len(ss[i])
             /\ \A k \in 1 .. Len(ss[i]) : ss[i][k] \in C[i]
  <2>1. ss[i] \in Seq(C[i]) BY DEF Lists
  <2>2. C[i] \subseteq U OBVIOUS
  <2>3. ss[i] \in Seq(U) BY <2>1, <2>2, SeqMonotonic, Zenon
  <2> QED BY <2>1, <2>3, LenProperties, ElementOfSeq
<1> HIDE DEF U
<1>2. ss \in Seq(Seq(U)) /\ Len(ss) = n
  <2>1. [i \in 1 .. n |-> ss[i]] \in [1 .. n -> Seq(U)] BY <1>1
  <2>2. ss \in [1 .. n -> Seq(U)] BY <2>1, Zenon
  <2> QED BY <2>2, SeqDef
<1>3. s \in Seq(U) BY <1>2, FlattenSeqIsFlat
<1>4. PICK start : Flat(ss, s, start, n) BY <1>2, FlattenSeqIsFlat
<1> HIDE DEF s
<1>5. /\ \A i1 \in 1 .. n : \A i2 \in i1 + 1 .. n : start[i1] <= start[i2 - 1]
      /\ \A j \in 1 .. Len(s) : \E i \in 1 .. n : \E k \in 1 .. Len(ss[i]) :
            j = start[i - 1] + k
  <2>1. Flat(ss, s, start, Len(ss)) BY <1>2, <1>3, <1>4
  <2>2. Apart(ss, start) /\ Filled(ss, s, start) BY <1>2, <1>3, <1>4, <2>1, FlatPlaces
  <2> QED BY <1>2, <2>2 DEF Apart, Filled
<1>6. DOMAIN s = 1 .. Len(s) BY <1>3, LenProperties
<1>7. ASSUME NEW c \in U PROVE \E k \in DOMAIN s : s[k] = c
  <2>1. PICK i \in 1 .. n : c \in C[i] BY DEF U
  <2>2. PICK k \in 1 .. Len(ss[i]) : ss[i][k] = c
    <3>1. \E k \in DOMAIN ss[i] : ss[i][k] = c BY <2>1, Zenon DEF Lists
    <3> QED BY <1>1, <3>1, Zenon
  <2>3. start[i - 1] + k \in 1 .. Len(s) /\ s[start[i - 1] + k] = c
    BY <1>4, <2>2 DEF Flat
  <2> QED BY <1>6, <2>3
<1>8. ASSUME NEW k1 \in DOMAIN s, NEW k2 \in DOMAIN s, s[k1] = s[k2]
      PROVE  k1 = k2
  <2>1. PICK i1 \in 1 .. n : \E h \in 1 .. Len(ss[i1]) : k1 = start[i1 - 1] + h BY <1>5, <1>6
  <2>2. PICK h1 \in 1 .. Len(ss[i1]) : k1 = start[i1 - 1] + h1 BY <2>1
  <2>3. PICK i2 \in 1 .. n : \E h \in 1 .. Len(ss[i2]) : k2 = start[i2 - 1] + h BY <1>5, <1>6
  <2>4. PICK h2 \in 1 .. Len(ss[i2]) : k2 = start[i2 - 1] + h2 BY <2>3
  <2>5. ss[i1][h1] = ss[i2][h2] BY <1>4, <1>8, <2>2, <2>4 DEF Flat
  <2>6. i1 = i2 BY <1>1, <2>5
  <2>7. h1 = h2 BY <1>1, <2>5, <2>6 DEF Lists
  <2> QED BY <2>2, <2>4, <2>6, <2>7
<1>9. Lists(s, U) BY <1>3, <1>7, <1>8 DEF Lists
<1> QED BY <1>9 DEF s, U

\* A sequence that goes through places one by one lists their calls.
LEMMA ListsPlaces ==
    ASSUME NEW m, Regular(m), NEW n \in Nat, NEW T, T \subseteq Place(m),
           NEW f \in [1 .. n -> T],
           \A t \in T : \E k \in 1 .. n : f[k] = t,
           \A k1, k2 \in 1 .. n : f[k1] = f[k2] => k1 = k2
    PROVE  Lists([k \in 1 .. n |-> CallAt(m, f[k])], CallsAt(m, T))
<1> DEFINE s == [k \in 1 .. n |-> CallAt(m, f[k])]
<1>1. \A k \in 1 .. n : CallAt(m, f[k]) \in CallsAt(m, T) BY DEF CallsAt
<1>2. s \in [1 .. n -> CallsAt(m, T)] BY <1>1
<1>3. s \in Seq(CallsAt(m, T)) /\ DOMAIN s = 1 .. n BY <1>2, SeqDef
<1>4. ASSUME NEW c \in CallsAt(m, T) PROVE \E k \in DOMAIN s : s[k] = c
  <2>1. PICK t \in T : c = CallAt(m, t) BY DEF CallsAt
  <2> QED BY <2>1
<1>5. ASSUME NEW k1 \in 1 .. n, NEW k2 \in 1 .. n, s[k1] = s[k2] PROVE k1 = k2
  <2>1. f[k1] \in Place(m) /\ f[k2] \in Place(m) /\ CallAt(m, f[k1]) = CallAt(m, f[k2])
    BY <1>5
  <2>2. f[k1] = f[k2] BY <2>1, CallInjective
  <2> QED BY <2>2
<1> HIDE DEF s
<1>6. Lists(s, CallsAt(m, T)) BY <1>3, <1>4, <1>5 DEF Lists
<1> QED BY <1>6 DEF s

-----------------------------------------------------------------------------
(* The loops of block_cholesky. *)

TrsmPlaces(m, p) == {t \in Place(m) : t.panel = p /\ t.col = p /\ t.row # p}
ColumnPlaces(m, p, c) == {t \in Place(m) : t.panel = p /\ t.col = c}
MaddPlaces(m, p) == {t \in Place(m) : t.panel = p /\ t.col # p}
PanelPlaces(m, p) == {t \in Place(m) : t.panel = p}
Diagonal(p) == [panel |-> p, col |-> p, row |-> p]

\* A loop over tiles visits each of them.
LEMMA StepsAre ==
    ASSUME NEW f \in Nat, NEW l \in Nat, f <= l, NEW b \in Nat \ {0}
    PROVE  Steps(f * b, l * b, b) = [s \in 1 .. l - f |-> (f + s - 1) * b]
<1> DEFINE d == l - f
           first == f * b
           limit == l * b
<1>1. d \in Nat BY SMT
<1>2. first \in Nat /\ limit \in Nat /\ limit - first = d * b
  <2>1. first \in Nat /\ limit \in Nat BY SMT
  <2>2. l = f + d BY SMT
  <2>3. (f + d) * b = f * b + d * b BY <1>1, SMT
  <2>4. limit = first + d * b BY <2>2, <2>3
  <2>5. d * b \in Nat BY <1>1, SMT
  <2> HIDE DEF d, first, limit
  <2> QED BY <2>1, <2>4, <2>5, SMT
<1>3. (limit - first + b - 1) \div b = d
  <2>1. b - 1 \in 0 .. b - 1 BY SMT
  <2>2. (d * b + (b - 1)) \div b = d BY <1>1, <2>1, DivMod
  <2>3. d * b \in Nat BY <1>1, SMT
  <2>4. limit - first + b - 1 = d * b + (b - 1)
    <3> HIDE DEF d, first, limit
    <3> QED BY <1>2, <2>3, SMT
  <2> QED BY <2>2, <2>4
<1>4. ASSUME NEW s \in 1 .. d PROVE first + (s - 1) * b = (f + s - 1) * b
  <2>1. s - 1 \in Nat /\ f + s - 1 = f + (s - 1) BY <1>1
  <2>2. (f + (s - 1)) * b = f * b + (s - 1) * b BY <2>1, SMT
  <2> QED BY <2>1, <2>2
<1>5. Steps(first, limit, b) = [s \in 1 .. d |-> first + (s - 1) * b]
  BY <1>3 DEF Steps
<1>6. [s \in 1 .. d |-> first + (s - 1) * b] = [s \in 1 .. d |-> (f + s - 1) * b]
  BY <1>4
<1> QED BY <1>5, <1>6

LEMMA NextStep ==
    ASSUME NEW p \in Nat, NEW b \in Nat \ {0}
    PROVE  p * b + b = (p + 1) * b
BY SMT

\* The tiles below the tile f of a column.
LEMMA StepsBelow ==
    ASSUME NEW m, Regular(m), NEW f \in Nat, f <= Blocks(m)
    PROVE  Steps(f * m.b, m.n, m.b) = [s \in 1 .. Blocks(m) - f |-> (f + s - 1) * m.b]
<1>1. Blocks(m) \in Nat \ {0} /\ m.n = Blocks(m) * m.b /\ m.b \in Nat \ {0}
  BY BlocksOf DEF Regular
<1>2. Steps(f * m.b, Blocks(m) * m.b, m.b) = [s \in 1 .. Blocks(m) - f |-> (f + s - 1) * m.b]
  BY <1>1, StepsAre
<1> QED BY <1>1, <1>2

LEMMA StepsBehind ==
    ASSUME NEW m, Regular(m), NEW p \in Index(m)
    PROVE  Steps(p * m.b + m.b, m.n, m.b) = [s \in 1 .. Blocks(m) - p - 1 |-> (p + s) * m.b]
<1>1. Blocks(m) \in Nat \ {0} /\ m.b \in Nat \ {0} BY BlocksOf DEF Regular
<1>2. p \in Nat /\ p + 1 \in Nat /\ p + 1 <= Blocks(m) BY <1>1 DEF Index
<1>3. p * m.b + m.b = (p + 1) * m.b BY <1>1, <1>2, NextStep
<1>4. Steps((p + 1) * m.b, m.n, m.b)
        = [s \in 1 .. Blocks(m) - (p + 1) |-> ((p + 1) + s - 1) * m.b]
  BY <1>2, StepsBelow
<1>5. 1 .. Blocks(m) - (p + 1) = 1 .. Blocks(m) - p - 1 BY <1>1, <1>2
<1>6. \A s \in 1 .. Blocks(m) - p - 1 : (p + 1) + s - 1 = p + s BY <1>1, <1>2
<1> QED BY <1>3, <1>4, <1>5, <1>6

LEMMA TrsmCallsAre ==
    ASSUME NEW m, Regular(m), NEW p \in Index(m)
    PROVE  TrsmCalls(m.n, m.b, p * m.b)
             = [k \in 1 .. Blocks(m) - p - 1 |->
                    CallAt(m, [panel |-> p, col |-> p, row |-> p + k])]
<1>1. Blocks(m) \in Nat \ {0} /\ p \in Nat BY BlocksOf DEF Index
<1> DEFINE rows == Steps(p * m.b + m.b, m.n, m.b)
<1>2. rows = [s \in 1 .. Blocks(m) - p - 1 |-> (p + s) * m.b] BY StepsBehind
<1>3. TrsmCalls(m.n, m.b, p * m.b) = [r \in DOMAIN rows |-> TrsmCall(m.n, p * m.b, rows[r])]
  BY DEF TrsmCalls
<1> HIDE DEF rows
<1>4. ASSUME NEW k \in 1 .. Blocks(m) - p - 1
      PROVE  TrsmCall(m.n, p * m.b, rows[k]) = CallAt(m, [panel |-> p, col |-> p, row |-> p + k])
  <2>1. p # p + k BY <1>1
  <2>2. rows[k] = (p + k) * m.b BY <1>2
  <2> QED BY <2>1, <2>2 DEF CallAt
<1> QED BY <1>2, <1>3, <1>4

\* The first inner loop makes the trsm calls of the panel.
LEMMA TrsmCallsList ==
    ASSUME NEW m, Regular(m), NEW p \in Index(m)
    PROVE  Lists(TrsmCalls(m.n, m.b, p * m.b), CallsAt(m, TrsmPlaces(m, p)))
<1> DEFINE N == Blocks(m)
           n == N - p - 1
           f == [k \in 1 .. n |-> [panel |-> p, col |-> p, row |-> p + k]]
           T == TrsmPlaces(m, p)
<1>1. N \in Nat \ {0} /\ p \in 0 .. N - 1 BY BlocksOf DEF Index
<1>2. n \in Nat BY <1>1
<1>3. ASSUME NEW k \in 1 .. n PROVE f[k] \in T
  <2>1. p + k \in Index(m) /\ p + k # p /\ p <= p + k /\ p <= p BY <1>1 DEF Index
  <2>2. [panel |-> p, col |-> p, row |-> p + k] \in Place(m) BY <2>1, PlaceIs
  <2> QED BY <2>1, <2>2 DEF TrsmPlaces
<1>4. ASSUME NEW t \in T PROVE \E k \in 1 .. n : f[k] = t
  <2>1. t \in Place(m) /\ t.panel = p /\ t.col = p /\ t.row # p BY DEF TrsmPlaces
  <2>2. t.row \in 0 .. N - 1 /\ p <= t.row BY <2>1, PlaceTypes DEF Index
  <2>3. t.row - p \in 1 .. n /\ p + (t.row - p) = t.row BY <1>1, <2>1, <2>2
  <2>4. t = [panel |-> p, col |-> p, row |-> t.row] BY <2>1, PlaceTypes
  <2> QED BY <2>3, <2>4
<1>5. \A k1, k2 \in 1 .. n : f[k1] = f[k2] => k1 = k2
  <2> SUFFICES ASSUME NEW k1 \in 1 .. n, NEW k2 \in 1 .. n, f[k1] = f[k2] PROVE k1 = k2
    OBVIOUS
  <2>1. p + k1 = p + k2 BY DEF f
  <2> QED BY <1>1, <2>1
<1>6. f \in [1 .. n -> T] BY <1>3
<1>7. T \subseteq Place(m) BY DEF TrsmPlaces
<1>8. TrsmCalls(m.n, m.b, p * m.b) = [k \in 1 .. n |-> CallAt(m, f[k])]
  BY TrsmCallsAre
<1> HIDE DEF f, n, T
<1>9. Lists([k \in 1 .. n |-> CallAt(m, f[k])], CallsAt(m, T))
  BY <1>2, <1>4, <1>5, <1>6, <1>7, ListsPlaces
<1> QED BY <1>8, <1>9 DEF T

\* The second inner loop nest: a column, and all columns.
LEMMA MaddCallsOfRowAre ==
    ASSUME NEW m, Regular(m), NEW p \in Index(m), NEW c \in Index(m), p < c
    PROVE  MaddCallsOfRow(m.n, m.b, p * m.b, c * m.b)
             = [k \in 1 .. Blocks(m) - c |->
                    CallAt(m, [panel |-> p, col |-> c, row |-> c + k - 1])]
<1>1. Blocks(m) \in Nat \ {0} /\ p \in Nat /\ c \in Nat /\ c <= Blocks(m)
  BY BlocksOf DEF Index
<1> DEFINE rows == Steps(c * m.b, m.n, m.b)
<1>2. rows = [s \in 1 .. Blocks(m) - c |-> (c + s - 1) * m.b] BY <1>1, StepsBelow
<1>3. MaddCallsOfRow(m.n, m.b, p * m.b, c * m.b)
        = [r \in DOMAIN rows |-> MaddCall(m.n, p * m.b, c * m.b, rows[r])]
  BY DEF MaddCallsOfRow
<1> HIDE DEF rows
<1>4. ASSUME NEW k \in 1 .. Blocks(m) - c
      PROVE  MaddCall(m.n, p * m.b, c * m.b, rows[k])
                = CallAt(m, [panel |-> p, col |-> c, row |-> c + k - 1])
  <2>1. p # c + k - 1 /\ p # c BY <1>1
  <2>2. rows[k] = (c + k - 1) * m.b BY <1>2
  <2> QED BY <2>1, <2>2 DEF CallAt
<1> QED BY <1>2, <1>3, <1>4

LEMMA MaddCallsOfRowList ==
    ASSUME NEW m, Regular(m), NEW p \in Index(m), NEW c \in Index(m), p < c
    PROVE  Lists(MaddCallsOfRow(m.n, m.b, p * m.b, c * m.b), CallsAt(m, ColumnPlaces(m, p, c)))
<1> DEFINE N == Blocks(m)
           n == N - c
           f == [k \in 1 .. n |-> [panel |-> p, col |-> c, row |-> c + k - 1]]
           T == ColumnPlaces(m, p, c)
<1>1. N \in Nat \ {0} /\ p \in 0 .. N - 1 /\ c \in 0 .. N - 1 BY BlocksOf DEF Index
<1>2. n \in Nat BY <1>1
<1>3. ASSUME NEW k \in 1 .. n PROVE f[k] \in T
  <2>1. c + k - 1 \in Index(m) /\ c <= c + k - 1 /\ p <= c BY <1>1 DEF Index
  <2>2. [panel |-> p, col |-> c, row |-> c + k - 1] \in Place(m) BY <2>1, PlaceIs
  <2> QED BY <2>2 DEF ColumnPlaces
<1>4. ASSUME NEW t \in T PROVE \E k \in 1 .. n : f[k] = t
  <2>1. t \in Place(m) /\ t.panel = p /\ t.col = c BY DEF ColumnPlaces
  <2>2. t.row \in 0 .. N - 1 /\ c <= t.row BY <2>1, PlaceTypes DEF Index
  <2>3. t.row - c + 1 \in 1 .. n /\ c + (t.row - c + 1) - 1 = t.row BY <1>1, <2>1, <2>2
  <2>4. t = [panel |-> p, col |-> c, row |-> t.row] BY <2>1, PlaceTypes
  <2> QED BY <2>3, <2>4
<1>5. \A k1, k2 \in 1 .. n : f[k1] = f[k2] => k1 = k2
  <2> SUFFICES ASSUME NEW k1 \in 1 .. n, NEW k2 \in 1 .. n, f[k1] = f[k2] PROVE k1 = k2
    OBVIOUS
  <2>1. c + k1 - 1 = c + k2 - 1 BY DEF f
  <2> QED BY <1>1, <2>1
<1>6. f \in [1 .. n -> T] BY <1>3
<1>7. T \subseteq Place(m) BY DEF ColumnPlaces
<1>8. MaddCallsOfRow(m.n, m.b, p * m.b, c * m.b) = [k \in 1 .. n |-> CallAt(m, f[k])]
  BY MaddCallsOfRowAre
<1> HIDE DEF f, n, T
<1>9. Lists([k \in 1 .. n |-> CallAt(m, f[k])], CallsAt(m, T))
  BY <1>2, <1>4, <1>5, <1>6, <1>7, ListsPlaces
<1> QED BY <1>8, <1>9 DEF T

\* Different places, different calls: sets of places and of calls are alike.
LEMMA CallsDisjoint ==
    ASSUME NEW m, Regular(m), NEW S, NEW T, S \subseteq Place(m), T \subseteq Place(m),
           S \cap T = {}
    PROVE  CallsAt(m, S) \cap CallsAt(m, T) = {}
<1>1. ASSUME NEW c \in CallsAt(m, S), c \in CallsAt(m, T) PROVE FALSE
  <2>1. PICK s \in S : c = CallAt(m, s) BY DEF CallsAt
  <2>2. PICK t \in T : c = CallAt(m, t) BY <1>1 DEF CallsAt
  <2>3. s = t BY <2>1, <2>2, CallInjective
  <2> QED BY <2>3
<1> QED BY <1>1

LEMMA MaddCallsList ==
    ASSUME NEW m, Regular(m), NEW p \in Index(m)
    PROVE  Lists(MaddCalls(m.n, m.b, p * m.b), CallsAt(m, MaddPlaces(m, p)))
<1> DEFINE N == Blocks(m)
           n == N - p - 1
           cols == Steps(p * m.b + m.b, m.n, m.b)
           ss == [k \in 1 .. n |-> MaddCallsOfRow(m.n, m.b, p * m.b, (p + k) * m.b)]
           C == [k \in 1 .. n |-> CallsAt(m, ColumnPlaces(m, p, p + k))]
<1>1. N \in Nat \ {0} /\ p \in 0 .. N - 1 BY BlocksOf DEF Index
<1>2. n \in Nat /\ \A k \in 1 .. n : p + k \in Index(m) /\ p < p + k BY <1>1 DEF Index
<1>3. cols = [k \in 1 .. n |-> (p + k) * m.b] BY StepsBehind
<1>4. MaddCalls(m.n, m.b, p * m.b)
        = FlattenSeq([c \in DOMAIN cols |-> MaddCallsOfRow(m.n, m.b, p * m.b, cols[c])])
  BY DEF MaddCalls
<1> HIDE DEF cols
<1>5. [c \in DOMAIN cols |-> MaddCallsOfRow(m.n, m.b, p * m.b, cols[c])] = ss BY <1>3
<1>6. \A i \in 1 .. n : Lists(ss[i], C[i]) BY <1>2, MaddCallsOfRowList
<1>7. ASSUME NEW i1 \in 1 .. n, NEW i2 \in 1 .. n, i1 # i2 PROVE C[i1] \cap C[i2] = {}
  <2>1. p + i1 # p + i2 BY <1>1, <1>7
  <2>2. ColumnPlaces(m, p, p + i1) \cap ColumnPlaces(m, p, p + i2) = {}
    BY <2>1 DEF ColumnPlaces
  <2>3. ColumnPlaces(m, p, p + i1) \subseteq Place(m) /\ ColumnPlaces(m, p, p + i2) \subseteq Place(m)
    BY DEF ColumnPlaces
  <2> QED BY <2>2, <2>3, CallsDisjoint
<1>8. UNION {C[i] : i \in 1 .. n} = CallsAt(m, MaddPlaces(m, p))
  <2>1. ASSUME NEW c \in CallsAt(m, MaddPlaces(m, p)) PROVE \E i \in 1 .. n : c \in C[i]
    <3>1. PICK t \in MaddPlaces(m, p) : c = CallAt(m, t) BY DEF CallsAt
    <3>2. t \in Place(m) /\ t.panel = p /\ t.col # p BY DEF MaddPlaces
    <3>3. t.col \in 0 .. N - 1 /\ p <= t.col BY <3>2, PlaceTypes DEF Index
    <3>4. t.col - p \in 1 .. n /\ p + (t.col - p) = t.col BY <1>1, <3>2, <3>3
    <3>5. t \in ColumnPlaces(m, p, p + (t.col - p)) BY <3>2, <3>4 DEF ColumnPlaces
    <3> QED BY <3>1, <3>4, <3>5 DEF CallsAt
  <2>2. ASSUME NEW i \in 1 .. n PROVE C[i] \subseteq CallsAt(m, MaddPlaces(m, p))
    <3>1. p + i # p BY <1>1, <1>2
    <3>2. ColumnPlaces(m, p, p + i) \subseteq MaddPlaces(m, p)
      BY <3>1 DEF ColumnPlaces, MaddPlaces
    <3> QED BY <3>2 DEF CallsAt
  <2> HIDE DEF C
  <2> QED BY <2>1, <2>2
<1>9. ss = [i \in 1 .. n |-> ss[i]] OBVIOUS
<1> HIDE DEF ss, C, n
<1>10. Lists(FlattenSeq(ss), UNION {C[i] : i \in 1 .. n})
  BY <1>2, <1>6, <1>7, <1>9, ListsFlatten
<1> QED BY <1>4, <1>5, <1>8, <1>10

-----------------------------------------------------------------------------
(* Lists in the order of their ranks. *)

Sorted(m, s) ==
    \A k1, k2 \in DOMAIN s : \A t1, t2 \in Place(m) :
        k1 < k2 /\ s[k1] = CallAt(m, t1) /\ s[k2] = CallAt(m, t2) => Rank(t1) <= Rank(t2)

InOrder(m, s, T) ==
    /\ T \subseteq Place(m)
    /\ Lists(s, CallsAt(m, T))
    /\ Sorted(m, s)

RanksBelow(S, T) == \A s \in S : \A t \in T : Rank(s) < Rank(t)

LEMMA RankType ==
    ASSUME NEW m, NEW t \in Place(m)
    PROVE  Rank(t) \in Nat
BY PlaceTypes DEF Rank

LEMMA RankBounds ==
    ASSUME NEW m, NEW t \in Place(m)
    PROVE  /\ Rank(t) \in Nat /\ t.panel \in Nat
           /\ 3 * t.panel <= Rank(t) /\ Rank(t) < 3 * (t.panel + 1)
<1>1. t.panel \in Nat BY PlaceTypes
<1>2. Rank(t) \in {3 * t.panel, 3 * t.panel + 1, 3 * t.panel + 2} BY <1>1 DEF Rank
<1> QED BY <1>1, <1>2

LEMMA PlaceOfCall ==
    ASSUME NEW m, Regular(m), NEW T, T \subseteq Place(m), NEW t \in Place(m),
           CallAt(m, t) \in CallsAt(m, T)
    PROVE  t \in T
<1>1. PICK s \in T : CallAt(m, t) = CallAt(m, s) BY DEF CallsAt
<1> QED BY <1>1, CallInjective

LEMMA BelowMeansDisjoint ==
    ASSUME NEW m, NEW S, NEW T, S \subseteq Place(m), T \subseteq Place(m), RanksBelow(S, T)
    PROVE  S \cap T = {}
BY RankType DEF RanksBelow

LEMMA ListFacts ==
    ASSUME NEW s, NEW C, Lists(s, C)
    PROVE  /\ Len(s) \in Nat /\ DOMAIN s = 1 .. Len(s)
           /\ \A k \in 1 .. Len(s) : s[k] \in C
BY LenProperties, ElementOfSeq DEF Lists

LEMMA OneRankInOrder ==
    ASSUME NEW m, Regular(m), NEW s, NEW T, T \subseteq Place(m), Lists(s, CallsAt(m, T)),
           \A t1, t2 \in T : Rank(t1) <= Rank(t2)
    PROVE  InOrder(m, s, T)
<1>1. Sorted(m, s)
  <2> SUFFICES ASSUME NEW k1 \in DOMAIN s, NEW k2 \in DOMAIN s,
                      NEW t1 \in Place(m), NEW t2 \in Place(m),
                      s[k1] = CallAt(m, t1), s[k2] = CallAt(m, t2)
               PROVE  Rank(t1) <= Rank(t2)
    BY DEF Sorted
  <2>1. s[k1] \in CallsAt(m, T) /\ s[k2] \in CallsAt(m, T) BY ListFacts
  <2>2. t1 \in T /\ t2 \in T BY <2>1, PlaceOfCall
  <2> QED BY <2>2
<1> QED BY <1>1 DEF InOrder

LEMMA InOrderConcat ==
    ASSUME NEW m, Regular(m), NEW s, NEW t, NEW S, NEW T,
           InOrder(m, s, S), InOrder(m, t, T), RanksBelow(S, T)
    PROVE  InOrder(m, s \o t, S \cup T)
<1>1. S \subseteq Place(m) /\ T \subseteq Place(m) BY DEF InOrder
<1>2. Lists(s, CallsAt(m, S)) /\ Lists(t, CallsAt(m, T)) BY DEF InOrder
<1>3. CallsAt(m, S) \cap CallsAt(m, T) = {}
  BY <1>1, BelowMeansDisjoint, CallsDisjoint
<1>4. CallsAt(m, S) \cup CallsAt(m, T) = CallsAt(m, S \cup T) BY DEF CallsAt
<1>5. Lists(s \o t, CallsAt(m, S) \cup CallsAt(m, T)) BY <1>2, <1>3, ListsConcat
<1>6. /\ Len(s) \in Nat /\ DOMAIN s = 1 .. Len(s) /\ \A k \in 1 .. Len(s) : s[k] \in CallsAt(m, S)
      /\ Len(t) \in Nat /\ DOMAIN t = 1 .. Len(t) /\ \A k \in 1 .. Len(t) : t[k] \in CallsAt(m, T)
  BY <1>2, ListFacts
<1>7. /\ DOMAIN (s \o t) = 1 .. Len(s) + Len(t)
      /\ \A i \in 1 .. Len(s) + Len(t) :
            (s \o t)[i] = IF i <= Len(s) THEN s[i] ELSE t[i - Len(s)]
  <2> DEFINE U == CallsAt(m, S) \cup CallsAt(m, T)
  <2>1. s \in Seq(U) /\ t \in Seq(U)
    BY <1>2, SeqMonotonic DEF Lists
  <2> HIDE DEF U
  <2> QED BY <2>1, ConcatProperties, LenProperties
<1>8. Sorted(m, s \o t)
  <2> SUFFICES ASSUME NEW k1 \in DOMAIN (s \o t), NEW k2 \in DOMAIN (s \o t),
                      NEW t1 \in Place(m), NEW t2 \in Place(m), k1 < k2,
                      (s \o t)[k1] = CallAt(m, t1), (s \o t)[k2] = CallAt(m, t2)
               PROVE  Rank(t1) <= Rank(t2)
    BY DEF Sorted
  <2>1. k1 \in 1 .. Len(s) + Len(t) /\ k2 \in 1 .. Len(s) + Len(t) BY <1>7
  <2>2. CASE k2 <= Len(s)
    <3>1. k1 \in DOMAIN s /\ k2 \in DOMAIN s /\ k1 <= Len(s) BY <1>6, <2>1, <2>2
    <3>2. s[k1] = CallAt(m, t1) /\ s[k2] = CallAt(m, t2) BY <1>7, <2>1, <2>2, <3>1
    <3> QED BY <3>1, <3>2 DEF InOrder, Sorted
  <2>3. CASE ~(k1 <= Len(s))
    <3>1. /\ k1 - Len(s) \in DOMAIN t /\ k2 - Len(s) \in DOMAIN t /\ ~(k2 <= Len(s))
          /\ k1 - Len(s) < k2 - Len(s)
      BY <1>6, <2>1, <2>3
    <3>2. t[k1 - Len(s)] = CallAt(m, t1) /\ t[k2 - Len(s)] = CallAt(m, t2)
      BY <1>7, <2>1, <2>3, <3>1
    <3> QED BY <3>1, <3>2 DEF InOrder, Sorted
  <2>4. CASE k1 <= Len(s) /\ ~(k2 <= Len(s))
    <3>1. k1 \in 1 .. Len(s) /\ k2 - Len(s) \in 1 .. Len(t) BY <1>6, <2>1, <2>4
    <3>2. s[k1] = CallAt(m, t1) /\ t[k2 - Len(s)] = CallAt(m, t2) BY <1>7, <2>1, <2>4
    <3>3. t1 \in S /\ t2 \in T BY <1>1, <1>6, <3>1, <3>2, PlaceOfCall
    <3> QED BY <1>1, <3>3, RankType DEF RanksBelow
  <2> QED BY <1>6, <2>1, <2>2, <2>3, <2>4
<1> QED BY <1>1, <1>4, <1>5, <1>8 DEF InOrder

LEMMA InOrderFlatten ==
    ASSUME NEW m, Regular(m), NEW n \in Nat, NEW ss, ss = [i \in 1 .. n |-> ss[i]], NEW T,
           \A i \in 1 .. n : InOrder(m, ss[i], T[i]),
           \A i1, i2 \in 1 .. n : i1 < i2 => RanksBelow(T[i1], T[i2])
    PROVE  InOrder(m, FlattenSeq(ss), UNION {T[i] : i \in 1 .. n})
<1> DEFINE C == [i \in 1 .. n |-> CallsAt(m, T[i])]
           U == UNION {C[i] : i \in 1 .. n}
           s == FlattenSeq(ss)
<1>1. \A i \in 1 .. n : T[i] \subseteq Place(m) BY DEF InOrder
<1>2. \A i \in 1 .. n : Lists(ss[i], C[i]) BY DEF InOrder
<1>3. ASSUME NEW i1 \in 1 .. n, NEW i2 \in 1 .. n, i1 # i2 PROVE C[i1] \cap C[i2] = {}
  <2>1. CASE i1 < i2
    <3>1. T[i1] \cap T[i2] = {} BY <1>1, <2>1, BelowMeansDisjoint
    <3> QED BY <1>1, <3>1, CallsDisjoint
  <2>2. CASE i2 < i1
    <3>1. T[i2] \cap T[i1] = {} BY <1>1, <2>2, BelowMeansDisjoint
    <3>2. C[i2] \cap C[i1] = {} BY <1>1, <3>1, CallsDisjoint
    <3> QED BY <3>2
  <2> QED BY <1>3, <2>1, <2>2
<1>4. U = CallsAt(m, UNION {T[i] : i \in 1 .. n}) BY DEF CallsAt
<1> HIDE DEF C
<1>5. Lists(s, U) BY <1>2, <1>3, ListsFlatten
<1>6. ASSUME NEW i \in 1 .. n
      PROVE  /\ ss[i] \in Seq(U) /\ Len(ss[i]) \in Nat /\ DOMAIN ss[i] = 1 .. Len(ss[i])
             /\ \A k \in 1 .. Len(ss[i]) : ss[i][k] \in C[i]
  <2>1. Lists(ss[i], C[i]) BY <1>2
  <2>2. ss[i] \in Seq(C[i]) BY <2>1 DEF Lists
  <2>3. C[i] \subseteq U OBVIOUS
  <2>4. ss[i] \in Seq(U) BY <2>2, <2>3, SeqMonotonic, Zenon
  <2> QED BY <2>1, <2>4, ListFacts
<1> HIDE DEF U
<1>7. ss \in Seq(Seq(U)) /\ Len(ss) = n
  <2>1. [i \in 1 .. n |-> ss[i]] \in [1 .. n -> Seq(U)] BY <1>6
  <2>2. ss \in [1 .. n -> Seq(U)] BY <2>1, Zenon
  <2> QED BY <2>2, SeqDef
<1>8. s \in Seq(U) BY <1>7, FlattenSeqIsFlat
<1>9. PICK start : Flat(ss, s, start, n) BY <1>7, FlattenSeqIsFlat
<1> HIDE DEF s
<1>10. /\ \A i1 \in 1 .. n : \A i2 \in i1 + 1 .. n : start[i1] <= start[i2 - 1]
       /\ \A j \in 1 .. Len(s) : \E i \in 1 .. n : \E k \in 1 .. Len(ss[i]) :
            j = start[i - 1] + k
  <2>1. Flat(ss, s, start, Len(ss)) BY <1>7, <1>8, <1>9
  <2>2. Apart(ss, start) /\ Filled(ss, s, start) BY <1>7, <1>8, <1>9, <2>1, FlatPlaces
  <2> QED BY <1>7, <2>2 DEF Apart, Filled
<1>11. DOMAIN s = 1 .. Len(s) BY <1>8, LenProperties
<1>12. Sorted(m, s)
  <2> SUFFICES ASSUME NEW k1 \in DOMAIN s, NEW k2 \in DOMAIN s,
                      NEW t1 \in Place(m), NEW t2 \in Place(m), k1 < k2,
                      s[k1] = CallAt(m, t1), s[k2] = CallAt(m, t2)
               PROVE  Rank(t1) <= Rank(t2)
    BY DEF Sorted
  <2>1. PICK i1 \in 1 .. n : \E h \in 1 .. Len(ss[i1]) : k1 = start[i1 - 1] + h
    BY <1>10, <1>11
  <2>2. PICK h1 \in 1 .. Len(ss[i1]) : k1 = start[i1 - 1] + h1 BY <2>1
  <2>3. PICK i2 \in 1 .. n : \E h \in 1 .. Len(ss[i2]) : k2 = start[i2 - 1] + h
    BY <1>10, <1>11
  <2>4. PICK h2 \in 1 .. Len(ss[i2]) : k2 = start[i2 - 1] + h2 BY <2>3
  <2>5. ss[i1][h1] = CallAt(m, t1) /\ ss[i2][h2] = CallAt(m, t2)
    BY <1>9, <2>2, <2>4 DEF Flat
  <2>6. t1 \in T[i1] /\ t2 \in T[i2]
    <3>1. CallAt(m, t1) \in CallsAt(m, T[i1]) /\ CallAt(m, t2) \in CallsAt(m, T[i2])
      BY <1>6, <2>5 DEF C
    <3> QED BY <1>1, <3>1, PlaceOfCall
  <2>7. CASE i1 < i2 BY <2>6, <2>7, RankType DEF RanksBelow
  <2>8. CASE i1 = i2
    <3>1. h1 < h2
      <4>1. start[i1 - 1] \in Nat BY <1>9 DEF Flat
      <4> QED BY <1>6, <2>2, <2>4, <2>8, <4>1
    <3>2. InOrder(m, ss[i1], T[i1]) /\ h1 \in DOMAIN ss[i1] /\ h2 \in DOMAIN ss[i1]
      BY <1>6, <2>8
    <3> QED BY <2>5, <2>8, <3>1, <3>2 DEF InOrder, Sorted
  <2>9. CASE i2 < i1
    <3>1. i1 \in i2 + 1 .. n BY <2>9
    <3>2. start[i2] <= start[i1 - 1] BY <1>10, <3>1
    <3>3. start[i2 - 1] \in Nat /\ start[i1 - 1] \in Nat /\ start[i2] = start[i2 - 1] + Len(ss[i2])
      <4>1. start \in [0 .. n -> Nat] BY <1>9 DEF Flat
      <4>2. i1 - 1 \in 0 .. n /\ i2 - 1 \in 0 .. n OBVIOUS
      <4>3. start[i2] = start[i2 - 1] + Len(ss[i2]) BY <1>9 DEF Flat
      <4> QED BY <4>1, <4>2, <4>3
    <3>4. Len(ss[i2]) \in Nat BY <1>6
    <3> QED BY <2>2, <2>4, <3>2, <3>3, <3>4
  <2> QED BY <2>7, <2>8, <2>9
<1>13. UNION {T[i] : i \in 1 .. n} \subseteq Place(m) BY <1>1
<1> QED BY <1>4, <1>5, <1>12, <1>13 DEF InOrder, s

\* The ranks of the three kinds of call.
LEMMA Ranks ==
    ASSUME NEW m, NEW p \in Index(m), NEW t \in Place(m)
    PROVE  /\ t = Diagonal(p) => Rank(t) = 3 * p
           /\ t \in TrsmPlaces(m, p) => Rank(t) = 3 * p + 1
           /\ t \in MaddPlaces(m, p) => Rank(t) = 3 * p + 2
           /\ t \in PanelPlaces(m, p) => 3 * p <= Rank(t) /\ Rank(t) < 3 * (p + 1)
BY PlaceTypes DEF Rank, Diagonal, TrsmPlaces, MaddPlaces, PanelPlaces, Index

LEMMA DiagonalPlace ==
    ASSUME NEW m, NEW p \in Index(m)
    PROVE  /\ Diagonal(p) \in Place(m)
           /\ CallAt(m, Diagonal(p)) = CholeskyCall(m.n, p * m.b)
BY DEF Diagonal, Place, Index, CallAt

LEMMA CholeskyList ==
    ASSUME NEW m, NEW p \in Index(m)
    PROVE  Lists(<<CholeskyCall(m.n, p * m.b)>>, CallsAt(m, {Diagonal(p)}))
<1> DEFINE c == CallAt(m, Diagonal(p))
<1>1. CallsAt(m, {Diagonal(p)}) = {c} BY DEF CallsAt
<1> HIDE DEF c
<1>2. <<c>> \in Seq({c}) OBVIOUS
<1>3. DOMAIN <<c>> = 1 .. 1 OBVIOUS
<1>4. Lists(<<c>>, {c}) BY <1>2, <1>3 DEF Lists
<1> QED BY <1>1, <1>4, DiagonalPlace DEF c

LEMMA PanelInOrder ==
    ASSUME NEW m, Regular(m), NEW p \in Index(m)
    PROVE  /\ InOrder(m, <<CholeskyCall(m.n, p * m.b)>>, {Diagonal(p)})
           /\ InOrder(m, TrsmCalls(m.n, m.b, p * m.b), TrsmPlaces(m, p))
           /\ InOrder(m, MaddCalls(m.n, m.b, p * m.b), MaddPlaces(m, p))
           /\ InOrder(m, TrsmCalls(m.n, m.b, p * m.b) \o MaddCalls(m.n, m.b, p * m.b),
                      TrsmPlaces(m, p) \cup MaddPlaces(m, p))
           /\ InOrder(m, PanelCalls(m.n, m.b, p * m.b), PanelPlaces(m, p))
<1> DEFINE i == p * m.b
           chol == <<CholeskyCall(m.n, i)>>
           trsm == TrsmCalls(m.n, m.b, i)
           madd == MaddCalls(m.n, m.b, i)
           C == {Diagonal(p)}
           T == TrsmPlaces(m, p)
           M == MaddPlaces(m, p)
<1>1. p \in Nat BY BlocksOf DEF Index
<1>2. C \subseteq Place(m) /\ T \subseteq Place(m) /\ M \subseteq Place(m)
  BY DiagonalPlace DEF TrsmPlaces, MaddPlaces
<1>3. InOrder(m, chol, C)
  <2>1. \A t1, t2 \in C : Rank(t1) <= Rank(t2) BY <1>1, <1>2, Ranks
  <2>2. Lists(chol, CallsAt(m, C)) BY CholeskyList
  <2> QED BY <1>2, <2>1, <2>2, OneRankInOrder
<1>4. InOrder(m, trsm, T)
  <2>1. \A t1, t2 \in T : Rank(t1) <= Rank(t2) BY <1>1, <1>2, Ranks
  <2>2. Lists(trsm, CallsAt(m, T)) BY TrsmCallsList
  <2> QED BY <1>2, <2>1, <2>2, OneRankInOrder
<1>5. InOrder(m, madd, M)
  <2>1. \A t1, t2 \in M : Rank(t1) <= Rank(t2) BY <1>1, <1>2, Ranks
  <2>2. Lists(madd, CallsAt(m, M)) BY MaddCallsList
  <2> QED BY <1>2, <2>1, <2>2, OneRankInOrder
<1>6. /\ \A t \in C : Rank(t) = 3 * p
      /\ \A t \in T : Rank(t) = 3 * p + 1
      /\ \A t \in M : Rank(t) = 3 * p + 2
  BY <1>2, Ranks
<1>7. RanksBelow(T, M) /\ RanksBelow(C, T \cup M) /\ RanksBelow(C, T) /\ RanksBelow(C \cup T, M)
  <2> HIDE DEF C, T, M
  <2> QED BY <1>1, <1>6 DEF RanksBelow
<1>8. InOrder(m, trsm \o madd, T \cup M) BY <1>4, <1>5, <1>7, InOrderConcat
<1>9. InOrder(m, (chol \o trsm) \o madd, (C \cup T) \cup M)
  <2> HIDE DEF C, T, M, chol, trsm, madd
  <2>1. InOrder(m, chol \o trsm, C \cup T) BY <1>3, <1>4, <1>7, InOrderConcat
  <2> QED BY <2>1, <1>5, <1>7, InOrderConcat
<1>10. (C \cup T) \cup M = PanelPlaces(m, p)
  BY PlaceTypes, DiagonalPlace DEF Diagonal, TrsmPlaces, MaddPlaces, PanelPlaces
<1>11. PanelCalls(m.n, m.b, i) = (chol \o trsm) \o madd BY DEF PanelCalls
<1> QED BY <1>3, <1>4, <1>5, <1>8, <1>9, <1>10, <1>11

LEMMA PanelSteps ==
    ASSUME NEW m, Regular(m)
    PROVE  Steps(0, m.n, m.b) = [s \in 1 .. Blocks(m) |-> (s - 1) * m.b]
<1>1. Blocks(m) \in Nat \ {0} /\ m.b \in Nat \ {0} BY BlocksOf DEF Regular
<1>2. 0 * m.b = 0 BY <1>1
<1>3. Steps(0 * m.b, m.n, m.b) = [s \in 1 .. Blocks(m) - 0 |-> (0 + s - 1) * m.b]
  BY <1>1, StepsBelow
<1>4. 1 .. Blocks(m) - 0 = 1 .. Blocks(m) /\ \A s \in 1 .. Blocks(m) : 0 + s - 1 = s - 1
  BY <1>1
<1> QED BY <1>2, <1>3, <1>4

\* The panels one behind the other.
LEMMA PanelsAreOrdered ==
    ASSUME NEW m, Regular(m)
    PROVE  /\ \A i \in 1 .. Blocks(m) : i - 1 \in Index(m)
           /\ \A i1, i2 \in 1 .. Blocks(m) :
                i1 < i2 => RanksBelow(PanelPlaces(m, i1 - 1), PanelPlaces(m, i2 - 1))
           /\ UNION {PanelPlaces(m, i - 1) : i \in 1 .. Blocks(m)} = Place(m)
<1>1. Blocks(m) \in Nat \ {0} BY BlocksOf
<1>2. \A i \in 1 .. Blocks(m) : i - 1 \in Index(m) BY <1>1 DEF Index
<1>3. ASSUME NEW i1 \in 1 .. Blocks(m), NEW i2 \in 1 .. Blocks(m), i1 < i2,
             NEW s \in PanelPlaces(m, i1 - 1), NEW t \in PanelPlaces(m, i2 - 1)
      PROVE  Rank(s) < Rank(t)
  <2>1. s \in Place(m) /\ t \in Place(m) BY DEF PanelPlaces
  <2>2. Rank(s) < 3 * ((i1 - 1) + 1) /\ 3 * (i2 - 1) <= Rank(t) BY <1>2, <2>1, Ranks
  <2>3. Rank(s) \in Nat /\ Rank(t) \in Nat BY <2>1, RankType
  <2> QED BY <1>1, <1>3, <2>2, <2>3
<1>4. ASSUME NEW t \in Place(m)
      PROVE  t \in UNION {PanelPlaces(m, i - 1) : i \in 1 .. Blocks(m)}
  <2>1. t.panel + 1 \in 1 .. Blocks(m) /\ (t.panel + 1) - 1 = t.panel
    BY <1>1, PlaceTypes DEF Index
  <2>2. t \in PanelPlaces(m, (t.panel + 1) - 1) BY <2>1 DEF PanelPlaces
  <2> QED BY <2>1, <2>2
<1>5. \A i \in 1 .. Blocks(m) : PanelPlaces(m, i - 1) \subseteq Place(m) BY DEF PanelPlaces
<1>6. UNION {PanelPlaces(m, i - 1) : i \in 1 .. Blocks(m)} = Place(m) BY <1>4, <1>5
<1> QED BY <1>2, <1>3, <1>6 DEF RanksBelow

LEMMA BaselineInOrder ==
    ASSUME NEW m, Regular(m)
    PROVE  InOrder(m, Baseline(m), Place(m))
<1> DEFINE N == Blocks(m)
           panels == Steps(0, m.n, m.b)
           ss == [i \in 1 .. N |-> PanelCalls(m.n, m.b, (i - 1) * m.b)]
           T == [i \in 1 .. N |-> PanelPlaces(m, i - 1)]
<1>1. N \in Nat BY BlocksOf
<1>2. Baseline(m) = FlattenSeq([p \in DOMAIN panels |-> PanelCalls(m.n, m.b, panels[p])])
  BY DEF Baseline
<1>3. [p \in DOMAIN panels |-> PanelCalls(m.n, m.b, panels[p])] = ss
  <2>1. panels = [s \in 1 .. N |-> (s - 1) * m.b] BY PanelSteps
  <2> HIDE DEF panels
  <2> QED BY <2>1
<1>4. \A i \in 1 .. N : InOrder(m, ss[i], T[i]) BY PanelsAreOrdered, PanelInOrder
<1>5. \A i1, i2 \in 1 .. N : i1 < i2 => RanksBelow(T[i1], T[i2]) BY PanelsAreOrdered
<1>6. UNION {T[i] : i \in 1 .. N} = Place(m)
  <2>1. {T[i] : i \in 1 .. N} = {PanelPlaces(m, i - 1) : i \in 1 .. N} OBVIOUS
  <2> QED BY <2>1, PanelsAreOrdered
<1>7. ss = [i \in 1 .. N |-> ss[i]] OBVIOUS
<1> HIDE DEF ss, T
<1>8. InOrder(m, FlattenSeq(ss), UNION {T[i] : i \in 1 .. N})
  BY <1>1, <1>4, <1>5, <1>7, InOrderFlatten
<1> QED BY <1>2, <1>3, <1>6, <1>8

-----------------------------------------------------------------------------
(* What the baseline finds in its operands. *)

LEMMA Count ==
    ASSUME NEW S, NEW h \in Nat, NEW f \in [0 .. h - 1 -> S],
           \A x \in S : \E q \in 0 .. h - 1 : f[q] = x,
           \A q1, q2 \in 0 .. h - 1 : f[q1] = f[q2] => q1 = q2
    PROVE  Cardinality(S) = h
<1>1. f \in Bijection(0 .. h - 1, S) BY DEF Bijection, Injection, Surjection, IsInjective
<1>2. ExistsBijection(0 .. h - 1, S) BY <1>1 DEF ExistsBijection
<1>3. IsFiniteSet(0 .. h - 1) /\ Cardinality(0 .. h - 1) = IF 0 > h - 1 THEN 0 ELSE h - 1 - 0 + 1
  BY FS_Interval
<1>4. Cardinality(S) = Cardinality(0 .. h - 1) BY <1>2, <1>3, FS_Bijection
<1> QED BY <1>3, <1>4

\* The panels that wrote a tile before the k-th call.
LEMMA WritesBeforeAre ==
    ASSUME NEW m, Regular(m), NEW s, InOrder(m, s, Place(m)), NEW k \in 1 .. Len(s) + 1,
           NEW r \in Index(m), NEW c \in Index(m), c <= r, NEW h \in 0 .. c + 1,
           \A j \in DOMAIN s : \A w \in Place(m) :
                s[j] = CallAt(m, w) /\ w.row = r /\ w.col = c => (j < k <=> w.panel < h)
    PROVE  Cardinality({q \in 1 .. k - 1 : Output(s[q]) = TileAt(m, r, c)}) = h
<1> DEFINE S == {q \in 1 .. k - 1 : Output(s[q]) = TileAt(m, r, c)}
           W(q) == [panel |-> q, col |-> c, row |-> r]
           f == [q \in 0 .. h - 1 |-> CHOOSE j \in DOMAIN s : s[j] = CallAt(m, W(q))]
<1>1. Lists(s, CallsAt(m, Place(m))) BY DEF InOrder
<1>2. /\ Len(s) \in Nat /\ DOMAIN s = 1 .. Len(s)
      /\ \A j \in 1 .. Len(s) : s[j] \in CallsAt(m, Place(m))
  BY <1>1, ListFacts
<1>3. Blocks(m) \in Nat /\ r \in Nat /\ c \in Nat /\ h \in Nat BY BlocksOf DEF Index
<1>4. ASSUME NEW q \in 0 .. h - 1 PROVE W(q) \in Place(m)
  <2>1. q \in Index(m) /\ q <= c BY <1>3 DEF Index
  <2> QED BY <2>1, PlaceIs
<1>5. ASSUME NEW q \in 0 .. h - 1
      PROVE  f[q] \in DOMAIN s /\ s[f[q]] = CallAt(m, W(q)) /\ f[q] \in S
  <2>1. CallAt(m, W(q)) \in CallsAt(m, Place(m)) BY <1>4 DEF CallsAt
  <2>2. \E j \in DOMAIN s : s[j] = CallAt(m, W(q)) BY <1>1, <2>1 DEF Lists
  <2>3. f[q] \in DOMAIN s /\ s[f[q]] = CallAt(m, W(q)) BY <2>2
  <2>4. Output(s[f[q]]) = TileAt(m, r, c) BY <1>4, <2>3, CallOperands
  <2>5. f[q] < k BY <1>3, <1>4, <2>3
  <2> HIDE DEF f
  <2> QED BY <1>2, <2>3, <2>4, <2>5
<1> HIDE DEF f
<1>6. ASSUME NEW x \in S PROVE \E q \in 0 .. h - 1 : f[q] = x
  <2>1. x \in DOMAIN s /\ x < k BY <1>2
  <2>2. PICK w \in Place(m) : s[x] = CallAt(m, w) BY <1>2, <2>1 DEF CallsAt
  <2>3. TileAt(m, w.row, w.col) = TileAt(m, r, c) BY <2>2, CallOperands
  <2>4. w.row = r /\ w.col = c BY <2>3, PlaceTypes, TileInjective
  <2>5. w.panel \in 0 .. h - 1 BY <1>3, <2>1, <2>2, <2>4, PlaceTypes
  <2>6. w = W(w.panel) BY <2>4, PlaceTypes
  <2>7. s[f[w.panel]] = s[x] BY <1>5, <2>2, <2>5, <2>6
  <2>8. f[w.panel] = x
    <3>1. f[w.panel] \in DOMAIN s BY <1>5, <2>5
    <3>2. \A k1, k2 \in DOMAIN s : s[k1] = s[k2] => k1 = k2 BY <1>1, Zenon DEF Lists
    <3> HIDE DEF S
    <3> QED BY <2>1, <2>7, <3>1, <3>2, Zenon
  <2> QED BY <2>5, <2>8
<1>7. ASSUME NEW q1 \in 0 .. h - 1, NEW q2 \in 0 .. h - 1, f[q1] = f[q2] PROVE q1 = q2
  <2>1. CallAt(m, W(q1)) = CallAt(m, W(q2)) BY <1>5, <1>7
  <2>2. W(q1) = W(q2) BY <1>4, <2>1, CallInjective
  <2> QED BY <2>2
<1>8. f \in [0 .. h - 1 -> S] BY <1>5 DEF f
<1> HIDE DEF S
<1>9. Cardinality(S) = h BY <1>3, <1>6, <1>7, <1>8, Count
<1> QED BY <1>9 DEF S

\* Of two places, the one with the lower rank has its call first.
LEMMA FirstRankFirst ==
    ASSUME NEW m, Regular(m), NEW s, InOrder(m, s, Place(m)),
           NEW j \in DOMAIN s, NEW k \in DOMAIN s, NEW w \in Place(m), NEW t \in Place(m),
           s[j] = CallAt(m, w), s[k] = CallAt(m, t), Rank(w) < Rank(t)
    PROVE  j < k
<1>1. DOMAIN s = 1 .. Len(s) /\ Len(s) \in Nat BY ListFacts DEF InOrder
<1>2. Rank(w) \in Nat /\ Rank(t) \in Nat BY RankType
<1>3. j # k
  <2>1. j = k => w = t BY CallInjective
  <2> QED BY <1>2, <2>1
<1>4. ~(k < j) BY <1>2 DEF InOrder, Sorted
<1> QED BY <1>1, <1>3, <1>4

\* A call finds its own tile as the panels before left it, and its other operands
\* as its own panel leaves them.
FoundAt(m, t, x) == IF x = TileAt(m, t.row, t.col) THEN t.panel ELSE t.panel + 1

LEMMA WritersOfOperands ==
    ASSUME NEW m, Regular(m), NEW t \in Place(m), NEW x \in Operands(CallAt(m, t))
    PROVE  \E r \in Index(m), c \in Index(m) :
            /\ c <= r /\ x = TileAt(m, r, c) /\ FoundAt(m, t, x) \in 0 .. c + 1
            /\ \A w \in Place(m) : w.row = r /\ w.col = c =>
                    /\ w.panel < FoundAt(m, t, x) => Rank(w) < Rank(t)
                    /\ w.panel >= FoundAt(m, t, x) => w = t \/ Rank(t) < Rank(w)
<1> USE DEF FoundAt
<1>1. /\ t.panel \in Index(m) /\ t.col \in Index(m) /\ t.row \in Index(m)
      /\ t.panel \in Nat /\ t.col \in Nat /\ t.row \in Nat
      /\ t.panel <= t.col /\ t.col <= t.row
      /\ t = [panel |-> t.panel, col |-> t.col, row |-> t.row]
  BY PlaceTypes
<1>2. CASE x = TileAt(m, t.row, t.col)
  <2>1. ASSUME NEW w \in Place(m), w.row = t.row, w.col = t.col
        PROVE  /\ w.panel < t.panel => Rank(w) < Rank(t)
               /\ w.panel >= t.panel => w = t \/ Rank(t) < Rank(w)
    BY <1>1, <2>1, PlaceTypes DEF Rank
  <2> QED BY <1>1, <1>2, <2>1
<1>3. CASE x # TileAt(m, t.row, t.col)
  <2>1. PICK r \in {t.row, t.col} : x = TileAt(m, r, t.panel) BY <1>3, CallOperands
  <2>2. r \in Index(m) /\ r \in Nat /\ t.panel <= r BY <1>1
  <2>3. t.col # t.panel \/ r # t.row BY <1>3, <2>1
  <2>4. ASSUME NEW w \in Place(m), w.row = r, w.col = t.panel
        PROVE  /\ w.panel < t.panel + 1 => Rank(w) < Rank(t)
               /\ w.panel >= t.panel + 1 => w = t \/ Rank(t) < Rank(w)
    BY <1>1, <2>1, <2>2, <2>3, <2>4, PlaceTypes DEF Rank
  <2>5. t.panel + 1 \in 0 .. t.panel + 1 BY <1>1
  <2> QED BY <1>1, <1>3, <2>1, <2>2, <2>4, <2>5
<1> QED BY <1>2, <1>3

LEMMA SerialOperandsAre ==
    ASSUME NEW m \in Inputs, Accepted(m), Regular(m)
    PROVE  /\ DOMAIN SerialOperands[m] = CallsAt(m, Place(m))
           /\ \A t \in Place(m) : \A x \in Operands(CallAt(m, t)) :
                SerialOperands[m][CallAt(m, t)][x] = FoundAt(m, t, x)
<1> DEFINE calls == Baseline(m)
           WritesBefore(p, x) == Cardinality({q \in 1 .. p - 1 : Output(calls[q]) = x})
           Position(c) == CHOOSE p \in DOMAIN calls : calls[p] = c
           found == [c \in ToSet(calls) |-> [x \in Operands(c) |-> WritesBefore(Position(c), x)]]
<1>1. SerialOperands[m] = found BY DEF SerialOperands
<1>2. InOrder(m, calls, Place(m)) BY BaselineInOrder
<1>3. Lists(calls, CallsAt(m, Place(m))) BY <1>2 DEF InOrder
<1> HIDE DEF calls
<1>4. /\ Len(calls) \in Nat /\ DOMAIN calls = 1 .. Len(calls)
      /\ \A j \in 1 .. Len(calls) : calls[j] \in CallsAt(m, Place(m))
  BY <1>3, ListFacts
<1>5. ToSet(calls) = CallsAt(m, Place(m)) BY <1>3, <1>4 DEF ToSet, Lists
<1>6. ASSUME NEW t \in Place(m), NEW x \in Operands(CallAt(m, t))
      PROVE  found[CallAt(m, t)][x] = FoundAt(m, t, x)
  <2> DEFINE c == CallAt(m, t)
             k == Position(c)
  <2>1. c \in ToSet(calls) BY <1>5 DEF CallsAt
  <2>2. \E p \in DOMAIN calls : calls[p] = c BY <2>1 DEF ToSet
  <2>3. k \in DOMAIN calls /\ calls[k] = c BY <2>2
  <2>4. found[c][x] = WritesBefore(k, x) BY <2>1
  <2> HIDE DEF k
  <2>5. PICK r \in Index(m), col \in Index(m) :
            /\ col <= r /\ x = TileAt(m, r, col) /\ FoundAt(m, t, x) \in 0 .. col + 1
            /\ \A w \in Place(m) : w.row = r /\ w.col = col =>
                    /\ w.panel < FoundAt(m, t, x) => Rank(w) < Rank(t)
                    /\ w.panel >= FoundAt(m, t, x) => w = t \/ Rank(t) < Rank(w)
    BY WritersOfOperands
  <2>6. ASSUME NEW j \in DOMAIN calls, NEW w \in Place(m),
               calls[j] = CallAt(m, w), w.row = r, w.col = col
        PROVE  j < k <=> w.panel < FoundAt(m, t, x)
    <3>1. CASE w.panel < FoundAt(m, t, x)
      BY <1>2, <2>3, <2>5, <2>6, <3>1, FirstRankFirst
    <3>2. CASE w = t /\ ~(w.panel < FoundAt(m, t, x))
      <4>1. j = k BY <1>3, <2>3, <2>6, <3>2 DEF Lists
      <4> QED BY <1>4, <3>2, <4>1
    <3>3. CASE w # t /\ ~(w.panel < FoundAt(m, t, x))
      <4>1. w.panel \in Nat /\ FoundAt(m, t, x) \in Nat BY <2>5, PlaceTypes DEF Index, FoundAt
      <4>2. Rank(t) < Rank(w) BY <2>5, <2>6, <3>3, <4>1
      <4>3. k < j BY <1>2, <2>3, <2>6, <4>2, FirstRankFirst
      <4> QED BY <1>4, <2>3, <3>3, <4>3
    <3> QED BY <3>1, <3>2, <3>3
  <2>7. k \in 1 .. Len(calls) + 1 BY <1>4, <2>3
  <2>8. Cardinality({q \in 1 .. k - 1 : Output(calls[q]) = TileAt(m, r, col)}) = FoundAt(m, t, x)
    BY <1>2, <2>5, <2>6, <2>7, WritesBeforeAre
  <2> QED BY <2>4, <2>5, <2>8
<1>7. DOMAIN found = CallsAt(m, Place(m)) BY <1>5
<1> HIDE DEF found
<1> QED BY <1>1, <1>6, <1>7

LEMMA FinalTilesAre ==
    ASSUME NEW m \in Inputs, Accepted(m), Regular(m)
    PROVE  /\ DOMAIN FinalTiles[m] = {TileAt(m, t.row, t.col) : t \in Place(m)}
           /\ \A t \in Place(m) : FinalTiles[m][TileAt(m, t.row, t.col)] = t.col + 1
<1> DEFINE calls == Baseline(m)
           outputs == {Output(calls[p]) : p \in DOMAIN calls}
           final == [x \in outputs |-> Cardinality({p \in DOMAIN calls : Output(calls[p]) = x})]
<1>1. FinalTiles[m] = final BY DEF FinalTiles
<1>2. InOrder(m, calls, Place(m)) BY BaselineInOrder
<1>3. Lists(calls, CallsAt(m, Place(m))) BY <1>2 DEF InOrder
<1> HIDE DEF calls
<1>4. /\ Len(calls) \in Nat /\ DOMAIN calls = 1 .. Len(calls)
      /\ \A j \in 1 .. Len(calls) : calls[j] \in CallsAt(m, Place(m))
  BY <1>3, ListFacts
<1>5. outputs = {TileAt(m, t.row, t.col) : t \in Place(m)}
  <2>1. ASSUME NEW p \in DOMAIN calls
        PROVE  Output(calls[p]) \in {TileAt(m, t.row, t.col) : t \in Place(m)}
    <3>1. PICK t \in Place(m) : calls[p] = CallAt(m, t) BY <1>4 DEF CallsAt
    <3> QED BY <3>1, CallOperands
  <2>2. ASSUME NEW t \in Place(m)
        PROVE  TileAt(m, t.row, t.col) \in outputs
    <3>1. CallAt(m, t) \in CallsAt(m, Place(m)) BY DEF CallsAt
    <3>2. PICK p \in DOMAIN calls : calls[p] = CallAt(m, t) BY <1>3, <3>1 DEF Lists
    <3>3. Output(calls[p]) = TileAt(m, t.row, t.col) BY <3>2, CallOperands
    <3> QED BY <3>3
  <2> QED BY <2>1, <2>2
<1>6. ASSUME NEW t \in Place(m)
      PROVE  final[TileAt(m, t.row, t.col)] = t.col + 1
  <2> DEFINE k == Len(calls) + 1
  <2>1. /\ t.row \in Index(m) /\ t.col \in Index(m) /\ t.col <= t.row
        /\ t.col + 1 \in 0 .. t.col + 1 /\ t.col \in Nat
    BY PlaceTypes
  <2>2. ASSUME NEW j \in DOMAIN calls, NEW w \in Place(m),
               calls[j] = CallAt(m, w), w.row = t.row, w.col = t.col
        PROVE  j < k <=> w.panel < t.col + 1
    BY <1>4, <2>1, <2>2, PlaceTypes
  <2>3. k \in 1 .. Len(calls) + 1 BY <1>4
  <2>4. 1 .. k - 1 = DOMAIN calls BY <1>4
  <2> HIDE DEF k
  <2>5. Cardinality({q \in 1 .. k - 1 : Output(calls[q]) = TileAt(m, t.row, t.col)}) = t.col + 1
    BY <1>2, <2>1, <2>2, <2>3, WritesBeforeAre
  <2>6. TileAt(m, t.row, t.col) \in outputs BY <1>5
  <2> QED BY <2>4, <2>5, <2>6
<1>7. DOMAIN final = outputs OBVIOUS
<1> HIDE DEF final
<1> QED BY <1>1, <1>5, <1>6, <1>7

-----------------------------------------------------------------------------
(* Sequences of instructions. *)

ZeroInstr == [kind |-> "zero"]
ReturnInstr == [kind |-> "return"]

LEMMA CallsInAre ==
    /\ \A call : CallsIn(Inline(call)) = <<call>> /\ Inline(call).kind = "call"
    /\ \A calls, deps, output :
            /\ CallsIn(Submit(calls, deps, output)) = calls
            /\ Submit(calls, deps, output).kind = "submit"
            /\ Submit(calls, deps, output).calls = calls
            /\ Submit(calls, deps, output).deps = deps
            /\ Submit(calls, deps, output).output = output
    /\ \A key : /\ CallsIn(WaitKey(key)) = <<>> /\ WaitKey(key).kind = "wait_key"
                /\ WaitKey(key).key = key
    /\ CallsIn(Wait) = <<>> /\ Wait.kind = "wait"
    /\ CallsIn(ZeroInstr) = <<>> /\ ZeroInstr.kind = "zero"
    /\ CallsIn(ReturnInstr) = <<>> /\ ReturnInstr.kind = "return"
<1>1. \A i : /\ i.kind = "call" => CallsIn(i) = <<i.call>>
             /\ i.kind = "submit" => CallsIn(i) = i.calls
             /\ i.kind \notin {"call", "submit"} => CallsIn(i) = <<>>
  BY Zenon DEF CallsIn
<1>2. \A call : Inline(call).kind = "call" /\ Inline(call).call = call BY DEF Inline
<1>3. \A calls, deps, output :
            /\ Submit(calls, deps, output).kind = "submit"
            /\ Submit(calls, deps, output).calls = calls
            /\ Submit(calls, deps, output).deps = deps
            /\ Submit(calls, deps, output).output = output
  BY DEF Submit
<1>4. \A key : WaitKey(key).kind = "wait_key" /\ WaitKey(key).key = key BY DEF WaitKey
<1>5. Wait.kind = "wait" /\ ZeroInstr.kind = "zero" /\ ReturnInstr.kind = "return"
  BY DEF Wait, ZeroInstr, ReturnInstr
<1> QED BY <1>1, <1>2, <1>3, <1>4, <1>5

\* The instruction at p makes the call at t.
Has(m, Q, p, t) == CallAt(m, t) \in ToSet(CallsIn(Q[p]))

\* No instruction makes a call of a lower rank than one before it, and all the
\* calls of a submission have one rank.
Ranked(m, Q) ==
    \A p1, p2 \in DOMAIN Q : \A t1, t2 \in Place(m) :
        p1 <= p2 /\ Has(m, Q, p1, t1) /\ Has(m, Q, p2, t2) => Rank(t1) <= Rank(t2)

\* Q consists of instructions of I and makes the calls at T.
Runs(m, I, Q, T) ==
    /\ T \subseteq Place(m)
    /\ Q \in Seq(I)
    /\ Makes(Q, CallsAt(m, T))
    /\ Ranked(m, Q)

Follows(S, T) == S \cap T = {} /\ \A s \in S, t \in T : Rank(s) <= Rank(t)

LEMMA HasPlace ==
    ASSUME NEW m, Regular(m), NEW I, NEW Q, NEW T, Runs(m, I, Q, T),
           NEW p \in DOMAIN Q, NEW t \in Place(m), Has(m, Q, p, t)
    PROVE  t \in T
<1>1. CallAt(m, t) \in CallsAt(m, T) BY DEF Has, Runs, Makes, ToSet
<1> QED BY <1>1, PlaceOfCall DEF Runs

\* Instructions whose calls are lists, in the order of their ranks.
LEMMA RunsOfLists ==
    ASSUME NEW m, Regular(m), NEW I, NEW Q \in Seq(I), NEW D,
           \A p \in DOMAIN Q : D[p] \subseteq Place(m) /\ Lists(CallsIn(Q[p]), CallsAt(m, D[p])),
           \A p1, p2 \in DOMAIN Q : p1 # p2 => D[p1] \cap D[p2] = {},
           \A p1, p2 \in DOMAIN Q : p1 <= p2 =>
                \A t1 \in D[p1], t2 \in D[p2] : Rank(t1) <= Rank(t2)
    PROVE  Runs(m, I, Q, UNION {D[p] : p \in DOMAIN Q})
<1> DEFINE T == UNION {D[p] : p \in DOMAIN Q}
<1>1. T \subseteq Place(m) OBVIOUS
<1>2. ASSUME NEW p \in DOMAIN Q
      PROVE  /\ \A i \in DOMAIN CallsIn(Q[p]) : CallsIn(Q[p])[i] \in CallsAt(m, D[p])
             /\ \A c \in CallsAt(m, D[p]) : \E i \in DOMAIN CallsIn(Q[p]) : CallsIn(Q[p])[i] = c
             /\ \A i1, i2 \in DOMAIN CallsIn(Q[p]) :
                    CallsIn(Q[p])[i1] = CallsIn(Q[p])[i2] => i1 = i2
  <2> DEFINE s == CallsIn(Q[p])
  <2>1. Lists(s, CallsAt(m, D[p])) OBVIOUS
  <2> HIDE DEF s
  <2>2. DOMAIN s = 1 .. Len(s) /\ \A k \in 1 .. Len(s) : s[k] \in CallsAt(m, D[p])
    BY <2>1, ListFacts
  <2> QED BY <2>1, <2>2 DEF Lists, s
<1>3. ASSUME NEW p \in DOMAIN Q, NEW i \in DOMAIN CallsIn(Q[p])
      PROVE  CallsIn(Q[p])[i] \in CallsAt(m, T)
  BY <1>2 DEF CallsAt
<1>4. ASSUME NEW c \in CallsAt(m, T)
      PROVE  \E p \in DOMAIN Q : \E i \in DOMAIN CallsIn(Q[p]) : CallsIn(Q[p])[i] = c
  <2>1. PICK t \in T : c = CallAt(m, t) BY DEF CallsAt
  <2>2. PICK p \in DOMAIN Q : t \in D[p] OBVIOUS
  <2>3. c \in CallsAt(m, D[p]) BY <2>1, <2>2 DEF CallsAt
  <2> QED BY <1>2, <2>3
<1>5. ASSUME NEW p1 \in DOMAIN Q, NEW p2 \in DOMAIN Q, NEW i1 \in DOMAIN CallsIn(Q[p1]),
             NEW i2 \in DOMAIN CallsIn(Q[p2]), CallsIn(Q[p1])[i1] = CallsIn(Q[p2])[i2]
      PROVE  p1 = p2 /\ i1 = i2
  <2>1. CallsIn(Q[p1])[i1] \in CallsAt(m, D[p1]) /\ CallsIn(Q[p1])[i1] \in CallsAt(m, D[p2])
    BY <1>2, <1>5
  <2>2. p1 = p2
    <3>1. CASE p1 # p2
      <4>1. CallsAt(m, D[p1]) \cap CallsAt(m, D[p2]) = {} BY <3>1, CallsDisjoint
      <4> QED BY <2>1, <4>1
    <3> QED BY <3>1
  <2> QED BY <1>2, <1>5, <2>2
<1>6. Makes(Q, CallsAt(m, T)) BY <1>3, <1>4, <1>5 DEF Makes
<1>7. ASSUME NEW p \in DOMAIN Q, NEW t \in Place(m), Has(m, Q, p, t) PROVE t \in D[p]
  <2>1. CallAt(m, t) \in CallsAt(m, D[p]) BY <1>2, <1>7 DEF Has, ToSet
  <2> QED BY <2>1, PlaceOfCall
<1>8. Ranked(m, Q) BY <1>7 DEF Ranked
<1> HIDE DEF T
<1>9. Runs(m, I, Q, T) BY <1>1, <1>6, <1>8 DEF Runs
<1> QED BY <1>9 DEF T

\* One instruction per call.
LEMMA RunsOneByOne ==
    ASSUME NEW m, Regular(m), NEW I, NEW Q \in Seq(I), NEW s, NEW T, InOrder(m, s, T),
           DOMAIN Q = DOMAIN s, \A p \in DOMAIN Q : CallsIn(Q[p]) = <<s[p]>>
    PROVE  Runs(m, I, Q, T)
<1> DEFINE D == [p \in DOMAIN Q |-> {t \in T : CallAt(m, t) = s[p]}]
<1>1. T \subseteq Place(m) /\ Lists(s, CallsAt(m, T)) /\ Sorted(m, s) BY DEF InOrder
<1>2. DOMAIN s = 1 .. Len(s) /\ \A p \in DOMAIN s : s[p] \in CallsAt(m, T) BY <1>1, ListFacts
<1>3. ASSUME NEW p \in DOMAIN Q PROVE D[p] \subseteq Place(m) /\ CallsAt(m, D[p]) = {s[p]}
  <2>1. PICK t \in T : s[p] = CallAt(m, t) BY <1>2 DEF CallsAt
  <2> QED BY <1>1, <2>1 DEF CallsAt
<1>4. ASSUME NEW p \in DOMAIN Q PROVE Lists(CallsIn(Q[p]), CallsAt(m, D[p]))
  <2> DEFINE c == s[p]
  <2>1. <<c>> \in Seq({c}) /\ DOMAIN <<c>> = 1 .. 1 OBVIOUS
  <2>2. Lists(<<c>>, {c}) BY <2>1 DEF Lists
  <2>3. CallsIn(Q[p]) = <<c>> OBVIOUS
  <2> QED BY <1>3, <2>2, <2>3
<1>5. ASSUME NEW p1 \in DOMAIN Q, NEW p2 \in DOMAIN Q, p1 # p2 PROVE D[p1] \cap D[p2] = {}
  BY <1>1, <1>5 DEF Lists
<1>6. ASSUME NEW p1 \in DOMAIN Q, NEW p2 \in DOMAIN Q, p1 <= p2,
             NEW t1 \in D[p1], NEW t2 \in D[p2]
      PROVE  Rank(t1) <= Rank(t2)
  <2>1. t1 \in Place(m) /\ t2 \in Place(m) /\ s[p1] = CallAt(m, t1) /\ s[p2] = CallAt(m, t2)
    BY <1>1
  <2>2. CASE p1 = p2
    <3>1. t1 = t2 BY <2>1, <2>2, CallInjective
    <3> QED BY <2>1, <3>1, RankType
  <2>3. CASE p1 < p2 BY <1>1, <2>1, <2>3 DEF Sorted
  <2> QED BY <1>2, <1>6, <2>2, <2>3
<1>7. UNION {D[p] : p \in DOMAIN Q} = T
  <2>1. ASSUME NEW t \in T PROVE \E p \in DOMAIN Q : t \in D[p]
    <3>1. CallAt(m, t) \in CallsAt(m, T) BY DEF CallsAt
    <3>2. PICK p \in DOMAIN s : s[p] = CallAt(m, t) BY <1>1, <3>1 DEF Lists
    <3> QED BY <3>2
  <2> QED BY <2>1
<1> HIDE DEF D
<1>8. Runs(m, I, Q, UNION {D[p] : p \in DOMAIN Q}) BY <1>3, <1>4, <1>5, <1>6, RunsOfLists
<1> QED BY <1>7, <1>8

-----------------------------------------------------------------------------
(* Sequences laid out in a longer one: the j-th element of s is the element at
   place[j] of the sequence part[j], in order. *)

Laid(ss, s, part, place) ==
    /\ \A j \in DOMAIN s :
            /\ part[j] \in DOMAIN ss /\ place[j] \in DOMAIN ss[part[j]]
            /\ s[j] = ss[part[j]][place[j]]
    /\ \A i \in DOMAIN ss : \A k \in DOMAIN ss[i] :
            \E j \in DOMAIN s : part[j] = i /\ place[j] = k
    /\ \A j1, j2 \in DOMAIN s :
            j1 < j2 <=> \/ part[j1] < part[j2]
                        \/ part[j1] = part[j2] /\ place[j1] < place[j2]

LEMMA FlattenIsLaid ==
    ASSUME NEW S, NEW ss \in Seq(Seq(S))
    PROVE  /\ FlattenSeq(ss) \in Seq(S)
           /\ \E part, place : Laid(ss, FlattenSeq(ss), part, place)
<1> DEFINE L == Len(ss)
           s == FlattenSeq(ss)
<1>1. /\ L \in Nat /\ DOMAIN ss = 1 .. L
      /\ \A i \in 1 .. L : Len(ss[i]) \in Nat /\ DOMAIN ss[i] = 1 .. Len(ss[i])
  BY LenProperties, ElementOfSeq
<1>2. s \in Seq(S) BY FlattenSeqIsFlat
<1>3. PICK start : Flat(ss, s, start, L) BY FlattenSeqIsFlat
<1> HIDE DEF s, L
<1>4. DOMAIN s = 1 .. Len(s) /\ Len(s) \in Nat /\ L = Len(ss) BY <1>2, LenProperties DEF L
<1>5. /\ \A i1 \in 1 .. L : \A i2 \in i1 + 1 .. L : start[i1] <= start[i2 - 1]
      /\ \A j \in 1 .. Len(s) : \E i \in 1 .. L : \E k \in 1 .. Len(ss[i]) : j = start[i - 1] + k
  <2>1. ss \in Seq(Seq(S)) OBVIOUS
  <2>3. Flat(ss, s, start, Len(ss)) BY <1>3, <1>4
  <2>4. Apart(ss, start) /\ Filled(ss, s, start) BY <1>2, <2>1, <2>3, FlatPlaces
  <2> QED BY <1>4, <2>4 DEF Apart, Filled
<1>6. /\ start \in [0 .. L -> Nat] /\ \A i \in 1 .. L : start[i] = start[i - 1] + Len(ss[i])
      /\ \A i \in 1 .. L : \A k \in 1 .. Len(ss[i]) :
            start[i - 1] + k \in 1 .. Len(s) /\ s[start[i - 1] + k] = ss[i][k]
  BY <1>3 DEF Flat
<1>7. ASSUME NEW i1 \in 1 .. L, NEW i2 \in 1 .. L,
             NEW k1 \in 1 .. Len(ss[i1]), NEW k2 \in 1 .. Len(ss[i2])
      PROVE  start[i1 - 1] + k1 < start[i2 - 1] + k2 <=> i1 < i2 \/ (i1 = i2 /\ k1 < k2)
  <2>1. /\ i1 - 1 \in 0 .. L /\ i2 - 1 \in 0 .. L /\ Len(ss[i1]) \in Nat /\ Len(ss[i2]) \in Nat
        /\ start[i1 - 1] \in Nat /\ start[i2 - 1] \in Nat
        /\ start[i1] = start[i1 - 1] + Len(ss[i1]) /\ start[i2] = start[i2 - 1] + Len(ss[i2])
        /\ k1 \in Nat /\ k2 \in Nat /\ k1 <= Len(ss[i1]) /\ k2 <= Len(ss[i2]) /\ 1 <= k1 /\ 1 <= k2
    BY <1>1, <1>6
  <2> DEFINE a1 == start[i1 - 1]
             a2 == start[i2 - 1]
             d1 == start[i1]
             d2 == start[i2]
             l1 == Len(ss[i1])
             l2 == Len(ss[i2])
  <2>5. /\ a1 \in Nat /\ a2 \in Nat /\ l1 \in Nat /\ l2 \in Nat /\ d1 = a1 + l1 /\ d2 = a2 + l2
        /\ k1 \in Nat /\ k2 \in Nat /\ k1 <= l1 /\ k2 <= l2 /\ 1 <= k1 /\ 1 <= k2
    BY <2>1
  <2>2. CASE i1 < i2
    <3>1. i2 \in i1 + 1 .. L BY <1>1, <2>2
    <3>2. d1 <= a2 BY <1>5, <3>1
    <3>3. a1 + k1 < a2 + k2
      <4> HIDE DEF a1, a2, d1, d2, l1, l2
      <4> QED BY <2>5, <3>2
    <3> QED BY <2>2, <3>3
  <2>3. CASE i2 < i1
    <3>1. i1 \in i2 + 1 .. L BY <1>1, <2>3
    <3>2. d2 <= a1 BY <1>5, <3>1
    <3>3. ~(a1 + k1 < a2 + k2)
      <4> HIDE DEF a1, a2, d1, d2, l1, l2
      <4> QED BY <2>5, <3>2
    <3>4. ~(i1 < i2) /\ i1 # i2 BY <1>1, <2>3
    <3> QED BY <3>3, <3>4
  <2>4. CASE i1 = i2
    <3>1. start[i1 - 1] = start[i2 - 1] /\ start[i1 - 1] \in Nat BY <2>1, <2>4
    <3>2. k1 \in Nat /\ k2 \in Nat OBVIOUS
    <3>3. start[i1 - 1] + k1 < start[i2 - 1] + k2 <=> k1 < k2 BY <3>1, <3>2
    <3> QED BY <1>1, <2>4, <3>3
  <2> QED BY <1>1, <2>2, <2>3, <2>4
<1> DEFINE At1(j, i) == i \in 1 .. L /\ \E k \in 1 .. Len(ss[i]) : j = start[i - 1] + k
           part == [j \in DOMAIN s |-> CHOOSE i : At1(j, i)]
           place == [j \in DOMAIN s |-> j - start[part[j] - 1]]
<1>8. ASSUME NEW j \in DOMAIN s
      PROVE  /\ part[j] \in 1 .. L /\ place[j] \in 1 .. Len(ss[part[j]])
             /\ j = start[part[j] - 1] + place[j]
  <2>1. \E i : At1(j, i)
    <3>1. j \in 1 .. Len(s) BY <1>4
    <3> QED BY <1>5, <3>1, Zenon
  <2>2. At1(j, part[j])
    <3> HIDE DEF At1
    <3> QED BY <2>1
  <2> HIDE DEF part
  <2>3. PICK k \in 1 .. Len(ss[part[j]]) : j = start[part[j] - 1] + k BY <2>2
  <2>4. part[j] \in 1 .. L BY <2>2
  <2>5. part[j] - 1 \in 0 .. L /\ Len(ss[part[j]]) \in Nat BY <1>1, <2>4
  <2>6. start[part[j] - 1] \in Nat BY <1>6, <2>5
  <2>7. j - start[part[j] - 1] = k BY <2>3, <2>5, <2>6
  <2>8. place[j] = k BY <2>7
  <2> QED BY <2>3, <2>4, <2>8
<1> HIDE DEF At1, part, place
<1>9. ASSUME NEW i \in 1 .. L, NEW k \in 1 .. Len(ss[i])
      PROVE  \E j \in DOMAIN s : part[j] = i /\ place[j] = k
  <2> DEFINE j == start[i - 1] + k
  <2>1. j \in DOMAIN s BY <1>4, <1>6
  <2>2. /\ part[j] \in 1 .. L /\ place[j] \in 1 .. Len(ss[part[j]])
        /\ j = start[part[j] - 1] + place[j]
    BY <1>8, <2>1
  <2>3. ~(start[i - 1] + k < start[part[j] - 1] + place[j])
        /\ ~(start[part[j] - 1] + place[j] < start[i - 1] + k)
    <3>1. j \in Nat BY <1>4, <2>1
    <3> QED BY <2>2, <3>1
  <2> HIDE DEF j
  <2>4. ~(i < part[j] \/ (i = part[j] /\ k < place[j]))
        /\ ~(part[j] < i \/ (part[j] = i /\ place[j] < k))
    BY <1>7, <2>2, <2>3
  <2>5. part[j] \in Nat /\ i \in Nat BY <1>1, <2>2
  <2>6. place[j] \in Nat /\ k \in Nat
    <3>1. Len(ss[part[j]]) \in Nat BY <1>1, <2>2
    <3> QED BY <2>2, <3>1
  <2>7. part[j] = i BY <2>4, <2>5
  <2>8. place[j] = k BY <2>4, <2>5, <2>6, <2>7
  <2> QED BY <2>1, <2>7, <2>8
<1>10. ASSUME NEW j1 \in DOMAIN s, NEW j2 \in DOMAIN s
       PROVE  j1 < j2 <=> \/ part[j1] < part[j2]
                          \/ part[j1] = part[j2] /\ place[j1] < place[j2]
  <2>1. /\ part[j1] \in 1 .. L /\ place[j1] \in 1 .. Len(ss[part[j1]])
        /\ part[j2] \in 1 .. L /\ place[j2] \in 1 .. Len(ss[part[j2]])
    BY <1>8
  <2>2. start[part[j1] - 1] + place[j1] < start[part[j2] - 1] + place[j2]
          <=> part[j1] < part[j2] \/ (part[j1] = part[j2] /\ place[j1] < place[j2])
    BY <1>7, <2>1, Zenon
  <2>3. j1 = start[part[j1] - 1] + place[j1] /\ j2 = start[part[j2] - 1] + place[j2] BY <1>8
  <2> QED BY <2>2, <2>3, Zenon
<1>11. ASSUME NEW j \in DOMAIN s
       PROVE  /\ part[j] \in DOMAIN ss /\ place[j] \in DOMAIN ss[part[j]]
              /\ s[j] = ss[part[j]][place[j]]
  <2>1. part[j] \in 1 .. L /\ place[j] \in 1 .. Len(ss[part[j]]) /\ j = start[part[j] - 1] + place[j]
    BY <1>8, Zenon
  <2>2. part[j] \in DOMAIN ss /\ place[j] \in DOMAIN ss[part[j]] BY ONLY <1>1, <2>1, Zenon
  <2>3. s[start[part[j] - 1] + place[j]] = ss[part[j]][place[j]] BY ONLY <1>6, <2>1, Zenon
  <2> QED BY ONLY <2>1, <2>2, <2>3
<1>12. \A i \in DOMAIN ss : \A k \in DOMAIN ss[i] :
            \E j \in DOMAIN s : part[j] = i /\ place[j] = k
  <2> SUFFICES ASSUME NEW i \in DOMAIN ss, NEW k \in DOMAIN ss[i]
               PROVE  \E j \in DOMAIN s : part[j] = i /\ place[j] = k
    OBVIOUS
  <2>1. i \in 1 .. L BY ONLY <1>1, i \in DOMAIN ss
  <2>2. k \in 1 .. Len(ss[i]) BY ONLY <1>1, <2>1, k \in DOMAIN ss[i]
  <2> QED BY ONLY <1>9, <2>1, <2>2, Zenon
<1>13. Laid(ss, s, part, place) BY <1>10, <1>11, <1>12, Zenon DEF Laid
<1> QED BY <1>2, <1>13 DEF s

LEMMA ConcatIsLaid ==
    ASSUME NEW S, NEW a \in Seq(S), NEW b \in Seq(S)
    PROVE  /\ a \o b \in Seq(S)
           /\ \E part, place : Laid(<<a, b>>, a \o b, part, place)
<1>1. /\ Len(a) \in Nat /\ DOMAIN a = 1 .. Len(a)
      /\ Len(b) \in Nat /\ DOMAIN b = 1 .. Len(b)
  BY LenProperties
<1>2. /\ a \o b \in Seq(S) /\ DOMAIN (a \o b) = 1 .. Len(a) + Len(b)
      /\ \A i \in 1 .. Len(a) + Len(b) :
            (a \o b)[i] = IF i <= Len(a) THEN a[i] ELSE b[i - Len(a)]
  BY ConcatProperties, LenProperties
<1> DEFINE s == a \o b
           part == [j \in DOMAIN s |-> IF j <= Len(a) THEN 1 ELSE 2]
           place == [j \in DOMAIN s |-> IF j <= Len(a) THEN j ELSE j - Len(a)]
           ss == <<a, b>>
<1>3. DOMAIN ss = 1 .. 2 /\ ss[1] = a /\ ss[2] = b OBVIOUS
<1>4. s = a \o b OBVIOUS
<1> HIDE DEF s, ss
<1>5. \A j \in DOMAIN s : /\ part[j] = IF j <= Len(a) THEN 1 ELSE 2
                          /\ place[j] = IF j <= Len(a) THEN j ELSE j - Len(a)
  OBVIOUS
<1> HIDE DEF part, place
<1>6. ASSUME NEW j \in DOMAIN s
      PROVE  /\ part[j] \in DOMAIN ss /\ place[j] \in DOMAIN ss[part[j]]
             /\ s[j] = ss[part[j]][place[j]]
  <2>1. CASE j <= Len(a)
    <3>1. part[j] = 1 /\ place[j] = j /\ j \in 1 .. Len(a) BY <1>1, <1>2, <1>4, <1>5, <2>1
    <3> QED BY <1>1, <1>2, <1>3, <1>4, <2>1, <3>1
  <2>2. CASE ~(j <= Len(a))
    <3>1. part[j] = 2 /\ place[j] = j - Len(a) /\ j - Len(a) \in 1 .. Len(b)
      BY <1>1, <1>2, <1>4, <1>5, <2>2
    <3> QED BY <1>1, <1>2, <1>3, <1>4, <2>2, <3>1
  <2> QED BY <2>1, <2>2
<1>7. ASSUME NEW i \in DOMAIN ss, NEW k \in DOMAIN ss[i]
      PROVE  \E j \in DOMAIN s : part[j] = i /\ place[j] = k
  <2>1. CASE i = 1
    <3>1. k \in DOMAIN s /\ k <= Len(a) BY <1>1, <1>2, <1>3, <1>4, <2>1
    <3> QED BY <1>5, <2>1, <3>1
  <2>2. CASE i = 2
    <3>1. /\ k + Len(a) \in DOMAIN s /\ ~(k + Len(a) <= Len(a))
          /\ (k + Len(a)) - Len(a) = k
      BY <1>1, <1>2, <1>3, <1>4, <2>2
    <3> QED BY <1>5, <2>2, <3>1
  <2> QED BY <1>3, <2>1, <2>2
<1>8. \A j1, j2 \in DOMAIN s :
            j1 < j2 <=> \/ part[j1] < part[j2]
                        \/ part[j1] = part[j2] /\ place[j1] < place[j2]
  BY <1>1, <1>2, <1>4, <1>5
<1>9. Laid(ss, s, part, place) BY <1>6, <1>7, <1>8 DEF Laid
<1> QED BY <1>2, <1>9 DEF s, ss

\* What a sequence made of sequences makes, if none of them makes a call of a lower
\* rank than one before it.
LEMMA RunsLaid ==
    ASSUME NEW m, Regular(m), NEW I, NEW ss \in Seq(Seq(I)), NEW s \in Seq(I),
           NEW part, NEW place, Laid(ss, s, part, place), NEW T,
           \A i \in DOMAIN ss : Runs(m, I, ss[i], T[i]),
           \A i1, i2 \in DOMAIN ss : i1 < i2 => Follows(T[i1], T[i2]),
           NEW U, \A t : t \in U <=> \E i \in DOMAIN ss : t \in T[i]
    PROVE  Runs(m, I, s, U)
<1>1. DOMAIN ss = 1 .. Len(ss) /\ DOMAIN s = 1 .. Len(s) /\ Len(ss) \in Nat /\ Len(s) \in Nat
  BY LenProperties
<1>2. \A i \in DOMAIN ss : T[i] \subseteq Place(m) BY DEF Runs
<1>3. \A i \in DOMAIN ss : DOMAIN ss[i] = 1 .. Len(ss[i]) /\ Len(ss[i]) \in Nat
  BY <1>1, LenProperties, ElementOfSeq
<1>4. ASSUME NEW j \in DOMAIN s
      PROVE  /\ part[j] \in DOMAIN ss /\ part[j] \in Nat
             /\ place[j] \in DOMAIN ss[part[j]] /\ place[j] \in Nat
             /\ s[j] = ss[part[j]][place[j]]
  <2>1. /\ part[j] \in DOMAIN ss /\ place[j] \in DOMAIN ss[part[j]]
        /\ s[j] = ss[part[j]][place[j]]
    BY Zenon DEF Laid
  <2> QED BY <1>1, <1>3, <2>1
<1>5. ASSUME NEW j1 \in DOMAIN s, NEW j2 \in DOMAIN s,
             part[j1] = part[j2], place[j1] = place[j2]
      PROVE  j1 = j2
  <2>1. ~(j1 < j2) /\ ~(j2 < j1) BY <1>4, <1>5 DEF Laid
  <2> QED BY <1>1, <2>1
<1>6. ASSUME NEW j \in DOMAIN s, NEW k \in DOMAIN CallsIn(s[j])
      PROVE  CallsIn(s[j])[k] \in CallsAt(m, T[part[j]])
  BY <1>4 DEF Runs, Makes
<1>7. ASSUME NEW j \in DOMAIN s, NEW k \in DOMAIN CallsIn(s[j])
      PROVE  CallsIn(s[j])[k] \in CallsAt(m, U)
  <2>1. PICK t \in T[part[j]] : CallsIn(s[j])[k] = CallAt(m, t) BY <1>6 DEF CallsAt
  <2>2. t \in U BY <1>4
  <2> QED BY <2>1, <2>2 DEF CallsAt
<1>8. ASSUME NEW c \in CallsAt(m, U)
      PROVE  \E j \in DOMAIN s : \E k \in DOMAIN CallsIn(s[j]) : CallsIn(s[j])[k] = c
  <2>1. PICK t \in U : c = CallAt(m, t) BY DEF CallsAt
  <2>2. PICK i \in DOMAIN ss : t \in T[i] OBVIOUS
  <2>3. c \in CallsAt(m, T[i]) BY <2>1, <2>2 DEF CallsAt
  <2>4. Makes(ss[i], CallsAt(m, T[i])) BY DEF Runs
  <2>5. PICK h \in DOMAIN ss[i] : \E k \in DOMAIN CallsIn(ss[i][h]) : CallsIn(ss[i][h])[k] = c
    BY <2>3, <2>4, Zenon DEF Makes
  <2>6. PICK j \in DOMAIN s : part[j] = i /\ place[j] = h
    <3>1. \A g \in DOMAIN ss : \A k \in DOMAIN ss[g] :
              \E j \in DOMAIN s : part[j] = g /\ place[j] = k
      BY Zenon DEF Laid
    <3> QED BY ONLY <2>2, <2>5, <3>1, Zenon
  <2>7. s[j] = ss[i][h] BY <1>4, <2>6
  <2> QED BY <2>5, <2>7
<1>9. ASSUME NEW j1 \in DOMAIN s, NEW j2 \in DOMAIN s, NEW k1 \in DOMAIN CallsIn(s[j1]),
             NEW k2 \in DOMAIN CallsIn(s[j2]), CallsIn(s[j1])[k1] = CallsIn(s[j2])[k2]
      PROVE  j1 = j2 /\ k1 = k2
  <2> DEFINE i1 == part[j1]
             i2 == part[j2]
  <2>1. CallsIn(s[j1])[k1] \in CallsAt(m, T[i1]) /\ CallsIn(s[j1])[k1] \in CallsAt(m, T[i2])
    BY <1>6, <1>9
  <2>2. i1 \in DOMAIN ss /\ i2 \in DOMAIN ss /\ i1 \in Nat /\ i2 \in Nat BY <1>4
  <2>3. i1 = i2
    <3> HIDE DEF i1, i2
    <3>1. CASE i1 < i2
      <4>1. T[i1] \cap T[i2] = {} BY <2>2, <3>1 DEF Follows
      <4> QED BY <1>2, <2>1, <2>2, <4>1, CallsDisjoint
    <3>2. CASE i2 < i1
      <4>1. T[i2] \cap T[i1] = {} BY <2>2, <3>2 DEF Follows
      <4> QED BY <1>2, <2>1, <2>2, <4>1, CallsDisjoint
    <3> QED BY <2>2, <3>1, <3>2
  <2>4. Makes(ss[i1], CallsAt(m, T[i1])) BY <2>2 DEF Runs
  <2>5. /\ place[j1] \in DOMAIN ss[i1] /\ place[j2] \in DOMAIN ss[i1]
        /\ s[j1] = ss[i1][place[j1]] /\ s[j2] = ss[i1][place[j2]]
    BY <1>4, <2>3
  <2> HIDE DEF i1, i2
  <2>6. place[j1] = place[j2] /\ k1 = k2
    <3> DEFINE Q == ss[i1]
               h1 == place[j1]
               h2 == place[j2]
    <3>1. /\ h1 \in DOMAIN Q /\ h2 \in DOMAIN Q /\ k1 \in DOMAIN CallsIn(Q[h1])
          /\ k2 \in DOMAIN CallsIn(Q[h2]) /\ CallsIn(Q[h1])[k1] = CallsIn(Q[h2])[k2]
      BY <1>9, <2>5
    <3>2. Makes(Q, CallsAt(m, T[i1])) BY <2>4
    <3> HIDE DEF Q, h1, h2
    <3>3. h1 = h2 /\ k1 = k2 BY <3>1, <3>2 DEF Makes
    <3> QED BY <3>3 DEF h1, h2
  <2> QED BY <1>5, <2>3, <2>6 DEF i1, i2
<1>10. Makes(s, CallsAt(m, U)) BY <1>7, <1>8, <1>9 DEF Makes
<1>11. ASSUME NEW j1 \in DOMAIN s, NEW j2 \in DOMAIN s, NEW t1 \in Place(m), NEW t2 \in Place(m),
              j1 <= j2, Has(m, s, j1, t1), Has(m, s, j2, t2)
       PROVE  Rank(t1) <= Rank(t2)
  <2> DEFINE i1 == part[j1]
             i2 == part[j2]
  <2>1. /\ i1 \in DOMAIN ss /\ i2 \in DOMAIN ss /\ i1 \in Nat /\ i2 \in Nat
        /\ place[j1] \in Nat /\ place[j2] \in Nat
        /\ place[j1] \in DOMAIN ss[i1] /\ place[j2] \in DOMAIN ss[i2]
    BY <1>4
  <2>2. Has(m, ss[i1], place[j1], t1) /\ Has(m, ss[i2], place[j2], t2)
    BY <1>4, <1>11 DEF Has
  <2>3. i1 < i2 \/ (i1 = i2 /\ place[j1] <= place[j2])
    <3>1. ~(j2 < j1) BY <1>1, <1>11
    <3>2. ~(i2 < i1 \/ (i2 = i1 /\ place[j2] < place[j1])) BY <3>1, Zenon DEF Laid
    <3> HIDE DEF i1, i2
    <3> QED BY <2>1, <3>2
  <2> HIDE DEF i1, i2
  <2>4. CASE i1 < i2
    <3>1. t1 \in T[i1] /\ t2 \in T[i2] BY <2>1, <2>2, HasPlace
    <3> QED BY <2>1, <2>4, <3>1 DEF Follows
  <2>5. CASE i1 = i2 /\ place[j1] <= place[j2]
    <3>1. Ranked(m, ss[i1]) BY <2>1 DEF Runs
    <3> QED BY <2>1, <2>2, <2>5, <3>1 DEF Ranked
  <2> QED BY <2>3, <2>4, <2>5
<1>12. U \subseteq Place(m) BY <1>2
<1> QED BY <1>10, <1>11, <1>12 DEF Runs, Ranked

-----------------------------------------------------------------------------
(* Waits. *)

\* Every submission is awaited in Q.
Fenced(Q) ==
    \A p \in DOMAIN Q : Q[p].kind = "submit" =>
        \E q \in DOMAIN Q : p < q /\ Q[q].kind = "wait"

\* A wait lies between a submission and a later call of a higher rank.
Separated(m, Q) ==
    \A p1, p2 \in DOMAIN Q : \A t1, t2 \in Place(m) :
        /\ p1 < p2 /\ Q[p1].kind = "submit"
        /\ Has(m, Q, p1, t1) /\ Has(m, Q, p2, t2) /\ Rank(t1) < Rank(t2)
        => \E q \in DOMAIN Q : p1 < q /\ q < p2 /\ Q[q].kind = "wait"

\* A call of the submitting thread comes right behind the wait for its tile.
Guarded(m, Q) ==
    \A p \in DOMAIN Q : Q[p].kind = "call" =>
        /\ p - 1 \in DOMAIN Q
        /\ Q[p - 1] = WaitKey(BlockKey(m, Output(Q[p].call)))

LEMMA LaidFacts ==
    ASSUME NEW I, NEW ss \in Seq(Seq(I)), NEW s \in Seq(I),
           NEW part, NEW place, Laid(ss, s, part, place)
    PROVE  /\ \A j \in DOMAIN s :
                /\ part[j] \in DOMAIN ss /\ part[j] \in Nat
                /\ place[j] \in DOMAIN ss[part[j]] /\ place[j] \in Nat /\ j \in Nat
                /\ s[j] = ss[part[j]][place[j]]
           /\ DOMAIN ss = 1 .. Len(ss) /\ Len(ss) \in Nat
           /\ DOMAIN s = 1 .. Len(s) /\ Len(s) \in Nat
           /\ \A i \in DOMAIN ss : DOMAIN ss[i] = 1 .. Len(ss[i]) /\ Len(ss[i]) \in Nat
<1>1. DOMAIN ss = 1 .. Len(ss) /\ DOMAIN s = 1 .. Len(s) /\ Len(ss) \in Nat /\ Len(s) \in Nat
  BY LenProperties
<1>2. \A i \in DOMAIN ss : DOMAIN ss[i] = 1 .. Len(ss[i]) /\ Len(ss[i]) \in Nat
  BY <1>1, LenProperties, ElementOfSeq
<1>3. ASSUME NEW j \in DOMAIN s
      PROVE  /\ part[j] \in DOMAIN ss /\ part[j] \in Nat
             /\ place[j] \in DOMAIN ss[part[j]] /\ place[j] \in Nat /\ j \in Nat
             /\ s[j] = ss[part[j]][place[j]]
  <2>1. /\ part[j] \in DOMAIN ss /\ place[j] \in DOMAIN ss[part[j]]
        /\ s[j] = ss[part[j]][place[j]]
    BY Zenon DEF Laid
  <2> QED BY <1>1, <1>2, <2>1
<1> QED BY <1>1, <1>2, <1>3

LEMMA FencedLaid ==
    ASSUME NEW I, NEW ss \in Seq(Seq(I)), NEW s \in Seq(I),
           NEW part, NEW place, Laid(ss, s, part, place),
           \A i \in DOMAIN ss : Fenced(ss[i])
    PROVE  Fenced(s)
<1> SUFFICES ASSUME NEW p \in DOMAIN s, s[p].kind = "submit"
             PROVE  \E q \in DOMAIN s : p < q /\ s[q].kind = "wait"
  BY DEF Fenced
<1>1. /\ part[p] \in DOMAIN ss /\ place[p] \in DOMAIN ss[part[p]]
      /\ s[p] = ss[part[p]][place[p]]
  BY Zenon DEF Laid
<1>2. PICK h \in DOMAIN ss[part[p]] : place[p] < h /\ ss[part[p]][h].kind = "wait"
  BY <1>1, Zenon DEF Fenced
<1>3. PICK q \in DOMAIN s : part[q] = part[p] /\ place[q] = h BY <1>1, <1>2, Zenon DEF Laid
<1>4. s[q].kind = "wait"
  <2>1. s[q] = ss[part[q]][place[q]] BY Zenon DEF Laid
  <2> QED BY ONLY <1>2, <1>3, <2>1
<1>5. p < q BY <1>2, <1>3, Zenon DEF Laid
<1> QED BY <1>4, <1>5

LEMMA SeparatedLaid ==
    ASSUME NEW m, Regular(m), NEW I, NEW ss \in Seq(Seq(I)), NEW s \in Seq(I),
           NEW part, NEW place, Laid(ss, s, part, place), NEW T,
           \A i \in DOMAIN ss : Runs(m, I, ss[i], T[i]) /\ Separated(m, ss[i]),
           \A i1, i2 \in DOMAIN ss : i1 < i2 => Fenced(ss[i1]) \/ T[i2] = {}
    PROVE  Separated(m, s)
<1> SUFFICES ASSUME NEW p1 \in DOMAIN s, NEW p2 \in DOMAIN s,
                    NEW t1 \in Place(m), NEW t2 \in Place(m),
                    p1 < p2, s[p1].kind = "submit",
                    Has(m, s, p1, t1), Has(m, s, p2, t2), Rank(t1) < Rank(t2)
             PROVE  \E q \in DOMAIN s : p1 < q /\ q < p2 /\ s[q].kind = "wait"
  BY DEF Separated
<1> DEFINE i1 == part[p1]
           i2 == part[p2]
           h1 == place[p1]
           h2 == place[p2]
<1>1. /\ i1 \in DOMAIN ss /\ h1 \in DOMAIN ss[i1] /\ s[p1] = ss[i1][h1]
      /\ i2 \in DOMAIN ss /\ h2 \in DOMAIN ss[i2] /\ s[p2] = ss[i2][h2]
  <2>1. \A j \in DOMAIN s :
           /\ part[j] \in DOMAIN ss /\ place[j] \in DOMAIN ss[part[j]]
           /\ s[j] = ss[part[j]][place[j]]
    BY Zenon DEF Laid
  <2> QED BY <2>1, Zenon
<1>2. i1 < i2 \/ (i1 = i2 /\ h1 < h2) BY Zenon DEF Laid
<1>3. /\ ss[i1][h1].kind = "submit"
      /\ Has(m, ss[i1], h1, t1) /\ Has(m, ss[i2], h2, t2)
  BY <1>1 DEF Has
<1>4. \E h \in DOMAIN ss[i1] : h1 < h /\ ss[i1][h].kind = "wait" /\ (i1 < i2 \/ h < h2)
  <2> HIDE DEF i1, i2, h1, h2
  <2>1. CASE i1 < i2
    <3>1. t2 \in T[i2] BY <1>1, <1>3, HasPlace
    <3>2. Fenced(ss[i1]) BY <1>1, <2>1, <3>1
    <3> QED BY <1>1, <1>3, <2>1, <3>2, Zenon DEF Fenced
  <2>2. CASE i1 = i2 /\ h1 < h2
    <3>1. Separated(m, ss[i1]) BY <1>1
    <3>2. \E q \in DOMAIN ss[i1] : h1 < q /\ q < h2 /\ ss[i1][q].kind = "wait"
      BY <1>1, <1>3, <2>2, <3>1 DEF Separated
    <3> QED BY <3>2
  <2> QED BY <1>2, <2>1, <2>2
<1>5. PICK h \in DOMAIN ss[i1] : h1 < h /\ ss[i1][h].kind = "wait" /\ (i1 < i2 \/ h < h2)
  BY <1>4
<1>6. PICK q \in DOMAIN s : part[q] = i1 /\ place[q] = h
  <2>1. \A i \in DOMAIN ss : \A k \in DOMAIN ss[i] :
            \E j \in DOMAIN s : part[j] = i /\ place[j] = k
    BY Zenon DEF Laid
  <2>2. i1 \in DOMAIN ss /\ h \in DOMAIN ss[i1] BY <1>1
  <2> HIDE DEF i1
  <2> QED BY ONLY <2>1, <2>2, Zenon
<1>7. s[q].kind = "wait"
  <2>1. s[q] = ss[part[q]][place[q]] BY Zenon DEF Laid
  <2> HIDE DEF i1, i2, h2
  <2> QED BY ONLY <1>5, <1>6, <2>1
<1>8. p1 < q BY <1>5, <1>6, Zenon DEF Laid
<1>9. q < p2
  <2>1. part[q] < part[p2] \/ (part[q] = part[p2] /\ place[q] < place[p2])
    BY <1>2, <1>5, <1>6
  <2> QED BY <2>1, Zenon DEF Laid
<1> QED BY <1>7, <1>8, <1>9

LEMMA GuardedLaid ==
    ASSUME NEW m, NEW I, NEW ss \in Seq(Seq(I)), NEW s \in Seq(I),
           NEW part, NEW place, Laid(ss, s, part, place),
           \A i \in DOMAIN ss : Guarded(m, ss[i])
    PROVE  Guarded(m, s)
<1> SUFFICES ASSUME NEW p \in DOMAIN s, s[p].kind = "call"
             PROVE  /\ p - 1 \in DOMAIN s
                    /\ s[p - 1] = WaitKey(BlockKey(m, Output(s[p].call)))
  BY DEF Guarded
<1> DEFINE i == part[p]
           h == place[p]
<1>1. i \in DOMAIN ss /\ h \in DOMAIN ss[i] /\ s[p] = ss[i][h] BY LaidFacts
<1>2. /\ h - 1 \in DOMAIN ss[i]
      /\ ss[i][h - 1] = WaitKey(BlockKey(m, Output(s[p].call)))
  BY <1>1 DEF Guarded
<1>3. PICK q \in DOMAIN s : part[q] = i /\ place[q] = h - 1 BY <1>1, <1>2, Zenon DEF Laid
<1>4. s[q] = ss[i][h - 1]
  <2>1. s[q] = ss[part[q]][place[q]] BY Zenon DEF Laid
  <2> QED BY ONLY <1>3, <2>1
<1>5. h \in Nat /\ i \in Nat /\ p \in Nat /\ q \in Nat BY LaidFacts
<1>6. q < p BY <1>3, <1>5 DEF Laid
<1>7. ASSUME q # p - 1 PROVE FALSE
  <2>1. p - 1 \in DOMAIN s /\ q < p - 1 /\ p - 1 < p BY <1>5, <1>6, <1>7, LaidFacts
  <2>2. part[p - 1] \in Nat /\ place[p - 1] \in Nat BY <2>1, LaidFacts
  <2>3. part[q] < part[p - 1] \/ (part[q] = part[p - 1] /\ place[q] < place[p - 1])
    BY <2>1, Zenon DEF Laid
  <2>4. part[p - 1] < part[p] \/ (part[p - 1] = part[p] /\ place[p - 1] < place[p])
    BY <2>1, Zenon DEF Laid
  <2> QED BY <1>3, <1>5, <2>2, <2>3, <2>4
<1> QED BY <1>2, <1>3, <1>4, <1>7

\* The same of two sequences, one behind the other.
LEMMA RunsConcat ==
    ASSUME NEW m, Regular(m), NEW I, NEW a, NEW b, NEW S, NEW T,
           Runs(m, I, a, S), Runs(m, I, b, T), Follows(S, T)
    PROVE  Runs(m, I, a \o b, S \cup T)
<1> DEFINE ss == <<a, b>>
           s == a \o b
           U == <<S, T>>
<1>1. a \in Seq(I) /\ b \in Seq(I) BY DEF Runs
<1>2. ss \in Seq(Seq(I)) BY <1>1
<1>3. s \in Seq(I) BY <1>1, ConcatIsLaid
<1>4. PICK part, place : Laid(ss, s, part, place) BY <1>1, ConcatIsLaid
<1>5. /\ DOMAIN ss = {1, 2} /\ ss[1] = a /\ ss[2] = b
      /\ U[1] = S /\ U[2] = T
  OBVIOUS
<1> HIDE DEF ss, s, U
<1>6. \A i \in DOMAIN ss : Runs(m, I, ss[i], U[i]) BY <1>5
<1>7. \A i1, i2 \in DOMAIN ss : i1 < i2 => Follows(U[i1], U[i2]) BY <1>5
<1>8. \A t : t \in S \cup T <=> \E i \in DOMAIN ss : t \in U[i] BY <1>5
<1>9. Runs(m, I, s, S \cup T) BY <1>2, <1>3, <1>4, <1>6, <1>7, <1>8, RunsLaid
<1> QED BY <1>9 DEF s

LEMMA FencedConcat ==
    ASSUME NEW I, NEW a \in Seq(I), NEW b \in Seq(I), Fenced(a), Fenced(b)
    PROVE  Fenced(a \o b)
<1> DEFINE ss == <<a, b>>
           s == a \o b
<1>1. ss \in Seq(Seq(I)) OBVIOUS
<1>2. s \in Seq(I) BY ConcatIsLaid
<1>3. PICK part, place : Laid(ss, s, part, place) BY ConcatIsLaid
<1>4. DOMAIN ss = {1, 2} /\ ss[1] = a /\ ss[2] = b OBVIOUS
<1> HIDE DEF ss, s
<1>5. \A i \in DOMAIN ss : Fenced(ss[i]) BY <1>4
<1>6. Fenced(s) BY <1>1, <1>2, <1>3, <1>5, FencedLaid
<1> QED BY <1>6 DEF s

LEMMA SeparatedConcat ==
    ASSUME NEW m, Regular(m), NEW I, NEW a, NEW b, NEW S, NEW T,
           Runs(m, I, a, S), Runs(m, I, b, T), Separated(m, a), Separated(m, b),
           Fenced(a) \/ T = {}
    PROVE  Separated(m, a \o b)
<1> DEFINE ss == <<a, b>>
           s == a \o b
           U == <<S, T>>
<1>1. a \in Seq(I) /\ b \in Seq(I) BY DEF Runs
<1>2. ss \in Seq(Seq(I)) BY <1>1
<1>3. s \in Seq(I) BY <1>1, ConcatIsLaid
<1>4. PICK part, place : Laid(ss, s, part, place) BY <1>1, ConcatIsLaid
<1>5. /\ DOMAIN ss = {1, 2} /\ ss[1] = a /\ ss[2] = b
      /\ U[1] = S /\ U[2] = T
  OBVIOUS
<1> HIDE DEF ss, s, U
<1>6. \A i \in DOMAIN ss : Runs(m, I, ss[i], U[i]) /\ Separated(m, ss[i]) BY <1>5
<1>7. \A i1, i2 \in DOMAIN ss : i1 < i2 => Fenced(ss[i1]) \/ U[i2] = {} BY <1>5
<1>8. Separated(m, s) BY <1>2, <1>3, <1>4, <1>6, <1>7, SeparatedLaid
<1> QED BY <1>8 DEF s

LEMMA GuardedConcat ==
    ASSUME NEW m, NEW I, NEW a \in Seq(I), NEW b \in Seq(I), Guarded(m, a), Guarded(m, b)
    PROVE  Guarded(m, a \o b)
<1> DEFINE ss == <<a, b>>
           s == a \o b
<1>1. ss \in Seq(Seq(I)) OBVIOUS
<1>2. s \in Seq(I) BY ConcatIsLaid
<1>3. PICK part, place : Laid(ss, s, part, place) BY ConcatIsLaid
<1>4. DOMAIN ss = {1, 2} /\ ss[1] = a /\ ss[2] = b OBVIOUS
<1> HIDE DEF ss, s
<1>5. \A i \in DOMAIN ss : Guarded(m, ss[i]) BY <1>4
<1>6. Guarded(m, s) BY <1>1, <1>2, <1>3, <1>5, GuardedLaid
<1> QED BY <1>6 DEF s

\* A wait at the end.
LEMMA AwaitIsFenced ==
    ASSUME NEW I, NEW Q \in Seq(I), Wait \in I
    PROVE  Fenced(Q \o <<Wait>>)
<1> DEFINE s == Q \o <<Wait>>
           L == Len(Q)
<1>1. L \in Nat BY LenProperties
<1>2. <<Wait>> \in Seq(I) /\ Len(<<Wait>>) = 1 /\ <<Wait>>[1] = Wait OBVIOUS
<1>3. /\ DOMAIN s = 1 .. L + 1
      /\ \A i \in 1 .. L + 1 : s[i] = IF i <= L THEN Q[i] ELSE <<Wait>>[i - L]
  BY <1>2, ConcatProperties, LenProperties
<1> HIDE DEF s, L
<1>4. s[L + 1] = Wait /\ L + 1 \in DOMAIN s
  <2>1. (L + 1) - L = 1 /\ ~(L + 1 <= L) /\ L + 1 \in 1 .. L + 1 BY <1>1
  <2> QED BY <1>2, <1>3, <2>1
<1>5. ASSUME NEW p \in DOMAIN s, s[p].kind = "submit"
      PROVE  p < L + 1
  <2>1. s[L + 1].kind = "wait" BY <1>4, CallsInAre
  <2>2. p # L + 1 BY <1>5, <2>1
  <2> QED BY <1>1, <1>3, <2>2
<1>6. s[L + 1].kind = "wait" BY <1>4, CallsInAre
<1>7. Fenced(s) BY <1>4, <1>5, <1>6 DEF Fenced
<1> QED BY <1>7 DEF s

\* A sequence that makes no call.
LEMMA RunsNothing ==
    ASSUME NEW m, NEW I, NEW Q \in Seq(I), \A p \in DOMAIN Q : CallsIn(Q[p]) = <<>>
    PROVE  Runs(m, I, Q, {}) /\ Separated(m, Q)
<1>1. \A p \in DOMAIN Q : DOMAIN CallsIn(Q[p]) = {} OBVIOUS
<1>2. CallsAt(m, {}) = {} BY DEF CallsAt
<1>3. \A p \in DOMAIN Q : \A t \in Place(m) : ~Has(m, Q, p, t) BY <1>1 DEF Has, ToSet
<1>4. Makes(Q, CallsAt(m, {})) BY <1>1, <1>2 DEF Makes
<1>5. Ranked(m, Q) /\ Separated(m, Q) BY <1>3 DEF Ranked, Separated
<1> QED BY <1>4, <1>5 DEF Runs

-----------------------------------------------------------------------------
(* The panels of a program. *)

LEMMA RanksFollow ==
    ASSUME NEW m, NEW S, NEW T, S \subseteq Place(m), T \subseteq Place(m), RanksBelow(S, T)
    PROVE  Follows(S, T)
<1>1. S \cap T = {} BY BelowMeansDisjoint
<1>2. \A s \in S, t \in T : Rank(s) <= Rank(t) BY RankType DEF RanksBelow
<1> QED BY <1>1, <1>2 DEF Follows

LEMMA FunctionIsSeq ==
    ASSUME NEW S, NEW n \in Nat, NEW f \in [1 .. n -> S]
    PROVE  f \in Seq(S) /\ Len(f) = n
BY SeqDef

LEMMA PanelsRun ==
    ASSUME NEW m, Regular(m), NEW I, NEW ss,
           ss = [i \in 1 .. Blocks(m) |-> ss[i]],
           \A i \in 1 .. Blocks(m) : Runs(m, I, ss[i], PanelPlaces(m, i - 1))
    PROVE  /\ Runs(m, I, FlattenSeq(ss), Place(m))
           /\ (\A i \in 1 .. Blocks(m) : Fenced(ss[i]) /\ Separated(m, ss[i]))
                => Fenced(FlattenSeq(ss)) /\ Separated(m, FlattenSeq(ss))
           /\ (\A i \in 1 .. Blocks(m) : Guarded(m, ss[i])) => Guarded(m, FlattenSeq(ss))
<1> DEFINE s == FlattenSeq(ss)
           N == Blocks(m)
           T == [i \in 1 .. N |-> PanelPlaces(m, i - 1)]
<1>1. N \in Nat BY BlocksOf
<1>2. \A i \in 1 .. N : ss[i] \in Seq(I) BY DEF Runs
<1>3. ss \in Seq(Seq(I))
  <2> DEFINE J == Seq(I)
  <2>1. ss \in [1 .. N -> J] BY <1>2
  <2> HIDE DEF N, J
  <2>2. ss \in Seq(J) BY <1>1, <2>1, FunctionIsSeq, Zenon
  <2> QED BY <2>2 DEF J
<1>4. DOMAIN ss = 1 .. N OBVIOUS
<1>5. s \in Seq(I) BY <1>3, FlattenIsLaid
<1>6. PICK part, place : Laid(ss, s, part, place) BY <1>3, FlattenIsLaid
<1> HIDE DEF s
<1>7. \A i \in DOMAIN ss : Runs(m, I, ss[i], T[i]) BY <1>4
<1>8. ASSUME NEW i1 \in DOMAIN ss, NEW i2 \in DOMAIN ss, i1 < i2 PROVE Follows(T[i1], T[i2])
  <2>1. RanksBelow(T[i1], T[i2]) BY <1>4, <1>8, PanelsAreOrdered
  <2>2. T[i1] \subseteq Place(m) /\ T[i2] \subseteq Place(m) BY <1>4 DEF PanelPlaces
  <2> HIDE DEF T
  <2> QED BY <2>1, <2>2, RanksFollow
<1>9. \A t : t \in Place(m) <=> \E i \in DOMAIN ss : t \in T[i]
  <2>1. UNION {PanelPlaces(m, i - 1) : i \in 1 .. N} = Place(m) BY PanelsAreOrdered
  <2> QED BY <1>4, <2>1
<1> HIDE DEF T
<1>10. Runs(m, I, s, Place(m)) BY <1>3, <1>5, <1>6, <1>7, <1>8, <1>9, RunsLaid
<1>11. ASSUME \A i \in 1 .. N : Fenced(ss[i]) /\ Separated(m, ss[i])
       PROVE  Fenced(s) /\ Separated(m, s)
  <2>1. \A i \in DOMAIN ss : Fenced(ss[i]) BY <1>4, <1>11
  <2>2. Fenced(s) BY <1>3, <1>5, <1>6, <2>1, FencedLaid
  <2>3. \A i \in DOMAIN ss : Runs(m, I, ss[i], T[i]) /\ Separated(m, ss[i])
    BY <1>4, <1>7, <1>11
  <2>4. Separated(m, s) BY <1>3, <1>5, <1>6, <2>1, <2>3, SeparatedLaid
  <2> QED BY <2>2, <2>4
<1>12. ASSUME \A i \in 1 .. N : Guarded(m, ss[i]) PROVE Guarded(m, s)
  <2>1. \A i \in DOMAIN ss : Guarded(m, ss[i]) BY <1>4, <1>12
  <2> QED BY <1>3, <1>5, <1>6, <2>1, GuardedLaid
<1> QED BY <1>10, <1>11, <1>12 DEF s

-----------------------------------------------------------------------------
(* The serial program and the phases. *)

PhaseSubmits(m) == {Submit(calls, {}, NoKey) : calls \in Seq(CallsAt(m, Place(m))) \ {<<>>}}
PhaseInstr(m) == {Inline(CallAt(m, t)) : t \in Place(m)} \cup PhaseSubmits(m) \cup {Wait}

LEMMA OneRankSeparated ==
    ASSUME NEW m, Regular(m), NEW I, NEW Q, NEW T, Runs(m, I, Q, T),
           \A t1, t2 \in T : Rank(t1) <= Rank(t2)
    PROVE  Separated(m, Q)
<1> SUFFICES ASSUME NEW p1 \in DOMAIN Q, NEW p2 \in DOMAIN Q,
                    NEW t1 \in Place(m), NEW t2 \in Place(m),
                    Has(m, Q, p1, t1), Has(m, Q, p2, t2), Rank(t1) < Rank(t2)
             PROVE  FALSE
  BY DEF Separated
<1>1. t1 \in T /\ t2 \in T BY HasPlace
<1> QED BY <1>1, RankType

LEMMA CallsAreSubmittedNever ==
    ASSUME NEW m, NEW Q, \A p \in DOMAIN Q : Q[p].kind # "submit"
    PROVE  Fenced(Q) /\ Separated(m, Q)
BY DEF Fenced, Separated

LEMMA SerialPanelRuns ==
    ASSUME NEW m, Regular(m), NEW p \in Index(m)
    PROVE  /\ Runs(m, PhaseInstr(m), SerialPanel(m, p * m.b), PanelPlaces(m, p))
           /\ Fenced(SerialPanel(m, p * m.b)) /\ Separated(m, SerialPanel(m, p * m.b))
<1> DEFINE s == PanelCalls(m.n, m.b, p * m.b)
           Q == SerialPanel(m, p * m.b)
           I == PhaseInstr(m)
<1>1. InOrder(m, s, PanelPlaces(m, p)) BY PanelInOrder
<1>2. Q = [c \in DOMAIN s |-> Inline(s[c])] BY DEF SerialPanel, OneByOne
<1> HIDE DEF s, Q
<1>3. DOMAIN s = 1 .. Len(s) /\ Len(s) \in Nat /\ \A k \in 1 .. Len(s) : s[k] \in CallsAt(m, PanelPlaces(m, p))
  BY <1>1, ListFacts DEF InOrder
<1>4. ASSUME NEW k \in DOMAIN s PROVE Inline(s[k]) \in I
  <2>1. PICK t \in PanelPlaces(m, p) : s[k] = CallAt(m, t) BY <1>3 DEF CallsAt
  <2> QED BY <2>1 DEF PanelPlaces, PhaseInstr
<1> HIDE DEF I
<1>5. Q \in Seq(I)
  <2>1. Q \in [1 .. Len(s) -> I] BY <1>2, <1>3, <1>4
  <2> QED BY <1>3, <2>1, SeqDef
<1>6. DOMAIN Q = DOMAIN s /\ \A k \in DOMAIN Q : CallsIn(Q[k]) = <<s[k]>> /\ Q[k].kind # "submit"
  BY <1>2, CallsInAre
<1>7. Runs(m, I, Q, PanelPlaces(m, p)) BY <1>1, <1>5, <1>6, RunsOneByOne
<1>8. Fenced(Q) /\ Separated(m, Q) BY <1>6, CallsAreSubmittedNever
<1> QED BY <1>7, <1>8 DEF I, Q

\* A submission for every call.
LEMMA PlainSubmitsRun ==
    ASSUME NEW m, Regular(m), NEW s, NEW T, InOrder(m, s, T)
    PROVE  Runs(m, PhaseInstr(m), OneByOne(s, PlainSubmit), T)
<1> DEFINE Q == OneByOne(s, PlainSubmit)
           I == PhaseInstr(m)
<1>1. Q = [c \in DOMAIN s |-> PlainSubmit(s[c])] BY DEF OneByOne
<1> HIDE DEF Q
<1>2. /\ DOMAIN s = 1 .. Len(s) /\ Len(s) \in Nat /\ T \subseteq Place(m)
      /\ \A k \in 1 .. Len(s) : s[k] \in CallsAt(m, T)
  BY ListFacts DEF InOrder
<1>3. ASSUME NEW k \in DOMAIN s PROVE PlainSubmit(s[k]) \in I
  <2>1. s[k] \in CallsAt(m, Place(m)) BY <1>2 DEF CallsAt
  <2>2. <<s[k]>> \in Seq(CallsAt(m, Place(m))) \ {<<>>} BY <2>1
  <2> QED BY <2>2 DEF PlainSubmit, PhaseInstr, PhaseSubmits
<1> HIDE DEF I
<1>4. Q \in Seq(I)
  <2>1. Q \in [1 .. Len(s) -> I] BY <1>1, <1>2, <1>3
  <2> QED BY <1>2, <2>1, SeqDef
<1>5. DOMAIN Q = DOMAIN s /\ \A k \in DOMAIN Q : CallsIn(Q[k]) = <<s[k]>>
  BY <1>1, CallsInAre DEF PlainSubmit
<1>6. Runs(m, I, Q, T) BY <1>4, <1>5, RunsOneByOne
<1> QED BY <1>6 DEF I, Q

LEMMA PhasedPanelRuns ==
    ASSUME NEW m, Regular(m), NEW p \in Index(m),
           Runs(m, PhaseInstr(m), TrsmPhase(m, p * m.b), TrsmPlaces(m, p)),
           Runs(m, PhaseInstr(m), MaddPhase(m, p * m.b), MaddPlaces(m, p))
    PROVE  /\ Runs(m, PhaseInstr(m), PhasedPanel(m, p * m.b), PanelPlaces(m, p))
           /\ Fenced(PhasedPanel(m, p * m.b)) /\ Separated(m, PhasedPanel(m, p * m.b))
<1> DEFINE I == PhaseInstr(m)
           C == {Diagonal(p)}
           T == TrsmPlaces(m, p)
           M == MaddPlaces(m, p)
           chol == <<Inline(CholeskyCall(m.n, p * m.b))>>
           trsm == TrsmPhase(m, p * m.b)
           madd == MaddPhase(m, p * m.b)
           wait == <<Wait>>
<1>1. C \subseteq Place(m) /\ T \subseteq Place(m) /\ M \subseteq Place(m)
  BY DiagonalPlace DEF TrsmPlaces, MaddPlaces
<1>2. /\ \A t \in C : Rank(t) = 3 * p
      /\ \A t \in T : Rank(t) = 3 * p + 1
      /\ \A t \in M : Rank(t) = 3 * p + 2
      /\ p \in Nat
  BY <1>1, Ranks, BlocksOf DEF Index
<1>3. PhasedPanel(m, p * m.b) = (((chol \o trsm) \o wait) \o madd) \o wait BY DEF PhasedPanel
<1>4. (C \cup T) \cup M = PanelPlaces(m, p)
  BY PlaceTypes, DiagonalPlace DEF Diagonal, TrsmPlaces, MaddPlaces, PanelPlaces
<1>5. Wait \in I /\ wait \in Seq(I) /\ Runs(m, I, wait, {}) /\ Separated(m, wait)
  <2>1. Wait \in I BY DEF PhaseInstr
  <2> HIDE DEF I
  <2>2. wait \in Seq(I) /\ DOMAIN wait = {1} /\ wait[1] = Wait BY <2>1
  <2>3. \A q \in DOMAIN wait : CallsIn(wait[q]) = <<>> BY <2>2, CallsInAre
  <2> HIDE DEF wait
  <2> QED BY <2>1, <2>2, <2>3, RunsNothing
<1>6. Runs(m, I, chol, C) /\ Fenced(chol) /\ Separated(m, chol)
  <2> DEFINE call == CholeskyCall(m.n, p * m.b)
  <2>1. InOrder(m, <<call>>, C) BY PanelInOrder
  <2>2. Inline(call) \in I BY DiagonalPlace DEF PhaseInstr
  <2> HIDE DEF I, call
  <2>3. chol \in Seq(I) /\ DOMAIN chol = DOMAIN <<call>> /\ DOMAIN chol = {1} /\ chol[1] = Inline(call)
        /\ <<call>>[1] = call
    BY <2>2 DEF call
  <2>4. \A q \in DOMAIN chol : CallsIn(chol[q]) = <<<<call>>[q]>> /\ chol[q].kind # "submit"
    BY <2>3, CallsInAre
  <2> HIDE DEF chol, C
  <2>5. Runs(m, I, chol, C) BY <2>1, <2>3, <2>4, RunsOneByOne
  <2>6. Fenced(chol) /\ Separated(m, chol) BY <2>4, CallsAreSubmittedNever
  <2> QED BY <2>5, <2>6
<1>7. /\ Runs(m, I, trsm, T) /\ Separated(m, trsm)
      /\ Runs(m, I, madd, M) /\ Separated(m, madd)
  BY <1>2, OneRankSeparated
<1>8. Follows(C, T) /\ Follows(C \cup T, M)
  <2> HIDE DEF C, T, M
  <2>1. RanksBelow(C, T) /\ RanksBelow(C \cup T, M) BY <1>2 DEF RanksBelow
  <2>2. C \cup T \subseteq Place(m) BY <1>1
  <2> QED BY <1>1, <2>1, <2>2, RanksFollow
<1>9. \A S : Follows(S, {}) /\ S \cup {} = S BY DEF Follows
<1> HIDE DEF I, C, T, M, chol, trsm, madd, wait
<1> DEFINE a == chol \o trsm
           b == a \o wait
           c == b \o madd
           d == c \o wait
<1>10. Runs(m, I, a, C \cup T) /\ Separated(m, a)
  BY <1>6, <1>7, <1>8, RunsConcat, SeparatedConcat
<1> HIDE DEF a
<1>11. Runs(m, I, b, C \cup T) /\ Separated(m, b) /\ Fenced(b)
  <2>1. Runs(m, I, b, (C \cup T) \cup {}) BY <1>5, <1>9, <1>10, RunsConcat
  <2>2. Separated(m, b) BY <1>5, <1>10, SeparatedConcat
  <2>3. a \in Seq(I) BY <1>10 DEF Runs
  <2>4. Fenced(b) BY <1>5, <2>3, AwaitIsFenced DEF wait
  <2> QED BY <1>9, <2>1, <2>2, <2>4
<1> HIDE DEF b
<1>12. Runs(m, I, c, (C \cup T) \cup M) /\ Separated(m, c)
  BY <1>7, <1>8, <1>11, RunsConcat, SeparatedConcat
<1> HIDE DEF c
<1>13. Runs(m, I, d, (C \cup T) \cup M) /\ Separated(m, d) /\ Fenced(d)
  <2>1. Runs(m, I, d, ((C \cup T) \cup M) \cup {}) BY <1>5, <1>9, <1>12, RunsConcat
  <2>2. Separated(m, d) BY <1>5, <1>12, SeparatedConcat
  <2>3. c \in Seq(I) BY <1>12 DEF Runs
  <2>4. Fenced(d) BY <1>5, <2>3, AwaitIsFenced DEF wait
  <2> QED BY <1>9, <2>1, <2>2, <2>4
<1>14. PhasedPanel(m, p * m.b) = d BY <1>3 DEF a, b, c
<1> HIDE DEF d
<1> QED BY <1>4, <1>13, <1>14 DEF I

-----------------------------------------------------------------------------
(* Behind the panels. *)

Programs == {"serial", "phases", "sync", "task"}
Ends == {Wait, ZeroInstr, ReturnInstr}

LEMMA ConcatIs ==
    ASSUME NEW S, NEW a \in Seq(S), NEW b \in Seq(S), NEW c \in Seq(S),
           Len(c) = Len(a) + Len(b),
           \A i \in 1 .. Len(a) : c[i] = a[i],
           \A i \in 1 .. Len(b) : c[Len(a) + i] = b[i]
    PROVE  a \o b = c
<1>1. Len(a) \in Nat /\ Len(b) \in Nat BY LenProperties
<1>2. /\ a \o b \in Seq(S) /\ Len(a \o b) = Len(a) + Len(b)
      /\ \A i \in 1 .. Len(a) + Len(b) :
            (a \o b)[i] = IF i <= Len(a) THEN a[i] ELSE b[i - Len(a)]
  BY ConcatProperties
<1>3. ASSUME NEW i \in 1 .. Len(a) + Len(b) PROVE (a \o b)[i] = c[i]
  <2>1. CASE i <= Len(a) BY <1>1, <1>2, <2>1
  <2>2. CASE ~(i <= Len(a))
    <3>1. i - Len(a) \in 1 .. Len(b) /\ Len(a) + (i - Len(a)) = i BY <1>1, <2>2
    <3> QED BY <1>2, <2>2, <3>1
  <2> QED BY <2>1, <2>2
<1> QED BY <1>2, <1>3, SeqEqual

LEMMA TupleAndOne ==
    ASSUME NEW x, NEW y, NEW z
    PROVE  /\ <<x>> \o <<z>> = <<x, z>>
           /\ <<x, y>> \o <<z>> = <<x, y, z>>
<1> DEFINE S == {x, y, z}
           b == <<z>>
<1>1. b \in Seq(S) /\ Len(b) = 1 /\ b[1] = z OBVIOUS
<1>2. <<x>> \o <<z>> = <<x, z>>
  <2> DEFINE a == <<x>>
             c == <<x, z>>
  <2>1. /\ a \in Seq(S) /\ Len(a) = 1 /\ a[1] = x
        /\ c \in Seq(S) /\ Len(c) = 2 /\ c[1] = x /\ c[2] = z
    OBVIOUS
  <2> HIDE DEF S, a, b, c
  <2>2. Len(c) = Len(a) + Len(b) BY <1>1, <2>1
  <2>3. \A i \in 1 .. Len(a) : c[i] = a[i] BY <2>1
  <2>4. \A i \in 1 .. Len(b) : c[Len(a) + i] = b[i] BY <1>1, <2>1
  <2>5. a \o b = c BY <1>1, <2>1, <2>2, <2>3, <2>4, ConcatIs
  <2> QED BY <2>5 DEF a, b, c
<1>3. <<x, y>> \o <<z>> = <<x, y, z>>
  <2> DEFINE a == <<x, y>>
             c == <<x, y, z>>
  <2>1. /\ a \in Seq(S) /\ Len(a) = 2 /\ a[1] = x /\ a[2] = y
        /\ c \in Seq(S) /\ Len(c) = 3 /\ c[1] = x /\ c[2] = y /\ c[3] = z
    OBVIOUS
  <2> HIDE DEF S, a, b, c
  <2>2. Len(c) = Len(a) + Len(b) BY <1>1, <2>1
  <2>3. \A i \in 1 .. Len(a) : c[i] = a[i] BY <2>1
  <2>4. \A i \in 1 .. Len(b) : c[Len(a) + i] = b[i] BY <1>1, <2>1
  <2>5. a \o b = c BY <1>1, <2>1, <2>2, <2>3, <2>4, ConcatIs
  <2> QED BY <2>5 DEF a, b, c
<1> QED BY <1>2, <1>3

LEMMA TripleAndOne ==
    ASSUME NEW w, NEW x, NEW y, NEW z
    PROVE  <<w, x, y>> \o <<z>> = <<w, x, y, z>>
<1> DEFINE S == {w, x, y, z}
           b == <<z>>
<1>1. b \in Seq(S) /\ Len(b) = 1 /\ b[1] = z OBVIOUS
<1>2. <<w, x, y>> \o <<z>> = <<w, x, y, z>>
  <2> DEFINE a == <<w, x, y>>
             c == <<w, x, y, z>>
  <2>1. /\ a \in Seq(S) /\ Len(a) = 3 /\ a[1] = w /\ a[2] = x /\ a[3] = y
        /\ c \in Seq(S) /\ Len(c) = 4 /\ c[1] = w /\ c[2] = x /\ c[3] = y /\ c[4] = z
    OBVIOUS
  <2> HIDE DEF S, a, b, c
  <2>2. Len(c) = Len(a) + Len(b) BY <1>1, <2>1
  <2>3. \A i \in 1 .. Len(a) : c[i] = a[i] BY <2>1
  <2>4. \A i \in 1 .. Len(b) : c[Len(a) + i] = b[i] BY <1>1, <2>1
  <2>5. a \o b = c BY <1>1, <2>1, <2>2, <2>3, <2>4, ConcatIs
  <2> QED BY <2>5 DEF a, b, c
<1> QED BY <1>2

LEMMA AfterPanelsAre ==
    /\ AfterPanels("serial") = <<ZeroInstr, ReturnInstr>>
    /\ AfterPanels("phases") = <<ZeroInstr, Wait, ReturnInstr>>
    /\ AfterPanels("sync") = <<Wait, ZeroInstr, Wait, ReturnInstr>>
    /\ AfterPanels("task") = <<Wait, ZeroInstr, Wait, ReturnInstr>>
<1> DEFINE Z == ZeroInstr
           R == ReturnInstr
           W == Wait
<1>1. AfterPanels("serial") = ((<<>> \o <<Z>>) \o <<>>) \o <<R>>
  BY DEF AfterPanels, ZeroInstr, ReturnInstr
<1>2. AfterPanels("phases") = ((<<>> \o <<Z>>) \o <<W>>) \o <<R>>
  BY DEF AfterPanels, ZeroInstr, ReturnInstr
<1>3. AfterPanels("sync") = ((<<W>> \o <<Z>>) \o <<W>>) \o <<R>>
  BY DEF AfterPanels, ZeroInstr, ReturnInstr
<1>4. AfterPanels("task") = ((<<W>> \o <<Z>>) \o <<W>>) \o <<R>>
  BY DEF AfterPanels, ZeroInstr, ReturnInstr
<1> HIDE DEF Z, R, W
<1>5. <<>> \o <<Z>> = <<Z>> /\ <<Z>> \o <<>> = <<Z>> OBVIOUS
<1>6. <<Z>> \o <<R>> = <<Z, R>> /\ <<Z>> \o <<W>> = <<Z, W>> /\ <<W>> \o <<Z>> = <<W, Z>>
  BY TupleAndOne
<1>7. <<Z, W>> \o <<R>> = <<Z, W, R>> /\ <<W, Z>> \o <<W>> = <<W, Z, W>>
  BY TupleAndOne
<1>8. <<W, Z, W>> \o <<R>> = <<W, Z, W, R>>
  BY TripleAndOne, Zenon
<1>9. /\ AfterPanels("serial") = <<Z, R>>
      /\ AfterPanels("phases") = <<Z, W, R>>
      /\ AfterPanels("sync") = <<W, Z, W, R>>
      /\ AfterPanels("task") = <<W, Z, W, R>>
  BY <1>1, <1>2, <1>3, <1>4, <1>5, <1>6, <1>7, <1>8, Zenon
<1> QED BY <1>9 DEF Z, R, W

\* The index of the instruction in the tail that clears the upper triangle.
ZeroAt(program) == IF program \in {"sync", "task"} THEN 2 ELSE 1

LEMMA TailFacts ==
    ASSUME NEW program \in Programs
    PROVE  LET tail == AfterPanels(program)
               z == ZeroAt(program)
           IN /\ tail \in Seq(Ends) /\ Len(tail) \in Nat /\ DOMAIN tail = 1 .. Len(tail)
              /\ z \in {1, 2} /\ z < Len(tail)
              /\ tail[z].kind = "zero" /\ tail[Len(tail)].kind = "return"
              /\ \A q \in 1 .. Len(tail) : q # z /\ q # Len(tail) => tail[q].kind = "wait"
              /\ program \in {"sync", "task"} => z = 2
              /\ program \notin {"sync", "task"} => z = 1
<1>1. Wait.kind = "wait" /\ ZeroInstr.kind = "zero" /\ ReturnInstr.kind = "return" BY CallsInAre
<1> DEFINE Z == ZeroInstr
           R == ReturnInstr
           W == Wait
<1>2. Ends = {W, Z, R} BY DEF Ends
<1>3. /\ AfterPanels("serial") = <<Z, R>>
      /\ AfterPanels("phases") = <<Z, W, R>>
      /\ AfterPanels("sync") = <<W, Z, W, R>>
      /\ AfterPanels("task") = <<W, Z, W, R>>
  BY AfterPanelsAre
<1>4. W.kind = "wait" /\ Z.kind = "zero" /\ R.kind = "return" BY <1>1
<1> HIDE DEF Z, R, W
<1>5. CASE program = "serial"
  <2> DEFINE t == <<Z, R>>
  <2>1. /\ t \in Seq(Ends) /\ Len(t) = 2 /\ DOMAIN t = 1 .. 2
        /\ t[1] = Z /\ t[2] = R
    BY <1>2
  <2>2. AfterPanels(program) = t BY <1>3, <1>5
  <2>3. ZeroAt(program) = 1 BY <1>5 DEF ZeroAt
  <2> HIDE DEF t
  <2> QED BY <1>4, <1>5, <2>1, <2>2, <2>3
<1>6. CASE program = "phases"
  <2> DEFINE t == <<Z, W, R>>
  <2>1. /\ t \in Seq(Ends) /\ Len(t) = 3 /\ DOMAIN t = 1 .. 3
        /\ t[1] = Z /\ t[2] = W /\ t[3] = R
    BY <1>2
  <2>2. AfterPanels(program) = t BY <1>3, <1>6
  <2>3. ZeroAt(program) = 1 BY <1>6 DEF ZeroAt
  <2> HIDE DEF t
  <2>4. \A q \in 1 .. Len(t) : q # 1 /\ q # Len(t) => t[q].kind = "wait" BY <1>4, <2>1
  <2>5. /\ Len(t) \in Nat /\ DOMAIN t = 1 .. Len(t) /\ 1 < Len(t)
        /\ t[1].kind = "zero" /\ t[Len(t)].kind = "return"
    BY ONLY <1>4, <2>1
  <2>6. program \notin {"sync", "task"} BY <1>6
  <2> QED BY ONLY <2>1, <2>2, <2>3, <2>4, <2>5, <2>6
<1>7. CASE program = "sync"
  <2> DEFINE t == <<W, Z, W, R>>
  <2>1. /\ t \in Seq(Ends) /\ Len(t) = 4 /\ DOMAIN t = 1 .. 4
        /\ t[1] = W /\ t[2] = Z /\ t[3] = W /\ t[4] = R
    BY <1>2
  <2>2. AfterPanels(program) = t BY <1>3, <1>7
  <2>3. ZeroAt(program) = 2 BY <1>7 DEF ZeroAt
  <2> HIDE DEF t
  <2>4. \A q \in 1 .. 4 : q # 2 /\ q # 4 => t[q].kind = "wait"
    <3>1. \A q \in 1 .. 4 : q # 2 /\ q # 4 => q = 1 \/ q = 3 OBVIOUS
    <3> QED BY <1>4, <2>1, <3>1
  <2>5. 4 \in Nat /\ 2 \in {1, 2} /\ 2 < 4 OBVIOUS
  <2>6. t[2].kind = "zero" /\ t[4].kind = "return" BY <1>4, <2>1
  <2> HIDE DEF Ends
  <2> QED BY <1>7, <2>1, <2>2, <2>3, <2>4, <2>5, <2>6, Zenon
<1>8. CASE program = "task"
  <2> DEFINE t == <<W, Z, W, R>>
  <2>1. /\ t \in Seq(Ends) /\ Len(t) = 4 /\ DOMAIN t = 1 .. 4
        /\ t[1] = W /\ t[2] = Z /\ t[3] = W /\ t[4] = R
    BY <1>2
  <2>2. AfterPanels(program) = t BY <1>3, <1>8
  <2>3. ZeroAt(program) = 2 BY <1>8 DEF ZeroAt
  <2> HIDE DEF t
  <2>4. \A q \in 1 .. 4 : q # 2 /\ q # 4 => t[q].kind = "wait"
    <3>1. \A q \in 1 .. 4 : q # 2 /\ q # 4 => q = 1 \/ q = 3 OBVIOUS
    <3> QED BY <1>4, <2>1, <3>1
  <2>5. 4 \in Nat /\ 2 \in {1, 2} /\ 2 < 4 OBVIOUS
  <2>6. t[2].kind = "zero" /\ t[4].kind = "return" BY <1>4, <2>1
  <2> HIDE DEF Ends
  <2> QED BY <1>8, <2>1, <2>2, <2>3, <2>4, <2>5, <2>6, Zenon
<1> QED BY <1>5, <1>6, <1>7, <1>8 DEF Programs

LEMMA ProgramEnds ==
    ASSUME NEW m, Regular(m), NEW I, NEW body, Runs(m, I, body, Place(m)),
           \A i \in I : i.kind \in {"call", "submit", "wait", "wait_key"},
           NEW program \in Programs, program \in {"sync", "task"} \/ Fenced(body)
    PROVE  LET P == body \o AfterPanels(program) IN
           /\ Runs(m, I \cup Ends, P, Place(m))
           /\ EndsInOrder(P)
           /\ IsSequence(P)
           /\ Separated(m, body) => Separated(m, P)
           /\ Guarded(m, body) => Guarded(m, P)
<1> DEFINE tail == AfterPanels(program)
           z == ZeroAt(program)
           P == body \o tail
           J == I \cup Ends
           L == Len(body)
           M == Len(tail)
           zero == L + z
<1>1. /\ tail \in Seq(Ends) /\ M \in Nat /\ DOMAIN tail = 1 .. M
      /\ z \in {1, 2} /\ z < M
      /\ tail[z].kind = "zero" /\ tail[M].kind = "return"
      /\ \A q \in 1 .. M : q # z /\ q # M => tail[q].kind = "wait"
      /\ program \in {"sync", "task"} => z = 2
      /\ program \notin {"sync", "task"} => z = 1
  BY TailFacts
<1>2. body \in Seq(I) BY DEF Runs
<1>3. L \in Nat /\ DOMAIN body = 1 .. L /\ \A p \in 1 .. L : body[p] \in I
  BY <1>2, LenProperties, ElementOfSeq
<1>4. body \in Seq(J) /\ tail \in Seq(J) BY <1>1, <1>2, SeqMonotonic, Zenon
<1>5. /\ P \in Seq(J) /\ Len(P) = L + M /\ DOMAIN P = 1 .. L + M
      /\ \A p \in 1 .. L + M : P[p] = IF p <= L THEN body[p] ELSE tail[p - L]
  BY <1>4, ConcatProperties, LenProperties
<1>6. Runs(m, J, body, Place(m)) BY <1>4 DEF Runs
<1>7. \A p \in DOMAIN tail : CallsIn(tail[p]) = <<>> /\ tail[p].kind \notin {"call", "submit"}
  <2>1. \A p \in DOMAIN tail : tail[p] \in Ends BY <1>1, ElementOfSeq
  <2> QED BY <2>1, CallsInAre DEF Ends
<1> HIDE DEF tail, z, P, J, L, M
<1>8. Runs(m, J, tail, {}) /\ Separated(m, tail) BY <1>4, <1>7, RunsNothing
<1>9. Runs(m, J, P, Place(m))
  <2>1. Follows(Place(m), {}) /\ Place(m) \cup {} = Place(m) BY DEF Follows
  <2>2. Runs(m, J, body \o tail, Place(m) \cup {}) BY <1>6, <1>8, <2>1, RunsConcat
  <2> QED BY <2>1, <2>2 DEF P
<1>10. Separated(m, body) => Separated(m, P) BY <1>6, <1>8, SeparatedConcat DEF P
<1>11. Guarded(m, body) => Guarded(m, P)
  <2>1. Guarded(m, tail) BY <1>7 DEF Guarded
  <2> QED BY <1>4, <2>1, GuardedConcat DEF P
<1>12. IsSequence(P)
  <2>1. L + M \in Nat \ {0} BY <1>1, <1>3
  <2> QED BY <1>5, <2>1 DEF IsSequence
<1>13. /\ zero \in DOMAIN P /\ zero < Len(P) /\ zero \in Nat
       /\ \A p \in 1 .. L : P[p] = body[p] /\ p \in 1 .. zero - 1
       /\ \A q \in 1 .. M : P[L + q] = tail[q] /\ L + q \in DOMAIN P
  <2>1. zero \in DOMAIN P /\ zero < Len(P) /\ zero \in Nat BY <1>1, <1>3, <1>5
  <2>2. \A p \in 1 .. L : P[p] = body[p] /\ p \in 1 .. zero - 1 BY <1>1, <1>3, <1>5
  <2>3. ASSUME NEW q \in 1 .. M PROVE P[L + q] = tail[q] /\ L + q \in DOMAIN P
    <3>1. L + q \in 1 .. L + M /\ ~(L + q <= L) /\ (L + q) - L = q BY <1>1, <1>3
    <3> QED BY <1>5, <3>1
  <2> QED BY <2>1, <2>2, <2>3
<1>14. EndsInOrder(P)
  <2>1. P[zero].kind = "zero" BY <1>1, <1>13
  <2>2. P[Len(P)].kind = "return" BY <1>1, <1>5, <1>13
  <2>3. ASSUME NEW p \in zero + 1 .. Len(P) - 1 PROVE P[p].kind = "wait"
    <3>1. /\ p - L \in 1 .. M /\ p - L # z /\ p - L # M /\ L + (p - L) = p
      BY <1>1, <1>3, <1>5
    <3> QED BY <1>1, <1>13, <3>1
  <2>4. ASSUME NEW p \in 1 .. zero - 1
        PROVE  p \in 1 .. L \/ (p = L + 1 /\ z = 2 /\ P[p].kind = "wait")
    <3>1. CASE p <= L BY <1>3, <3>1
    <3>2. CASE ~(p <= L)
      <4>1. p = L + 1 /\ z = 2 /\ 1 \in 1 .. M /\ 1 # z /\ 1 # M BY <1>1, <1>3, <3>2
      <4> QED BY <1>1, <1>13, <4>1
    <3> QED BY <3>1, <3>2
  <2>5. \A p \in 1 .. zero - 1 : P[p].kind \in {"call", "submit", "wait", "wait_key"}
    BY <1>3, <1>13, <2>4
  <2>6. ASSUME NEW p \in 1 .. zero - 1, P[p].kind = "submit"
        PROVE  \E q \in p + 1 .. zero - 1 : P[q].kind = "wait"
    <3>1. p \in 1 .. L /\ P[p] = body[p] BY <1>13, <2>4, <2>6
    <3>2. CASE program \in {"sync", "task"}
      <4>1. z = 2 /\ 1 \in 1 .. M /\ 1 # z /\ 1 # M BY <1>1, <3>2
      <4>2. P[L + 1].kind = "wait" BY <1>1, <1>13, <4>1
      <4>3. L + 1 \in p + 1 .. zero - 1 BY <1>3, <3>1, <4>1
      <4> QED BY <4>2, <4>3
    <3>3. CASE Fenced(body)
      <4>1. PICK q \in DOMAIN body : p < q /\ body[q].kind = "wait"
        BY <1>3, <2>6, <3>1, <3>3 DEF Fenced
      <4>2. q \in 1 .. L /\ q \in p + 1 .. zero - 1 BY <1>1, <1>3, <4>1
      <4>3. P[q].kind = "wait" BY <1>13, <4>1, <4>2
      <4> QED BY <4>2, <4>3
    <3> QED BY <3>2, <3>3
  <2> HIDE DEF zero
  <2> QED BY <1>13, <2>1, <2>2, <2>3, <2>5, <2>6 DEF EndsInOrder
<1> QED BY <1>9, <1>10, <1>11, <1>12, <1>14 DEF P, J, tail

-----------------------------------------------------------------------------
(* Sources. *)

\* What a call uses has a lower rank, and is one of its operands.
LEMMA SourcesAre ==
    ASSUME NEW m, NEW t \in Place(m), NEW s \in Sources(m, t)
    PROVE  /\ s \in Place(m) /\ Rank(s) < Rank(t)
           /\ \/ s.panel = t.panel - 1 /\ s.col = t.col /\ s.row = t.row
              \/ s.panel = t.panel /\ s.col = t.panel /\ s.row \in {t.row, t.col}
           /\ Output(CallAt(m, s)) \in Operands(CallAt(m, t))
<1>1. s \in Place(m) BY DEF Sources
<1>2. \/ s.panel = t.panel - 1 /\ s.col = t.col /\ s.row = t.row
      \/ s # t /\ s.panel = t.panel /\ s.col = t.panel /\ s.row \in {t.row, t.col}
  BY DEF Sources
<1>3. /\ s = [panel |-> s.panel, col |-> s.col, row |-> s.row]
      /\ t = [panel |-> t.panel, col |-> t.col, row |-> t.row]
      /\ s.panel \in Nat /\ s.col \in Nat /\ s.row \in Nat /\ s.col <= s.row /\ s.panel <= s.col
      /\ t.panel \in Nat /\ t.col \in Nat /\ t.row \in Nat /\ t.col <= t.row /\ t.panel <= t.col
  BY <1>1, PlaceTypes
<1>4. Rank(s) < Rank(t)
  <2>1. CASE s.panel = t.panel - 1 /\ s.col = t.col /\ s.row = t.row BY <1>3, <2>1 DEF Rank
  <2>2. CASE s # t /\ s.panel = t.panel /\ s.col = t.panel /\ s.row \in {t.row, t.col}
    <3>1. CASE t.col # t.panel BY <1>3, <2>2, <3>1 DEF Rank
    <3>2. CASE t.col = t.panel
      <4>1. s.row # t.row BY <1>3, <2>2, <3>2
      <4> QED BY <1>3, <2>2, <3>2, <4>1 DEF Rank
    <3> QED BY <3>1, <3>2
  <2> QED BY <1>2, <2>1, <2>2
<1>5. Output(CallAt(m, s)) = TileAt(m, s.row, s.col) BY <1>1, CallOperands
<1>6. Operands(CallAt(m, t)) =
        {TileAt(m, t.row, t.col), TileAt(m, t.row, t.panel), TileAt(m, t.col, t.panel)}
  BY CallOperands
<1> QED BY <1>1, <1>2, <1>4, <1>5, <1>6

\* An instruction with a call is a call or a submission.
LEMMA MakerKind ==
    ASSUME NEW m, NEW Q, NEW p \in DOMAIN Q, NEW t, Has(m, Q, p, t)
    PROVE  \/ Q[p].kind = "call" /\ Q[p].call = CallAt(m, t)
           \/ Q[p].kind = "submit" /\ CallAt(m, t) \in ToSet(Q[p].calls)
<1>1. CASE Q[p].kind = "call"
  <2>1. CallsIn(Q[p]) = <<Q[p].call>> BY <1>1, Zenon DEF CallsIn
  <2> QED BY <1>1, <2>1 DEF Has, ToSet
<1>2. CASE Q[p].kind = "submit"
  <2>1. CallsIn(Q[p]) = Q[p].calls BY <1>2, Zenon DEF CallsIn
  <2> QED BY <1>2, <2>1 DEF Has
<1>3. CASE Q[p].kind \notin {"call", "submit"}
  <2>1. CallsIn(Q[p]) = <<>> BY <1>3, Zenon DEF CallsIn
  <2> QED BY <2>1 DEF Has, ToSet
<1> QED BY <1>1, <1>2, <1>3

LEMMA SourceIsBefore ==
    ASSUME NEW m, NEW Q, Ranked(m, Q), DOMAIN Q = 1 .. Len(Q), Len(Q) \in Nat,
           NEW t \in Place(m), NEW s \in Sources(m, t), NEW p \in DOMAIN Q, NEW w \in DOMAIN Q,
           Has(m, Q, p, t), Has(m, Q, w, s)
    PROVE  w \in 1 .. p - 1
<1>1. s \in Place(m) /\ Rank(s) < Rank(t) BY SourcesAre
<1>2. ~(p <= w) BY <1>1, RankType DEF Ranked
<1> QED BY <1>2

LEMMA PhaseInstrKinds ==
    ASSUME NEW m, NEW i \in PhaseInstr(m)
    PROVE  /\ i.kind \in {"call", "submit", "wait"}
           /\ i.kind = "submit" => i.deps = {} /\ i.output = NoKey /\ IsSequence(i.calls)
<1>1. CASE i \in {Inline(CallAt(m, t)) : t \in Place(m)} BY <1>1, CallsInAre
<1>2. CASE i \in PhaseSubmits(m)
  <2>1. PICK calls \in Seq(CallsAt(m, Place(m))) \ {<<>>} : i = Submit(calls, {}, NoKey)
    BY <1>2 DEF PhaseSubmits
  <2>2. i.kind = "submit" /\ i.deps = {} /\ i.output = NoKey /\ i.calls = calls BY <2>1, CallsInAre
  <2>3. Len(calls) \in Nat /\ DOMAIN calls = 1 .. Len(calls) /\ Len(calls) # 0
    BY LenProperties, EmptySeq
  <2>4. IsSequence(calls) BY <2>3 DEF IsSequence
  <2> QED BY <2>2, <2>4
<1>3. CASE i = Wait BY <1>3, CallsInAre
<1> QED BY <1>1, <1>2, <1>3 DEF PhaseInstr

LEMMA PhaseProgramSound ==
    ASSUME NEW m, Regular(m), NEW body, NEW program \in Programs,
           Runs(m, PhaseInstr(m), body, Place(m)), Fenced(body), Separated(m, body)
    PROVE  Sound(m, body \o AfterPanels(program))
<1> DEFINE P == body \o AfterPanels(program)
           J == PhaseInstr(m) \cup Ends
<1>1. \A i \in PhaseInstr(m) : i.kind \in {"call", "submit", "wait", "wait_key"}
  BY PhaseInstrKinds
<1>2. Runs(m, J, P, Place(m)) /\ EndsInOrder(P) /\ IsSequence(P) /\ Separated(m, P)
  BY <1>1, ProgramEnds
<1> HIDE DEF P
<1>3. DOMAIN P = 1 .. Len(P) /\ Len(P) \in Nat BY <1>2 DEF IsSequence
<1>4. ASSUME NEW p \in DOMAIN P
      PROVE  /\ P[p].kind # "wait_key"
             /\ P[p].kind = "submit" =>
                    P[p].deps = {} /\ P[p].output = NoKey /\ IsSequence(P[p].calls)
  <2>1. P[p] \in J
    <3>1. P \in Seq(J) BY <1>2 DEF Runs
    <3> HIDE DEF J
    <3> QED BY <1>3, <3>1, ElementOfSeq
  <2>2. CASE P[p] \in PhaseInstr(m) BY <2>2, PhaseInstrKinds
  <2>3. CASE P[p] \in Ends BY <2>3, CallsInAre DEF Ends
  <2> QED BY <2>1, <2>2, <2>3
<1>5. WellFormed(P) BY <1>2, <1>4 DEF WellFormed
<1>6. Makes(P, CallsAt(m, Place(m))) BY <1>2 DEF Runs
<1>7. KeysAreSound(m, P) BY <1>4 DEF KeysAreSound
<1>8. SourcesPrecede(m, P)
  <2> SUFFICES ASSUME NEW t \in Place(m), NEW s \in Sources(m, t),
                      NEW p \in DOMAIN P, NEW w \in DOMAIN P, Has(m, P, p, t), Has(m, P, w, s)
               PROVE  Precedes(P, w, p)
    BY DEF SourcesPrecede, Has
  <2>1. w \in 1 .. p - 1 BY <1>2, <1>3, SourceIsBefore DEF Runs
  <2>2. s \in Place(m) /\ Rank(s) < Rank(t) BY SourcesAre
  <2>3. CASE P[w].kind = "call" BY <2>1, <2>3 DEF Precedes
  <2>4. CASE P[w].kind = "submit"
    <3>1. w < p BY <1>3, <2>1
    <3>2. PICK q \in DOMAIN P : w < q /\ q < p /\ P[q].kind = "wait"
      BY <1>2, <2>2, <2>4, <3>1 DEF Separated
    <3>3. q \in w + 1 .. p - 1 BY <1>3, <3>2
    <3> QED BY <2>1, <3>2, <3>3 DEF Precedes
  <2> QED BY <2>3, <2>4, MakerKind
<1>9. Sound(m, P) BY <1>2, <1>5, <1>6, <1>7, <1>8 DEF Sound
<1> QED BY <1>9 DEF P

-----------------------------------------------------------------------------
(* Graphs across the panels. *)

Keys(m) == 0 .. Blocks(m) * Blocks(m) - 1
KeyAt(m, row, col) == BlockKey(m, TileAt(m, row, col))

KeyedSubmits(m) == {DagSubmit(m, CallAt(m, t)) : t \in Place(m)}
KeyedInstr(m) ==
    {Inline(CallAt(m, Diagonal(p))) : p \in Index(m)} \cup KeyedSubmits(m)
        \cup {WaitKey(key) : key \in Keys(m)}

\* A task lists the keys of all its operands and writes the key of its tile.
LEMMA DagSubmitIs ==
    ASSUME NEW m, Regular(m), NEW t \in Place(m)
    PROVE  LET i == DagSubmit(m, CallAt(m, t)) IN
           /\ i.kind = "submit" /\ i.calls = <<CallAt(m, t)>> /\ CallsIn(i) = <<CallAt(m, t)>>
           /\ i.output = KeyAt(m, t.row, t.col)
           /\ i.deps = {KeyAt(m, t.row, t.col), KeyAt(m, t.row, t.panel),
                        KeyAt(m, t.col, t.panel)}
<1> DEFINE c == CallAt(m, t)
           i == DagSubmit(m, c)
           deps == {BlockKey(m, c.args[a]) : a \in DependencyArgs(c.op)}
<1>1. t.panel \in Nat /\ t.col \in Nat /\ t.row \in Nat /\ t.panel <= t.col /\ t.col <= t.row
  BY PlaceTypes
<1>2. /\ i.kind = "submit" /\ i.calls = <<c>> /\ CallsIn(i) = <<c>>
      /\ i.output = BlockKey(m, Output(c)) /\ i.deps = deps
  BY CallsInAre DEF DagSubmit
<1>3. Output(c) = TileAt(m, t.row, t.col) BY CallOperands
<1>4. deps = {KeyAt(m, t.row, t.col), KeyAt(m, t.row, t.panel), KeyAt(m, t.col, t.panel)}
  <2>1. CASE t.panel = t.row
    <3>1. c = [op |-> "cholesky",
               args |-> <<TileAt(m, t.panel, t.panel), TileAt(m, t.panel, t.panel)>>]
      BY <2>1 DEF CallAt, CholeskyCall, TileAt
    <3>2. t.col = t.panel /\ t.row = t.panel BY <1>1, <2>1
    <3>3. DependencyArgs(c.op) = {1} BY <3>1 DEF DependencyArgs
    <3> QED BY <3>1, <3>2, <3>3 DEF KeyAt
  <2>2. CASE t.panel # t.row /\ t.panel = t.col
    <3>1. c = [op |-> "trsm",
              args |-> <<TileAt(m, t.row, t.panel), TileAt(m, t.panel, t.panel),
                         TileAt(m, t.row, t.panel)>>]
      BY <2>2 DEF CallAt, TrsmCall, TileAt
    <3>2. DependencyArgs(c.op) = {1, 2} BY <3>1 DEF DependencyArgs
    <3> QED BY <2>2, <3>1, <3>2 DEF KeyAt
  <2>3. CASE t.panel # t.row /\ t.panel # t.col
    <3>1. c = [op |-> "madd",
              args |-> <<TileAt(m, t.row, t.panel), TileAt(m, t.col, t.panel),
                         TileAt(m, t.row, t.col)>>]
      BY <2>3 DEF CallAt, MaddCall, TileAt
    <3>2. DependencyArgs(c.op) = {1, 2, 3} BY <3>1 DEF DependencyArgs
    <3> QED BY <2>3, <3>1, <3>2 DEF KeyAt
  <2> QED BY <2>1, <2>2, <2>3
<1> HIDE DEF c, i, deps
<1>5. BlockKey(m, Output(c)) = KeyAt(m, t.row, t.col) BY <1>3 DEF KeyAt
<1> QED BY <1>2, <1>4, <1>5 DEF i, c

LEMMA KeyFacts ==
    ASSUME NEW m, Regular(m)
    PROVE  /\ \A r, c \in Index(m) : KeyAt(m, r, c) \in Keys(m) /\ KeyAt(m, r, c) # NoKey
           /\ \A r1, c1, r2, c2 \in Index(m) :
                KeyAt(m, r1, c1) = KeyAt(m, r2, c2) => r1 = r2 /\ c1 = c2
<1>1. \A r, c \in Index(m) : KeyAt(m, r, c) \in Keys(m) BY KeyOfTile DEF KeyAt, Keys
<1>2. \A k \in Keys(m) : k # NoKey
  <2>1. Blocks(m) * Blocks(m) \in Nat BY BlocksOf
  <2> QED BY <2>1 DEF Keys, NoKey
<1>3. \A r1, c1, r2, c2 \in Index(m) :
            KeyAt(m, r1, c1) = KeyAt(m, r2, c2) => r1 = r2 /\ c1 = c2
  BY KeyInjective DEF KeyAt
<1> QED BY <1>1, <1>2, <1>3

\* Between the call that wrote an operand and the one that uses it, no other call
\* writes that tile.
LEMMA NoWriterBetween ==
    ASSUME NEW m, Regular(m), NEW Q, Ranked(m, Q), Makes(Q, CallsAt(m, Place(m))),
           DOMAIN Q = 1 .. Len(Q), Len(Q) \in Nat,
           NEW t \in Place(m), NEW s \in Sources(m, t), NEW u \in Place(m),
           u.row = s.row, u.col = s.col,
           NEW p \in DOMAIN Q, NEW w \in DOMAIN Q, NEW q \in DOMAIN Q,
           Has(m, Q, p, t), Has(m, Q, w, s), Has(m, Q, q, u), w < q, q < p
    PROVE  FALSE
<1>1. s \in Place(m) BY SourcesAre
<1>2. Rank(s) <= Rank(u) /\ Rank(u) <= Rank(t) BY <1>1 DEF Ranked
<1>3. ASSUME NEW t1 \in Place(m), NEW t2 \in Place(m), t1 = t2,
             NEW p1 \in DOMAIN Q, NEW p2 \in DOMAIN Q, Has(m, Q, p1, t1), Has(m, Q, p2, t2)
      PROVE  p1 = p2
  <2>1. PICK i1 \in DOMAIN CallsIn(Q[p1]) : CallsIn(Q[p1])[i1] = CallAt(m, t1)
    BY <1>3 DEF Has, ToSet
  <2>2. PICK i2 \in DOMAIN CallsIn(Q[p2]) : CallsIn(Q[p2])[i2] = CallAt(m, t2)
    BY <1>3 DEF Has, ToSet
  <2> QED BY <1>3, <2>1, <2>2 DEF Makes
<1>4. u # s /\ u # t
  <2>1. w # q /\ q # p OBVIOUS
  <2> QED BY <1>1, <1>3, <2>1
<1>5. /\ u = [panel |-> u.panel, col |-> u.col, row |-> u.row]
      /\ s = [panel |-> s.panel, col |-> s.col, row |-> s.row]
      /\ t = [panel |-> t.panel, col |-> t.col, row |-> t.row]
      /\ u.panel \in Nat /\ u.col \in Nat /\ u.row \in Nat /\ u.panel <= u.col
      /\ s.panel \in Nat /\ s.col \in Nat /\ s.row \in Nat
      /\ t.panel \in Nat /\ t.col \in Nat /\ t.row \in Nat
  BY <1>1, PlaceTypes
<1>6. u.panel # s.panel BY <1>4, <1>5
<1>10. /\ \A x \in {s, u, t} : Rank(x) \in Nat /\ x.panel \in Nat
       /\ \A x \in {s, u, t} : 3 * x.panel <= Rank(x) /\ Rank(x) < 3 * (x.panel + 1)
  BY <1>1, RankBounds
<1>7. s.panel < u.panel
  <2> DEFINE rs == Rank(s)
             ru == Rank(u)
             x == s.panel
             y == u.panel
  <2>1. /\ rs \in Nat /\ ru \in Nat /\ x \in Nat /\ y \in Nat
        /\ 3 * x <= rs /\ rs <= ru /\ ru < 3 * (y + 1) /\ x # y
    BY <1>2, <1>6, <1>10
  <2> HIDE DEF rs, ru, x, y
  <2>2. x < y BY <2>1
  <2> QED BY <2>2 DEF x, y
<1>8. CASE s.panel = t.panel - 1 /\ s.col = t.col /\ s.row = t.row
  <2>1. u.panel # t.panel BY <1>4, <1>5, <1>8
  <2>2. t.panel < u.panel BY <1>5, <1>7, <1>8, <2>1
  <2> DEFINE rt == Rank(t)
             ru == Rank(u)
             x == t.panel
             y == u.panel
  <2>3. /\ rt \in Nat /\ ru \in Nat /\ x \in Nat /\ y \in Nat
        /\ 3 * y <= ru /\ ru <= rt /\ rt < 3 * (x + 1) /\ x < y
    BY <1>2, <1>10, <2>2
  <2> HIDE DEF rt, ru, x, y
  <2> QED BY <2>3
<1>9. CASE s.panel = t.panel /\ s.col = t.panel BY <1>5, <1>7, <1>9
<1> QED BY <1>8, <1>9, SourcesAre

LEMMA KeyedProgramSound ==
    ASSUME NEW m, Regular(m), NEW body, NEW program \in {"sync", "task"},
           Runs(m, KeyedInstr(m), body, Place(m)), Guarded(m, body)
    PROVE  Sound(m, body \o AfterPanels(program))
<1> DEFINE P == body \o AfterPanels(program)
           J == KeyedInstr(m) \cup Ends
<1>1. \A i \in KeyedInstr(m) : i.kind \in {"call", "submit", "wait", "wait_key"}
  BY CallsInAre, DagSubmitIs DEF KeyedInstr, KeyedSubmits
<1>2. Runs(m, J, P, Place(m)) /\ EndsInOrder(P) /\ IsSequence(P) /\ Guarded(m, P)
  BY <1>1, ProgramEnds DEF Programs
<1> HIDE DEF P
<1>3. DOMAIN P = 1 .. Len(P) /\ Len(P) \in Nat BY <1>2 DEF IsSequence
<1>4. /\ \A p \in DOMAIN P : P[p] \in J
      /\ Ranked(m, P) /\ Makes(P, CallsAt(m, Place(m)))
  <2>1. P \in Seq(J) BY <1>2 DEF Runs
  <2> HIDE DEF J
  <2> QED BY <1>2, <1>3, <2>1, ElementOfSeq DEF Runs
<1>5. ASSUME NEW p \in DOMAIN P, P[p].kind = "submit"
      PROVE  \E t \in Place(m) : P[p] = DagSubmit(m, CallAt(m, t)) /\ Has(m, P, p, t)
  <2>1. P[p] \in KeyedSubmits(m) BY <1>4, <1>5, CallsInAre DEF KeyedInstr, Ends
  <2>2. PICK t \in Place(m) : P[p] = DagSubmit(m, CallAt(m, t)) BY <2>1 DEF KeyedSubmits
  <2>3. CallsIn(P[p]) = <<CallAt(m, t)>> BY <2>2, DagSubmitIs
  <2> QED BY <2>2, <2>3 DEF Has, ToSet
<1>6. ASSUME NEW p \in DOMAIN P, P[p].kind = "call"
      PROVE  \E r \in Index(m) : P[p].call = CallAt(m, Diagonal(r))
  <2>1. P[p] \in {Inline(CallAt(m, Diagonal(r))) : r \in Index(m)}
    BY <1>4, <1>6, CallsInAre, DagSubmitIs DEF KeyedInstr, KeyedSubmits, Ends
  <2> QED BY <2>1 DEF Inline
<1>7. ASSUME NEW p \in DOMAIN P, P[p].kind = "wait_key" PROVE P[p].key \in Keys(m)
  <2>1. P[p] \in {WaitKey(key) : key \in Keys(m)}
    BY <1>4, <1>7, CallsInAre, DagSubmitIs DEF KeyedInstr, KeyedSubmits, Ends
  <2> QED BY <2>1, CallsInAre
<1>8. WellFormed(P)
  <2>1. ASSUME NEW p \in DOMAIN P, P[p].kind = "submit" PROVE IsSequence(P[p].calls)
    <3>1. PICK t \in Place(m) : P[p] = DagSubmit(m, CallAt(m, t)) BY <1>5, <2>1
    <3>2. P[p].calls = <<CallAt(m, t)>> BY <3>1, DagSubmitIs
    <3> QED BY <3>2 DEF IsSequence
  <2> QED BY <1>2, <2>1 DEF WellFormed
<1>9. KeysAreSound(m, P)
  <2>1. ASSUME NEW p \in DOMAIN P, P[p].kind = "submit"
        PROVE  /\ P[p].deps \subseteq Keys(m) /\ P[p].output \in Keys(m) /\ P[p].output # NoKey
    <3>1. PICK t \in Place(m) : P[p] = DagSubmit(m, CallAt(m, t)) BY <1>5, <2>1
    <3>2. t.panel \in Index(m) /\ t.col \in Index(m) /\ t.row \in Index(m) BY PlaceTypes
    <3> QED BY <3>1, <3>2, DagSubmitIs, KeyFacts
  <2>2. ASSUME NEW p \in DOMAIN P, P[p].kind = "submit", NEW w \in DOMAIN P, P[w].kind = "submit",
               P[w].output \in P[p].deps
        PROVE  Conflict(P[p].calls, P[w].calls)
    <3>1. PICK t \in Place(m) : P[p] = DagSubmit(m, CallAt(m, t)) BY <1>5, <2>2
    <3>2. PICK s \in Place(m) : P[w] = DagSubmit(m, CallAt(m, s)) BY <1>5, <2>2
    <3>3. P[p].calls = <<CallAt(m, t)>> /\ P[w].calls = <<CallAt(m, s)>>
      BY <3>1, <3>2, DagSubmitIs
    <3>4. /\ t.panel \in Index(m) /\ t.col \in Index(m) /\ t.row \in Index(m)
          /\ s.col \in Index(m) /\ s.row \in Index(m)
      BY PlaceTypes
    <3>5. KeyAt(m, s.row, s.col) \in
            {KeyAt(m, t.row, t.col), KeyAt(m, t.row, t.panel), KeyAt(m, t.col, t.panel)}
      BY <2>2, <3>1, <3>2, DagSubmitIs
    <3>6. TileAt(m, s.row, s.col) \in
            {TileAt(m, t.row, t.col), TileAt(m, t.row, t.panel), TileAt(m, t.col, t.panel)}
      BY <3>4, <3>5, KeyFacts
    <3>7. Output(CallAt(m, s)) \in Operands(CallAt(m, t)) BY <3>6, CallOperands
    <3>8. CallAt(m, t) \in ToSet(P[p].calls) /\ CallAt(m, s) \in ToSet(P[w].calls)
      BY <3>3 DEF ToSet
    <3> QED BY <3>7, <3>8 DEF Conflict
  <2> QED BY <1>7, <2>1, <2>2 DEF KeysAreSound, Keys
<1>10. ASSUME NEW t \in Place(m), NEW s \in Sources(m, t), NEW p \in DOMAIN P, NEW w \in DOMAIN P,
              Has(m, P, p, t), Has(m, P, w, s), P[w].kind = "submit",
              NEW p0 \in DOMAIN P, w < p0, p0 <= p
       PROVE  LastWriter(P, KeyAt(m, s.row, s.col), p0, w)
  <2>1. s \in Place(m) /\ s.row \in Index(m) /\ s.col \in Index(m) BY SourcesAre, PlaceTypes
  <2>2. Writes(P[w], KeyAt(m, s.row, s.col))
    <3>1. PICK x \in Place(m) : P[w] = DagSubmit(m, CallAt(m, x)) BY <1>5, <1>10
    <3>2. CallsIn(P[w]) = <<CallAt(m, x)>> BY <3>1, DagSubmitIs
    <3>3. CallAt(m, s) = CallAt(m, x) BY <1>10, <3>2 DEF Has, ToSet
    <3>4. s = x BY <2>1, <3>3, CallInjective
    <3> QED BY <1>10, <3>1, <3>4, DagSubmitIs DEF Writes
  <2>3. ASSUME NEW q \in w + 1 .. p0 - 1, Writes(P[q], KeyAt(m, s.row, s.col)) PROVE FALSE
    <3>1. q \in DOMAIN P /\ w < q /\ q < p BY <1>3, <1>10
    <3>2. PICK u \in Place(m) : P[q] = DagSubmit(m, CallAt(m, u)) /\ Has(m, P, q, u)
      BY <1>5, <2>3, <3>1 DEF Writes
    <3>3. KeyAt(m, u.row, u.col) = KeyAt(m, s.row, s.col) BY <2>3, <3>2, DagSubmitIs DEF Writes
    <3>4. u.row = s.row /\ u.col = s.col BY <2>1, <3>3, KeyFacts, PlaceTypes
    <3> QED BY <1>3, <1>4, <1>10, <3>1, <3>2, <3>4, NoWriterBetween
  <2>4. w \in 1 .. p0 - 1 BY <1>3, <1>10
  <2> QED BY <2>2, <2>3, <2>4 DEF LastWriter
<1>11. SourcesPrecede(m, P)
  <2> SUFFICES ASSUME NEW t \in Place(m), NEW s \in Sources(m, t),
                      NEW p \in DOMAIN P, NEW w \in DOMAIN P, Has(m, P, p, t), Has(m, P, w, s)
               PROVE  Precedes(P, w, p)
    BY DEF SourcesPrecede, Has
  <2>1. w \in 1 .. p - 1 BY <1>3, <1>4, SourceIsBefore
  <2>2. w < p /\ p <= p BY <1>3, <2>1
  <2>3. s \in Place(m) /\ Rank(s) < Rank(t) BY SourcesAre
  <2>4. CASE P[w].kind = "call" BY <2>1, <2>4 DEF Precedes
  <2>5. CASE P[w].kind = "submit" /\ P[p].kind = "submit"
    <3>1. PICK x \in Place(m) : P[p] = DagSubmit(m, CallAt(m, x)) BY <1>5, <2>5
    <3>2. CallsIn(P[p]) = <<CallAt(m, x)>> BY <3>1, DagSubmitIs
    <3>3. CallAt(m, t) = CallAt(m, x) BY <3>2 DEF Has, ToSet
    <3>4. t = x BY <3>3, CallInjective
    <3>5. KeyAt(m, s.row, s.col) \in P[p].deps
      <4>1. P[p].deps = {KeyAt(m, t.row, t.col), KeyAt(m, t.row, t.panel),
                         KeyAt(m, t.col, t.panel)}
        BY <3>1, <3>4, DagSubmitIs
      <4>2. \/ s.col = t.col /\ s.row = t.row
            \/ s.col = t.panel /\ s.row \in {t.row, t.col}
        BY SourcesAre
      <4> QED BY <4>1, <4>2
    <3>6. LastWriter(P, KeyAt(m, s.row, s.col), p, w) BY <1>10, <2>2, <2>5
    <3> QED BY <2>1, <2>5, <3>5, <3>6 DEF Precedes
  <2>6. CASE P[w].kind = "submit" /\ P[p].kind = "call"
    <3>1. PICK r \in Index(m) : P[p].call = CallAt(m, Diagonal(r)) BY <1>6, <2>6
    <3>2. P[p].call = CallAt(m, t) BY <2>6, MakerKind
    <3>3. t = Diagonal(r) BY <3>1, <3>2, CallInjective, DiagonalPlace
    <3>4. t.row = r /\ t.col = r /\ t.panel = r BY <3>3 DEF Diagonal
    <3>5. s.col = r /\ s.row = r BY <3>4, SourcesAre
    <3>6. p - 1 \in DOMAIN P /\ P[p - 1] = WaitKey(KeyAt(m, r, r))
      <4>1. p - 1 \in DOMAIN P /\ P[p - 1] = WaitKey(BlockKey(m, Output(P[p].call)))
        BY <1>2, <2>6 DEF Guarded
      <4>2. Output(P[p].call) = TileAt(m, r, r) BY <3>2, <3>4, CallOperands
      <4> QED BY <4>1, <4>2 DEF KeyAt
    <3>7. P[p - 1].kind = "wait_key" /\ P[p - 1].key = KeyAt(m, s.row, s.col)
      BY <3>5, <3>6, CallsInAre
    <3>8. w # p - 1 BY <2>6, <3>7
    <3>9. w < p - 1 /\ p - 1 <= p /\ p - 1 \in w + 1 .. p - 1 BY <1>3, <2>2, <3>8
    <3>10. LastWriter(P, KeyAt(m, s.row, s.col), p - 1, w) BY <1>10, <2>6, <3>6, <3>9
    <3> QED BY <2>1, <3>7, <3>9, <3>10 DEF Precedes
  <2> QED BY <2>4, <2>5, <2>6, MakerKind
<1>12. Sound(m, P) BY <1>2, <1>4, <1>8, <1>9, <1>11 DEF Sound
<1> QED BY <1>12 DEF P

LEMMA UpdatesRun ==
    ASSUME NEW m, Regular(m), NEW p \in Index(m)
    PROVE  LET Q == UpdatesOf(m, p * m.b) IN
           /\ Runs(m, KeyedInstr(m), Q, TrsmPlaces(m, p) \cup MaddPlaces(m, p))
           /\ Guarded(m, Q)
<1> DEFINE s == TrsmCalls(m.n, m.b, p * m.b) \o MaddCalls(m.n, m.b, p * m.b)
           Q == UpdatesOf(m, p * m.b)
           T == TrsmPlaces(m, p) \cup MaddPlaces(m, p)
           I == KeyedInstr(m)
<1>1. InOrder(m, s, T) BY PanelInOrder
<1>2. Q = [c \in DOMAIN s |-> DagSubmit(m, s[c])] BY DEF UpdatesOf, OneByOne
<1>3. T \subseteq Place(m) BY DEF TrsmPlaces, MaddPlaces
<1> HIDE DEF s, Q, T
<1>4. /\ DOMAIN s = 1 .. Len(s) /\ Len(s) \in Nat
      /\ \A k \in 1 .. Len(s) : s[k] \in CallsAt(m, T)
  BY <1>1, ListFacts DEF InOrder
<1>5. ASSUME NEW k \in DOMAIN s
      PROVE  /\ DagSubmit(m, s[k]) \in I
             /\ CallsIn(DagSubmit(m, s[k])) = <<s[k]>>
             /\ DagSubmit(m, s[k]).kind = "submit"
  <2>1. PICK t \in T : s[k] = CallAt(m, t) BY <1>4 DEF CallsAt
  <2>2. t \in Place(m) BY <1>3
  <2>3. DagSubmit(m, CallAt(m, t)) \in I BY <2>2 DEF KeyedInstr, KeyedSubmits
  <2> HIDE DEF I
  <2> QED BY <2>1, <2>2, <2>3, DagSubmitIs
<1> HIDE DEF I
<1>6. Q \in Seq(I)
  <2>1. Q \in [1 .. Len(s) -> I] BY <1>2, <1>4, <1>5
  <2> QED BY <1>4, <2>1, FunctionIsSeq
<1>7. DOMAIN Q = DOMAIN s /\ \A k \in DOMAIN Q : CallsIn(Q[k]) = <<s[k]>> /\ Q[k].kind = "submit"
  BY <1>2, <1>5
<1>8. Runs(m, I, Q, T) BY <1>1, <1>6, <1>7, RunsOneByOne
<1>9. Guarded(m, Q) BY <1>7 DEF Guarded
<1> QED BY <1>8, <1>9 DEF Q, I, T

\* The parts of a panel.
LEMMA PanelParts ==
    ASSUME NEW m, NEW p \in Index(m)
    PROVE  LET C == {Diagonal(p)}
               U == TrsmPlaces(m, p) \cup MaddPlaces(m, p)
           IN Follows(C, U) /\ C \cup U = PanelPlaces(m, p)
<1> DEFINE C == {Diagonal(p)}
           U == TrsmPlaces(m, p) \cup MaddPlaces(m, p)
<1>1. C \subseteq Place(m) /\ U \subseteq Place(m) BY DiagonalPlace DEF TrsmPlaces, MaddPlaces
<1>2. p \in Nat BY BlocksOf DEF Index
<1>3. \A t \in C : Rank(t) = 3 * p BY <1>1, Ranks
<1>4. \A t \in U : Rank(t) = 3 * p + 1 \/ Rank(t) = 3 * p + 2 BY <1>1, Ranks
<1>5. C \cup U = PanelPlaces(m, p)
  BY PlaceTypes, DiagonalPlace DEF Diagonal, TrsmPlaces, MaddPlaces, PanelPlaces
<1>6. RanksBelow(C, U)
  <2> HIDE DEF C, U
  <2> QED BY <1>2, <1>3, <1>4 DEF RanksBelow
<1> HIDE DEF C, U
<1>7. Follows(C, U) BY <1>1, <1>6, RanksFollow
<1> QED BY <1>5, <1>7 DEF C, U

LEMMA TaskPanelRuns ==
    ASSUME NEW m, Regular(m), NEW p \in Index(m)
    PROVE  LET Q == TaskPanel(m, p * m.b) IN
           Runs(m, KeyedInstr(m), Q, PanelPlaces(m, p)) /\ Guarded(m, Q)
<1> DEFINE I == KeyedInstr(m)
           call == CholeskyCall(m.n, p * m.b)
           submit == DagSubmit(m, call)
           a == <<submit>>
           b == UpdatesOf(m, p * m.b)
           C == {Diagonal(p)}
           U == TrsmPlaces(m, p) \cup MaddPlaces(m, p)
<1>1. Runs(m, I, b, U) /\ Guarded(m, b) BY UpdatesRun
<1>2. Follows(C, U) /\ C \cup U = PanelPlaces(m, p) BY PanelParts
<1>3. InOrder(m, <<call>>, C) BY PanelInOrder
<1>4. Diagonal(p) \in Place(m) /\ call = CallAt(m, Diagonal(p)) BY DiagonalPlace
<1>5. submit \in I BY <1>4 DEF KeyedInstr, KeyedSubmits
<1>6. CallsIn(submit) = <<call>> /\ submit.kind = "submit" BY <1>4, DagSubmitIs
<1>7. TaskPanel(m, p * m.b) = a \o b BY DEF TaskPanel
<1> HIDE DEF I, call, submit, C, U, b
<1>8. a \in Seq(I) /\ DOMAIN a = DOMAIN <<call>> /\ DOMAIN a = {1} /\ a[1] = submit /\ <<call>>[1] = call
  BY <1>5
<1> HIDE DEF a
<1>9. Runs(m, I, a, C) BY <1>3, <1>6, <1>8, RunsOneByOne
<1>10. Guarded(m, a) BY <1>6, <1>8 DEF Guarded
<1>11. Runs(m, I, a \o b, C \cup U) BY <1>1, <1>2, <1>9, RunsConcat
<1>12. b \in Seq(I) BY <1>1 DEF Runs
<1>13. Guarded(m, a \o b) BY <1>1, <1>8, <1>10, <1>12, GuardedConcat
<1> QED BY <1>2, <1>7, <1>11, <1>13 DEF I

LEMMA SyncPanelRuns ==
    ASSUME NEW m, Regular(m), NEW p \in Index(m)
    PROVE  LET Q == SyncPanel(m, p * m.b) IN
           Runs(m, KeyedInstr(m), Q, PanelPlaces(m, p)) /\ Guarded(m, Q)
<1> DEFINE I == KeyedInstr(m)
           call == CholeskyCall(m.n, p * m.b)
           wait == WaitKey(BlockKey(m, call.args[1]))
           inline == Inline(call)
           a == <<wait>>
           b == <<inline>>
           ab == <<wait, inline>>
           c == UpdatesOf(m, p * m.b)
           C == {Diagonal(p)}
           U == TrsmPlaces(m, p) \cup MaddPlaces(m, p)
<1>1. Runs(m, I, c, U) /\ Guarded(m, c) BY UpdatesRun
<1>2. Follows(C, U) /\ C \cup U = PanelPlaces(m, p) BY PanelParts
<1>3. InOrder(m, <<call>>, C) BY PanelInOrder
<1>4. Diagonal(p) \in Place(m) /\ call = CallAt(m, Diagonal(p)) BY DiagonalPlace
<1>5. call.args[1] = Output(call) /\ Output(call) = TileAt(m, p, p)
  <2>1. Output(call) = TileAt(m, p, p)
    BY <1>4, CallOperands DEF Diagonal
  <2>2. call.args[1] = TileAt(m, p, p) BY DEF CholeskyCall, TileAt
  <2> QED BY <2>1, <2>2
<1>6. wait \in I /\ inline \in I
  <2>1. KeyAt(m, p, p) \in Keys(m) BY KeyFacts
  <2>2. wait = WaitKey(KeyAt(m, p, p)) BY <1>5 DEF KeyAt
  <2>3. wait \in I
    <3> HIDE DEF wait
    <3> QED BY <2>1, <2>2 DEF KeyedInstr
  <2>4. inline \in I BY <1>4 DEF KeyedInstr
  <2> QED BY <2>3, <2>4
<1>7. /\ CallsIn(wait) = <<>> /\ wait.kind = "wait_key"
      /\ CallsIn(inline) = <<call>> /\ inline.kind = "call"
  BY CallsInAre
<1>8. inline.call = call BY DEF Inline
<1>9. wait = WaitKey(BlockKey(m, Output(inline.call))) BY <1>5, <1>8
<1>10. SyncPanel(m, p * m.b) = ab \o c BY DEF SyncPanel
<1> HIDE DEF I, call, wait, inline, C, U, c
<1>11. /\ a \in Seq(I) /\ DOMAIN a = {1} /\ a[1] = wait
       /\ b \in Seq(I) /\ DOMAIN b = DOMAIN <<call>> /\ DOMAIN b = {1} /\ b[1] = inline
       /\ <<call>>[1] = call
  BY <1>6
<1>12. ab \in Seq(I) /\ DOMAIN ab = {1, 2} /\ ab[1] = wait /\ ab[2] = inline BY <1>6
<1>13. a \o b = ab BY TupleAndOne
<1> HIDE DEF a, b, ab
<1>14. Runs(m, I, a, {}) BY <1>7, <1>11, RunsNothing
<1>15. Runs(m, I, b, C) BY <1>3, <1>7, <1>11, RunsOneByOne
<1>16. Runs(m, I, ab, C)
  <2>1. Follows({}, C) /\ {} \cup C = C BY DEF Follows
  <2>2. Runs(m, I, a \o b, {} \cup C) BY <1>14, <1>15, <2>1, RunsConcat
  <2> QED BY <1>13, <2>1, <2>2
<1>17. Guarded(m, ab)
  <2>1. ASSUME NEW q \in DOMAIN ab, ab[q].kind = "call"
        PROVE  /\ q - 1 \in DOMAIN ab
               /\ ab[q - 1] = WaitKey(BlockKey(m, Output(ab[q].call)))
    <3>1. q = 2 /\ q - 1 = 1 BY <1>7, <1>12, <2>1
    <3> QED BY <1>9, <1>12, <3>1
  <2> QED BY <2>1 DEF Guarded
<1>18. Runs(m, I, ab \o c, C \cup U) BY <1>1, <1>2, <1>16, RunsConcat
<1>19. c \in Seq(I) BY <1>1 DEF Runs
<1>20. Guarded(m, ab \o c) BY <1>1, <1>12, <1>17, <1>19, GuardedConcat
<1> QED BY <1>2, <1>10, <1>18, <1>20 DEF I

-----------------------------------------------------------------------------
(* The programs. *)

LEMMA LoweringIs ==
    ASSUME NEW m, Regular(m), NEW program
    PROVE  Lowering(m, program) =
             FlattenSeq([i \in 1 .. Blocks(m) |-> Panel(program, m, (i - 1) * m.b)])
                \o AfterPanels(program)
<1> DEFINE panels == Steps(0, m.n, m.b)
<1>1. panels = [s \in 1 .. Blocks(m) |-> (s - 1) * m.b] BY PanelSteps
<1>2. [p \in DOMAIN panels |-> Panel(program, m, panels[p])] =
        [i \in 1 .. Blocks(m) |-> Panel(program, m, (i - 1) * m.b)]
  <2> HIDE DEF panels
  <2>1. DOMAIN panels = 1 .. Blocks(m) /\ \A i \in 1 .. Blocks(m) : panels[i] = (i - 1) * m.b
    BY <1>1
  <2> QED BY <2>1
<1> QED BY <1>2 DEF Lowering

\* A program that makes the calls of each panel with the instructions of I.
LEMMA ProgramRuns ==
    ASSUME NEW m, Regular(m), NEW I, NEW program,
           \A p \in Index(m) : Runs(m, I, Panel(program, m, p * m.b), PanelPlaces(m, p))
    PROVE  \E body :
             /\ Lowering(m, program) = body \o AfterPanels(program)
             /\ Runs(m, I, body, Place(m))
             /\ (\A p \in Index(m) : /\ Fenced(Panel(program, m, p * m.b))
                                     /\ Separated(m, Panel(program, m, p * m.b)))
                    => Fenced(body) /\ Separated(m, body)
             /\ (\A p \in Index(m) : Guarded(m, Panel(program, m, p * m.b))) => Guarded(m, body)
<1> DEFINE ss == [i \in 1 .. Blocks(m) |-> Panel(program, m, (i - 1) * m.b)]
           body == FlattenSeq(ss)
<1>1. \A i \in 1 .. Blocks(m) : i - 1 \in Index(m) BY PanelsAreOrdered
<1>2. \A i \in 1 .. Blocks(m) : ss[i] = Panel(program, m, (i - 1) * m.b) OBVIOUS
<1>3. ss = [i \in 1 .. Blocks(m) |-> ss[i]] OBVIOUS
<1>4. Lowering(m, program) = body \o AfterPanels(program) BY LoweringIs
<1> HIDE DEF ss
<1>5. \A i \in 1 .. Blocks(m) : Runs(m, I, ss[i], PanelPlaces(m, i - 1)) BY <1>1, <1>2
<1>6. /\ Runs(m, I, body, Place(m))
      /\ (\A i \in 1 .. Blocks(m) : Fenced(ss[i]) /\ Separated(m, ss[i]))
            => Fenced(body) /\ Separated(m, body)
      /\ (\A i \in 1 .. Blocks(m) : Guarded(m, ss[i])) => Guarded(m, body)
  BY <1>3, <1>5, PanelsRun
<1> HIDE DEF body
<1>7. ASSUME \A p \in Index(m) : /\ Fenced(Panel(program, m, p * m.b))
                                 /\ Separated(m, Panel(program, m, p * m.b))
      PROVE  Fenced(body) /\ Separated(m, body)
  BY <1>1, <1>2, <1>6, <1>7
<1>8. ASSUME \A p \in Index(m) : Guarded(m, Panel(program, m, p * m.b))
      PROVE  Guarded(m, body)
  BY <1>1, <1>2, <1>6, <1>8
<1> QED BY <1>4, <1>6, <1>7, <1>8

\* The loop nest as it was, and the two graphs across the panels, are sound.
LEMMA SerialIsSound ==
    ASSUME NEW m, Regular(m)
    PROVE  Sound(m, Lowering(m, "serial"))
<1>1. \A p \in Index(m) : Panel("serial", m, p * m.b) = SerialPanel(m, p * m.b) BY DEF Panel
<1>2. \A p \in Index(m) :
        /\ Runs(m, PhaseInstr(m), Panel("serial", m, p * m.b), PanelPlaces(m, p))
        /\ Fenced(Panel("serial", m, p * m.b)) /\ Separated(m, Panel("serial", m, p * m.b))
  BY <1>1, SerialPanelRuns
<1>3. PICK body : /\ Lowering(m, "serial") = body \o AfterPanels("serial")
                  /\ Runs(m, PhaseInstr(m), body, Place(m))
                  /\ Fenced(body) /\ Separated(m, body)
  BY <1>2, ProgramRuns
<1> QED BY <1>3, PhaseProgramSound DEF Programs

LEMMA KeyedIsSound ==
    ASSUME NEW m, Regular(m), NEW program \in {"sync", "task"}
    PROVE  Sound(m, Lowering(m, program))
<1>1. \A p \in Index(m) :
        /\ Runs(m, KeyedInstr(m), Panel(program, m, p * m.b), PanelPlaces(m, p))
        /\ Guarded(m, Panel(program, m, p * m.b))
  <2>1. CASE program = "sync"
    <3>1. \A p \in Index(m) : Panel(program, m, p * m.b) = SyncPanel(m, p * m.b)
      BY <2>1 DEF Panel
    <3> QED BY <3>1, SyncPanelRuns
  <2>2. CASE program = "task"
    <3>1. \A p \in Index(m) : Panel(program, m, p * m.b) = TaskPanel(m, p * m.b)
      BY <2>2 DEF Panel
    <3> QED BY <3>1, TaskPanelRuns
  <2> QED BY <2>1, <2>2
<1>2. PICK body : /\ Lowering(m, program) = body \o AfterPanels(program)
                  /\ Runs(m, KeyedInstr(m), body, Place(m))
                  /\ Guarded(m, body)
  BY <1>1, ProgramRuns
<1> QED BY <1>2, KeyedProgramSound

-----------------------------------------------------------------------------
(* Ranges as phases. *)

LEMMA ChunkTypes ==
    ASSUME NEW env \in Environment, NEW b \in Int, NEW count \in Nat, NEW grain \in Int
    PROVE  LET chunks == SubmitRange(env, b, count, grain) IN
           \E L \in Nat : /\ DOMAIN chunks = 1 .. L
                          /\ \A c \in 1 .. L : chunks[c].begin \in Nat /\ chunks[c].end \in Nat
<1>1. CASE count = 0
  <2>1. SubmitRange(env, b, count, grain) = <<>> BY <1>1 DEF SubmitRange
  <2>2. 0 \in Nat /\ DOMAIN <<>> = 1 .. 0 OBVIOUS
  <2> QED BY <2>1, <2>2
<1>2. CASE count > 0
  <2> DEFINE length == ChunkLength(env, b, count, grain)
             L == (count + length - 1) \div length
  <2>1. count \in Nat \ {0} BY <1>2
  <2>2. length \in Nat \ {0} BY <2>1, ChunkLengthInRange
  <2>3. SubmitRange(env, b, count, grain) = Chunks(count, length) BY <1>2 DEF SubmitRange
  <2> HIDE DEF length
  <2>4. L \in Nat
    <3>1. count + length - 1 \in Nat BY <2>1, <2>2
    <3> QED BY <2>2, <3>1, Division
  <2>5. ASSUME NEW c \in 1 .. L
        PROVE  (c - 1) * length \in Nat /\ Min({count, (c - 1) * length + length}) \in Nat
    <3>1. c - 1 \in Nat OBVIOUS
    <3>2. (c - 1) * length \in Nat BY <2>2, <3>1, SMT
    <3> DEFINE e == (c - 1) * length + length
    <3>3. e \in Nat BY <2>2, <3>2
    <3> HIDE DEF e
    <3>4. Min({count, e}) = IF count <= e THEN count ELSE e BY <3>3, MinOfTwo
    <3>5. Min({count, e}) \in Nat BY <3>3, <3>4
    <3> QED BY <3>2, <3>5 DEF e
  <2>6. Chunks(count, length) =
            [c \in 1 .. L |-> [begin |-> (c - 1) * length,
                               end |-> Min({count, (c - 1) * length + length})]]
    BY DEF Chunks
  <2>7. \A c \in 1 .. L : /\ Chunks(count, length)[c].begin = (c - 1) * length
                          /\ Chunks(count, length)[c].end = Min({count, (c - 1) * length + length})
    BY <2>6
  <2>8. DOMAIN Chunks(count, length) = 1 .. L BY <2>6
  <2> HIDE DEF L
  <2> QED BY <2>3, <2>4, <2>5, <2>7, <2>8
<1> QED BY <1>1, <1>2

\* The lists of parts of the places, one behind the other, list them all.
LEMMA ListsFlattenPlaces ==
    ASSUME NEW m, Regular(m), NEW n \in Nat, NEW ss, ss = [i \in 1 .. n |-> ss[i]], NEW D, NEW T,
           \A i \in 1 .. n : D[i] \subseteq Place(m) /\ Lists(ss[i], CallsAt(m, D[i])),
           \A i1, i2 \in 1 .. n : i1 # i2 => D[i1] \cap D[i2] = {},
           \A x : x \in T <=> \E i \in 1 .. n : x \in D[i]
    PROVE  Lists(FlattenSeq(ss), CallsAt(m, T))
<1> DEFINE C == [i \in 1 .. n |-> CallsAt(m, D[i])]
<1>1. \A i \in 1 .. n : C[i] = CallsAt(m, D[i]) OBVIOUS
<1>2. ASSUME NEW i1 \in 1 .. n, NEW i2 \in 1 .. n, i1 # i2 PROVE C[i1] \cap C[i2] = {}
  <2>1. D[i1] \cap D[i2] = {} BY <1>2
  <2> QED BY <2>1, CallsDisjoint
<1>3. \A i \in 1 .. n : Lists(ss[i], C[i]) BY <1>1
<1> HIDE DEF C
<1>4. Lists(FlattenSeq(ss), UNION {C[i] : i \in 1 .. n}) BY <1>2, <1>3, ListsFlatten
<1>5. ASSUME NEW x, x \in CallsAt(m, T) PROVE x \in UNION {C[i] : i \in 1 .. n}
  <2>1. PICK y \in T : x = CallAt(m, y) BY <1>5 DEF CallsAt
  <2>2. PICK i \in 1 .. n : y \in D[i] OBVIOUS
  <2>3. x \in C[i] BY <1>1, <2>1, <2>2 DEF CallsAt
  <2> QED BY <2>3
<1>6. ASSUME NEW i \in 1 .. n, NEW x \in C[i] PROVE x \in CallsAt(m, T)
  <2>1. PICK y \in D[i] : x = CallAt(m, y) BY <1>1 DEF CallsAt
  <2>2. y \in T OBVIOUS
  <2> QED BY <2>1, <2>2 DEF CallsAt
<1>7. UNION {C[i] : i \in 1 .. n} = CallsAt(m, T) BY <1>5, <1>6
<1> QED BY <1>4, <1>7

\* The calls at T are those of the logical indices below count: index t stands for
\* the calls body[t], those at D[t].
Indices(m, count, body, D, T) ==
    /\ \A t \in 0 .. count - 1 :
            D[t] \subseteq Place(m) /\ D[t] # {} /\ Lists(body[t], CallsAt(m, D[t]))
    /\ \A t1, t2 \in 0 .. count - 1 : t1 # t2 => D[t1] \cap D[t2] = {}
    /\ \A x : x \in T <=> \E t \in 0 .. count - 1 : x \in D[t]

\* A range makes the calls of its logical indices, however it is cut.
LEMMA RangeRuns ==
    ASSUME NEW m, Regular(m), NEW count \in Nat, NEW grain \in Int, NEW body, NEW D, NEW T,
           Indices(m, count, body, D, T), \A x, y \in T : Rank(x) <= Rank(y)
    PROVE  Runs(m, PhaseInstr(m), RangeSubmits(m, count, grain, body), T)
<1> DEFINE chunks == SubmitRange(m.env, m.b, count, grain)
           CallsOf(c) == FlattenSeq([t \in 1 .. c.end - c.begin |-> body[c.begin + t - 1]])
           Q == RangeSubmits(m, count, grain, body)
           I == PhaseInstr(m)
           E == [c \in DOMAIN chunks |->
                    UNION {D[t] : t \in chunks[c].begin .. chunks[c].end - 1}]
<1>18. \A t \in 0 .. count - 1 :
            D[t] \subseteq Place(m) /\ D[t] # {} /\ Lists(body[t], CallsAt(m, D[t]))
  BY DEF Indices
<1>19. \A t1, t2 \in 0 .. count - 1 : t1 # t2 => D[t1] \cap D[t2] = {} BY DEF Indices
<1>20. \A x : x \in T <=> \E t \in 0 .. count - 1 : x \in D[t] BY DEF Indices
<1>1. m.env \in Environment /\ m.b \in Int BY DEF Regular
<1>2. Tiles(chunks, count) BY <1>1, RangesAreTiled
<1>3. PICK L \in Nat : /\ DOMAIN chunks = 1 .. L
                       /\ \A c \in 1 .. L : chunks[c].begin \in Nat /\ chunks[c].end \in Nat
  BY <1>1, ChunkTypes
<1>4. Q = [c \in DOMAIN chunks |-> Submit(CallsOf(chunks[c]), {}, NoKey)] BY DEF RangeSubmits
<1>5. \A c \in DOMAIN chunks : \A y :
        y \in E[c] <=> \E t \in chunks[c].begin .. chunks[c].end - 1 : y \in D[t]
  OBVIOUS
<1> HIDE DEF chunks, Q, E, I
<1>6. ASSUME NEW c \in 1 .. L
      PROVE  /\ chunks[c].begin .. chunks[c].end - 1 \subseteq 0 .. count - 1
             /\ chunks[c].begin \in chunks[c].begin .. chunks[c].end - 1
             /\ chunks[c].end - chunks[c].begin \in Nat
             /\ chunks[c].begin \in Nat
  <2>1. 0 <= chunks[c].begin /\ chunks[c].begin < chunks[c].end /\ chunks[c].end <= count
    BY <1>2, <1>3 DEF Tiles
  <2>2. chunks[c].begin \in Nat /\ chunks[c].end \in Nat BY <1>3
  <2> QED BY <2>1, <2>2
<1>7. ASSUME NEW c \in 1 .. L
      PROVE  /\ E[c] \subseteq Place(m) /\ E[c] # {}
             /\ Lists(CallsOf(chunks[c]), CallsAt(m, E[c]))
  <2> DEFINE begin == chunks[c].begin
             w == chunks[c].end - begin
             ss == [t \in 1 .. w |-> body[begin + t - 1]]
             C == [i \in 1 .. w |-> D[begin + i - 1]]
  <2>1. E[c] \subseteq Place(m) /\ E[c] # {}
    <3>1. \A y \in E[c] : y \in Place(m)
      <4> TAKE y \in E[c]
      <4>1. PICK t \in begin .. chunks[c].end - 1 : y \in D[t] BY <1>3, <1>5
      <4> QED BY <1>6, <1>18, <4>1
    <3>2. PICK y : y \in D[begin] BY <1>6, <1>18
    <3>3. y \in E[c] BY <1>3, <1>5, <1>6, <3>2
    <3> QED BY <3>1, <3>3
  <2> DEFINE end == chunks[c].end
  <2>2. w \in Nat /\ begin \in Nat /\ end \in Nat /\ w = end - begin BY <1>3, <1>6
  <2>12. \A y : y \in E[c] <=> \E t \in begin .. end - 1 : y \in D[t]
    <3>1. c \in DOMAIN chunks BY <1>3
    <3> QED BY <1>5, <3>1, Zenon
  <2>13. begin .. end - 1 \subseteq 0 .. count - 1 BY <1>6
  <2>8. CallsOf(chunks[c]) = FlattenSeq(ss) OBVIOUS
  <2> HIDE DEF w, begin, end
  <2>3. ASSUME NEW i \in 1 .. w
        PROVE  begin + i - 1 \in 0 .. count - 1 /\ begin + i - 1 \in begin .. end - 1
    <3>1. begin + i - 1 \in begin .. end - 1 BY <2>2
    <3> QED BY <2>13, <3>1
  <2>4. ASSUME NEW t \in begin .. end - 1
        PROVE  t - begin + 1 \in 1 .. w /\ begin + (t - begin + 1) - 1 = t
    BY <2>2
  <2>5. ss = [i \in 1 .. w |-> ss[i]] OBVIOUS
  <2>6. \A i \in 1 .. w : C[i] \subseteq Place(m) /\ Lists(ss[i], CallsAt(m, C[i])) BY <1>18, <2>3
  <2>7. ASSUME NEW i1 \in 1 .. w, NEW i2 \in 1 .. w, i1 # i2 PROVE C[i1] \cap C[i2] = {}
    <3>1. begin + i1 - 1 # begin + i2 - 1 BY <2>2, <2>7
    <3> QED BY <1>19, <2>3, <3>1
  <2>9. \A x : x \in E[c] <=> \E i \in 1 .. w : x \in C[i]
    <3>1. \A i \in 1 .. w : C[i] = D[begin + i - 1] OBVIOUS
    <3>2. ASSUME NEW x \in E[c] PROVE \E i \in 1 .. w : x \in C[i]
      <4>1. PICK t \in begin .. end - 1 : x \in D[t] BY <2>12
      <4> QED BY <2>4, <3>1, <4>1
    <3>3. ASSUME NEW i \in 1 .. w, NEW x \in C[i] PROVE x \in E[c]
      <4>1. x \in D[begin + i - 1] BY <3>1
      <4> QED BY <2>3, <2>12, <4>1
    <3> QED BY <3>2, <3>3
  <2> HIDE DEF ss, C
  <2> DEFINE U == E[c]
  <2>14. \A x : x \in U <=> \E i \in 1 .. w : x \in C[i] BY <2>9
  <2>15. w \in Nat BY <2>2
  <2> HIDE DEF U, CallsOf
  <2>10. Lists(FlattenSeq(ss), CallsAt(m, U))
    BY <2>5, <2>6, <2>7, <2>14, <2>15, ListsFlattenPlaces
  <2> QED BY <2>1, <2>8, <2>10 DEF U
<1> HIDE DEF CallsOf
<1>8. ASSUME NEW c \in 1 .. L
      PROVE  /\ CallsOf(chunks[c]) \in Seq(CallsAt(m, Place(m))) \ {<<>>}
  <2>1. CallsOf(chunks[c]) \in Seq(CallsAt(m, E[c])) BY <1>7 DEF Lists
  <2>2. CallsAt(m, E[c]) \subseteq CallsAt(m, Place(m)) BY <1>7 DEF CallsAt
  <2>3. CallsOf(chunks[c]) \in Seq(CallsAt(m, Place(m))) BY <2>1, <2>2, SeqMonotonic, Zenon
  <2>4. PICK y \in E[c] : TRUE BY <1>7
  <2>5. CallAt(m, y) \in CallsAt(m, E[c]) BY DEF CallsAt
  <2>6. \E k \in DOMAIN CallsOf(chunks[c]) : TRUE BY <1>7, <2>5 DEF Lists
  <2>7. CallsOf(chunks[c]) # <<>> BY <2>6
  <2> QED BY <2>3, <2>7
<1>9. DOMAIN Q = 1 .. L BY <1>3, <1>4
<1>10. \A c \in 1 .. L : Q[c] = Submit(CallsOf(chunks[c]), {}, NoKey) BY <1>3, <1>4
<1>11. Q \in Seq(I)
  <2>1. \A c \in 1 .. L : Q[c] \in I BY <1>8, <1>10 DEF I, PhaseInstr, PhaseSubmits
  <2>2. Q = [c \in 1 .. L |-> Q[c]] BY <1>3, <1>4
  <2>3. Q \in [1 .. L -> I] BY <2>1, <2>2, Zenon
  <2> QED BY <2>3, FunctionIsSeq
<1>12. \A p \in DOMAIN Q : E[p] \subseteq Place(m) /\ Lists(CallsIn(Q[p]), CallsAt(m, E[p]))
  BY <1>7, <1>9, <1>10, CallsInAre
<1>13. ASSUME NEW p1 \in DOMAIN Q, NEW p2 \in DOMAIN Q, p1 # p2 PROVE E[p1] \cap E[p2] = {}
  <2> SUFFICES ASSUME NEW x \in E[p1], x \in E[p2] PROVE FALSE
    OBVIOUS
  <2>1. PICK t1 \in chunks[p1].begin .. chunks[p1].end - 1 : x \in D[t1] BY <1>3, <1>5, <1>9
  <2>2. PICK t2 \in chunks[p2].begin .. chunks[p2].end - 1 : x \in D[t2] BY <1>3, <1>5, <1>9
  <2>3. t1 \in 0 .. count - 1 /\ t2 \in 0 .. count - 1 BY <1>6, <1>9
  <2>4. t1 = t2 BY <1>19, <2>1, <2>2, <2>3
  <2>5. PICK c \in DOMAIN chunks :
            \A d \in DOMAIN chunks : t1 \in chunks[d].begin .. chunks[d].end - 1 <=> d = c
    BY <1>2, <2>3 DEF Tiles
  <2> QED BY <1>3, <1>9, <1>13, <2>4, <2>5
<1>14. \A x : x \in T <=> \E c \in DOMAIN Q : x \in E[c]
  <2>1. ASSUME NEW x \in T PROVE \E c \in DOMAIN Q : x \in E[c]
    <3>1. PICK t \in 0 .. count - 1 : x \in D[t] BY <1>20
    <3>2. PICK c \in DOMAIN chunks :
            \A d \in DOMAIN chunks : t \in chunks[d].begin .. chunks[d].end - 1 <=> d = c
      BY <1>2 DEF Tiles
    <3> QED BY <1>3, <1>5, <1>9, <3>1, <3>2
  <2>2. ASSUME NEW c \in DOMAIN Q, NEW x \in E[c] PROVE x \in T
    <3>1. PICK t \in chunks[c].begin .. chunks[c].end - 1 : x \in D[t] BY <1>3, <1>5, <1>9
    <3>2. t \in 0 .. count - 1 BY <1>6, <1>9
    <3> QED BY <1>20, <3>1, <3>2
  <2> QED BY <2>1, <2>2
<1>15. \A p1, p2 \in DOMAIN Q : p1 <= p2 => \A t1 \in E[p1], t2 \in E[p2] : Rank(t1) <= Rank(t2)
  BY <1>14
<1>16. Runs(m, I, Q, UNION {E[p] : p \in DOMAIN Q}) BY <1>11, <1>12, <1>13, <1>15, RunsOfLists
<1>17. UNION {E[p] : p \in DOMAIN Q} = T BY <1>14
<1> QED BY <1>16, <1>17 DEF I, Q

LEMMA OneCallLists ==
    ASSUME NEW m, NEW t
    PROVE  Lists(<<CallAt(m, t)>>, CallsAt(m, {t}))
<1> DEFINE c == CallAt(m, t)
<1>1. CallsAt(m, {t}) = {c} BY DEF CallsAt
<1> HIDE DEF c
<1>2. <<c>> \in Seq({c}) /\ DOMAIN <<c>> = 1 .. 1 OBVIOUS
<1>3. Lists(<<c>>, {c}) BY <1>2 DEF Lists
<1> QED BY <1>1, <1>3 DEF c

\* Indices that stand for one call each, from the row first of a column down.
LEMMA ColumnIndices ==
    ASSUME NEW m, Regular(m), NEW p \in Index(m), NEW c \in Index(m), p <= c,
           NEW first \in Nat, c <= first, first <= Blocks(m), NEW body,
           \A t \in 0 .. Blocks(m) - first - 1 :
                body[t] = <<CallAt(m, [panel |-> p, col |-> c, row |-> first + t])>>,
           NEW D, NEW T,
           \A t \in 0 .. Blocks(m) - first - 1 :
                D[t] = {[panel |-> p, col |-> c, row |-> first + t]},
           \A x : x \in T <=> x \in Place(m) /\ x.panel = p /\ x.col = c /\ first <= x.row
    PROVE  Indices(m, Blocks(m) - first, body, D, T)
<1> DEFINE N == Blocks(m)
           count == N - first
           Down(t) == [panel |-> p, col |-> c, row |-> first + t]
<1>1. N \in Nat /\ p \in 0 .. N - 1 /\ c \in 0 .. N - 1 BY BlocksOf DEF Index
<1>2. ASSUME NEW t \in 0 .. count - 1 PROVE Down(t) \in T /\ Down(t) \in Place(m)
  <2>1. first + t \in Index(m) /\ c <= first + t /\ first <= first + t BY <1>1 DEF Index
  <2>2. Down(t) \in Place(m) BY <2>1, PlaceIs
  <2> QED BY <2>1, <2>2
<1>3. ASSUME NEW x \in T PROVE \E t \in 0 .. count - 1 : x = Down(t)
  <2>1. x \in Place(m) /\ x.panel = p /\ x.col = c /\ first <= x.row OBVIOUS
  <2>2. x.row \in 0 .. N - 1 /\ x = [panel |-> p, col |-> c, row |-> x.row]
    BY <2>1, PlaceTypes DEF Index
  <2>3. x.row - first \in 0 .. count - 1 /\ first + (x.row - first) = x.row BY <1>1, <2>1, <2>2
  <2> QED BY <2>2, <2>3
<1>4. \A t1, t2 \in 0 .. count - 1 : Down(t1) = Down(t2) => t1 = t2
  <2> SUFFICES ASSUME NEW t1 \in 0 .. count - 1, NEW t2 \in 0 .. count - 1, Down(t1) = Down(t2)
               PROVE  t1 = t2
    OBVIOUS
  <2>1. Down(t1).row = first + t1 /\ Down(t2).row = first + t2 OBVIOUS
  <2>2. first + t1 = first + t2 BY <2>1
  <2> QED BY <1>1, <2>2
<1>5. \A t \in 0 .. count - 1 : D[t] = {Down(t)} OBVIOUS
<1>6. \A t \in 0 .. count - 1 : body[t] = <<CallAt(m, Down(t))>> OBVIOUS
<1> HIDE DEF Down
<1>7. ASSUME NEW t \in 0 .. count - 1
      PROVE  D[t] \subseteq Place(m) /\ D[t] # {} /\ Lists(body[t], CallsAt(m, D[t]))
  <2>1. Lists(<<CallAt(m, Down(t))>>, CallsAt(m, {Down(t)})) BY OneCallLists
  <2> QED BY <1>2, <1>5, <1>6, <2>1
<1>8. ASSUME NEW t1 \in 0 .. count - 1, NEW t2 \in 0 .. count - 1, t1 # t2
      PROVE  D[t1] \cap D[t2] = {}
  BY <1>4, <1>5, <1>8
<1>9. \A x : x \in T <=> \E t \in 0 .. count - 1 : x \in D[t] BY <1>2, <1>3, <1>5
<1>10. Indices(m, count, body, D, T) BY <1>7, <1>8, <1>9 DEF Indices
<1> QED BY <1>10

\* The numbers of tiles behind one.
LEMMA CountBehind ==
    ASSUME NEW m, Regular(m), NEW f \in Nat, f <= Blocks(m)
    PROVE  (m.n - f * m.b) \div m.b = Blocks(m) - f
<1> DEFINE n == m.n
           b == m.b
           N == Blocks(m)
           d == N - f
<1>1. n \in Nat \ {0} /\ b \in Nat \ {0} /\ N \in Nat \ {0} /\ n = N * b
  BY BlocksOf DEF Regular
<1> HIDE DEF n, b, N
<1>2. d \in Nat /\ N = d + f BY <1>1, SMT DEF N
<1> HIDE DEF d
<1>3. (d + f) * b = d * b + f * b BY <1>1, <1>2, SMT
<1>4. d * b \in Nat /\ f * b \in Nat BY <1>1, <1>2, SMT
<1>5. n - f * b = d * b + 0 BY <1>1, <1>2, <1>3, <1>4
<1>6. 0 \in 0 .. b - 1 BY <1>1
<1>7. (d * b + 0) \div b = d BY <1>1, <1>2, <1>6, DivMod
<1> QED BY <1>5, <1>7 DEF n, b, N, d

LEMMA TrsmRangeRuns ==
    ASSUME NEW m, Regular(m), NEW p \in Index(m)
    PROVE  Runs(m, PhaseInstr(m), TrsmRange(m, At(m.n, p * m.b, p * m.b)), TrsmPlaces(m, p))
<1> DEFINE N == Blocks(m)
           n == m.n
           b == m.b
           i == p * b
           diag == At(n, i, i)
           panel == diag \div (n + 1)
           count == (n - panel - b) \div b
           Block(t) == At(n, panel + b + t * b, panel)
           body == [t \in 0 .. count - 1 |->
                <<[op |-> "trsm", args |-> <<Block(t), At(n, panel, panel), Block(t)>>]>>]
           T == {t \in Place(m) : t.panel = p /\ t.col = p /\ p + 1 <= t.row}
           D == [t \in 0 .. N - (p + 1) - 1 |-> {[panel |-> p, col |-> p, row |-> p + 1 + t]}]
<1>1. n \in Nat \ {0} /\ b \in Nat \ {0} /\ N \in Nat \ {0} /\ p \in 0 .. N - 1 /\ p \in Nat
  BY BlocksOf DEF Regular, Index
<1>2. TrsmRange(m, diag) = RangeSubmits(m, count, 1, body) BY DEF TrsmRange
<1>3. panel = i
  <2> HIDE DEF n, b
  <2>1. i \in Nat BY <1>1, SMT
  <2> HIDE DEF i
  <2>2. i * n + i = i * (n + 1) + 0 /\ n + 1 \in Nat \ {0} BY <1>1, <2>1, SMT
  <2>3. 0 \in 0 .. (n + 1) - 1 BY <1>1
  <2>4. (i * (n + 1) + 0) \div (n + 1) = i BY <2>1, <2>2, <2>3, DivMod
  <2> QED BY <2>2, <2>4 DEF At
<1>4. i + b = (p + 1) * b BY <1>1, NextStep
<1>5. count = N - (p + 1)
  <2>1. p + 1 \in Nat /\ p + 1 <= N BY <1>1
  <2>2. (n - (p + 1) * b) \div b = N - (p + 1) BY <2>1, CountBehind
  <2>3. i \in Nat BY <1>1, SMT
  <2> HIDE DEF n, b, i, N, panel
  <2>4. n - panel - b = n - (i + b) BY <1>1, <1>3, <2>3
  <2> QED BY <1>4, <2>2, <2>4
<1>6. ASSUME NEW t \in 0 .. count - 1
      PROVE  body[t] = <<CallAt(m, [panel |-> p, col |-> p, row |-> p + 1 + t])>>
  <2>1. t \in Nat /\ p # p + 1 + t BY <1>1, <1>5
  <2>2. panel + b + t * b = (p + 1 + t) * b
    <3>1. (p + 1 + t) * b = (p + 1) * b + t * b BY <1>1, <2>1, SMT
    <3> QED BY <1>3, <1>4, <3>1
  <2>3. Block(t) = TileAt(m, p + 1 + t, p) /\ At(n, panel, panel) = TileAt(m, p, p)
    BY <1>3, <2>2 DEF TileAt
  <2>4. body[t] = <<[op |-> "trsm", args |-> <<Block(t), At(n, panel, panel), Block(t)>>]>>
    OBVIOUS
  <2>5. CallAt(m, [panel |-> p, col |-> p, row |-> p + 1 + t]) =
            [op |-> "trsm", args |-> <<TileAt(m, p + 1 + t, p), TileAt(m, p, p),
                                       TileAt(m, p + 1 + t, p)>>]
    BY <2>1 DEF CallAt, TrsmCall, TileAt
  <2> HIDE DEF body, Block, n, panel
  <2> QED BY <2>3, <2>4, <2>5
<1> HIDE DEF body, panel, count
<1>7. Indices(m, N - (p + 1), body, D, T)
  <2>1. p + 1 \in Nat /\ p <= p + 1 /\ p + 1 <= N /\ p <= p BY <1>1
  <2>2. \A t \in 0 .. Blocks(m) - (p + 1) - 1 :
            body[t] = <<CallAt(m, [panel |-> p, col |-> p, row |-> p + 1 + t])>>
    BY <1>5, <1>6
  <2>3. \A t \in 0 .. Blocks(m) - (p + 1) - 1 :
            D[t] = {[panel |-> p, col |-> p, row |-> p + 1 + t]}
    OBVIOUS
  <2>4. \A x : x \in T <=> x \in Place(m) /\ x.panel = p /\ x.col = p /\ p + 1 <= x.row
    OBVIOUS
  <2> HIDE DEF N, T, D
  <2> QED BY <2>1, <2>2, <2>3, <2>4, ColumnIndices DEF N
<1>8. \A x, y \in T : Rank(x) <= Rank(y)
  <2>1. \A x \in T : Rank(x) = 3 * p + 1
    <3> TAKE x \in T
    <3>1. x \in Place(m) /\ x \in TrsmPlaces(m, p) BY <1>1, PlaceTypes DEF TrsmPlaces
    <3> QED BY <3>1, Ranks
  <2> QED BY <1>1, <2>1
<1>9. T = TrsmPlaces(m, p)
  <2>1. \A x \in Place(m) : x.panel = p /\ x.col = p => (p + 1 <= x.row <=> x.row # p)
    BY <1>1, PlaceTypes
  <2> QED BY <2>1 DEF TrsmPlaces
<1> HIDE DEF T, D, diag
<1>10. N - (p + 1) \in Nat /\ 1 \in Int BY <1>1
<1>11. Runs(m, PhaseInstr(m), RangeSubmits(m, N - (p + 1), 1, body), T)
  BY <1>7, <1>8, <1>10, RangeRuns
<1> QED BY <1>2, <1>5, <1>9, <1>11 DEF diag

LEMMA MaddRangeRuns ==
    ASSUME NEW m, Regular(m), NEW p \in Index(m), NEW c \in Index(m), p < c
    PROVE  Runs(m, PhaseInstr(m), MaddRange(m, At(m.n, c * m.b, p * m.b)), ColumnPlaces(m, p, c))
<1> DEFINE N == Blocks(m)
           n == m.n
           b == m.b
           j == c * b
           i == p * b
           b0 == At(n, j, i)
           row == b0 \div n
           stride == b * n
           count == (n - row) \div b
           body == [t \in 0 .. count - 1 |->
                <<[op |-> "madd",
                   args |-> <<b0 + t * stride, b0, At(n, row, row) + t * stride>>]>>]
           T == {t \in Place(m) : t.panel = p /\ t.col = c /\ c <= t.row}
           D == [t \in 0 .. N - c - 1 |-> {[panel |-> p, col |-> c, row |-> c + t]}]
<1>1. n \in Nat \ {0} /\ b \in Nat \ {0} /\ N \in Nat \ {0} /\ p \in Nat /\ c \in Nat /\ c <= N
      /\ n = N * b /\ p < N /\ c < N
  BY BlocksOf DEF Regular, Index
<1>2. MaddRange(m, b0) = RangeSubmits(m, count, 0, body) BY DEF MaddRange
<1>3. row = j
  <2> HIDE DEF n, b, N
  <2>1. i \in Nat /\ j \in Nat BY <1>1, SMT
  <2>2. i < n
    <3>1. (p + 1) * b <= N * b BY <1>1, Monotonic
    <3>2. (p + 1) * b = i + b BY <1>1, NextStep
    <3> QED BY <1>1, <2>1, <3>1, <3>2
  <2> HIDE DEF i, j
  <2>3. i \in 0 .. n - 1 BY <1>1, <2>1, <2>2
  <2> QED BY <1>1, <2>1, <2>3, DivMod DEF At
<1>4. count = N - c
  <2>1. (n - c * b) \div b = N - c BY <1>1, CountBehind
  <2> HIDE DEF n, b, N, row
  <2> QED BY <1>3, <2>1
<1>5. ASSUME NEW t \in 0 .. count - 1
      PROVE  body[t] = <<CallAt(m, [panel |-> p, col |-> c, row |-> c + t])>>
  <2>1. t \in Nat /\ p # c + t /\ p # c BY <1>1, <1>4
  <2>2. \A x \in Nat : At(n, j, x) + t * stride = At(n, (c + t) * b, x)
    <3> TAKE x \in Nat
    <3> HIDE DEF n, b
    <3>1. (c + t) * b = j + t * b BY <1>1, <2>1, SMT
    <3>2. t * b \in Nat /\ j \in Nat BY <1>1, <2>1, SMT
    <3> HIDE DEF j
    <3> DEFINE y == t * b
    <3>3. t * stride = y * n BY <1>1, <2>1, SMT
    <3> HIDE DEF y, stride
    <3>4. (j + y) * n = j * n + y * n BY <1>1, <3>2, SMT DEF y
    <3>5. j * n \in Nat /\ y * n \in Nat BY <1>1, <3>2, SMT DEF y
    <3>6. (c + t) * b = j + y BY <3>1 DEF y
    <3>7. At(n, (c + t) * b, x) = (j + y) * n + x /\ At(n, j, x) = j * n + x BY <3>6 DEF At
    <3> QED BY <3>3, <3>4, <3>5, <3>7
  <2>3. i \in Nat /\ j \in Nat
    <3> HIDE DEF b
    <3> QED BY <1>1, SMT
  <2>4. b0 + t * stride = TileAt(m, c + t, p) /\ b0 = TileAt(m, c, p) BY <2>2, <2>3 DEF TileAt
  <2>5. At(n, row, row) + t * stride = TileAt(m, c + t, c) BY <1>3, <2>2, <2>3 DEF TileAt
  <2>6. body[t] = <<[op |-> "madd",
                   args |-> <<b0 + t * stride, b0, At(n, row, row) + t * stride>>]>>
    OBVIOUS
  <2>7. CallAt(m, [panel |-> p, col |-> c, row |-> c + t]) =
            [op |-> "madd", args |-> <<TileAt(m, c + t, p), TileAt(m, c, p),
                                       TileAt(m, c + t, c)>>]
    BY <2>1 DEF CallAt, MaddCall, TileAt
  <2> HIDE DEF body, b0, n, row, stride
  <2> QED BY <2>4, <2>5, <2>6, <2>7
<1> HIDE DEF body, row, count
<1>6. Indices(m, N - c, body, D, T)
  <2>1. c \in Nat /\ p <= c /\ c <= N /\ c <= c BY <1>1
  <2>2. \A t \in 0 .. Blocks(m) - c - 1 :
            body[t] = <<CallAt(m, [panel |-> p, col |-> c, row |-> c + t])>>
    BY <1>4, <1>5
  <2>3. \A t \in 0 .. Blocks(m) - c - 1 : D[t] = {[panel |-> p, col |-> c, row |-> c + t]}
    OBVIOUS
  <2>4. \A x : x \in T <=> x \in Place(m) /\ x.panel = p /\ x.col = c /\ c <= x.row
    OBVIOUS
  <2> HIDE DEF N, T, D
  <2> QED BY <2>1, <2>2, <2>3, <2>4, ColumnIndices DEF N
<1>7. \A x, y \in T : Rank(x) <= Rank(y)
  <2>1. \A x \in T : Rank(x) = 3 * p + 2
    <3> TAKE x \in T
    <3>1. x \in Place(m) /\ x \in MaddPlaces(m, p) BY <1>1, PlaceTypes DEF MaddPlaces
    <3> QED BY <3>1, Ranks
  <2> QED BY <1>1, <2>1
<1>8. T = ColumnPlaces(m, p, c)
  <2>1. \A x \in Place(m) : x.col = c => c <= x.row BY PlaceTypes
  <2> QED BY <2>1 DEF ColumnPlaces
<1> HIDE DEF T, D, b0
<1>9. N - c \in Nat /\ 0 \in Int BY <1>1
<1>10. Runs(m, PhaseInstr(m), RangeSubmits(m, N - c, 0, body), T)
  BY <1>6, <1>7, <1>9, RangeRuns
<1> QED BY <1>2, <1>4, <1>8, <1>10 DEF b0

\* Parts that run one behind the other.
LEMMA PartsRun ==
    ASSUME NEW m, Regular(m), NEW I, NEW n \in Nat, NEW ss, ss = [i \in 1 .. n |-> ss[i]],
           NEW T, NEW U,
           \A i \in 1 .. n : Runs(m, I, ss[i], T[i]),
           \A i1, i2 \in 1 .. n : i1 < i2 => Follows(T[i1], T[i2]),
           \A t : t \in U <=> \E i \in 1 .. n : t \in T[i]
    PROVE  Runs(m, I, FlattenSeq(ss), U)
<1> DEFINE s == FlattenSeq(ss)
<1>1. ss \in Seq(Seq(I))
  <2> DEFINE J == Seq(I)
  <2>1. \A i \in 1 .. n : ss[i] \in J BY DEF Runs
  <2>2. ss \in [1 .. n -> J] BY <2>1
  <2> HIDE DEF J
  <2>3. ss \in Seq(J) BY <2>2, FunctionIsSeq, Zenon
  <2> QED BY <2>3 DEF J
<1>2. DOMAIN ss = 1 .. n OBVIOUS
<1>3. s \in Seq(I) BY <1>1, FlattenIsLaid
<1>4. PICK part, place : Laid(ss, s, part, place) BY <1>1, FlattenIsLaid
<1> HIDE DEF s
<1>5. Runs(m, I, s, U) BY <1>1, <1>2, <1>3, <1>4, RunsLaid
<1> QED BY <1>5 DEF s

\* A range for every column of a panel.
LEMMA MaddRangesRun ==
    ASSUME NEW m, Regular(m), NEW p \in Index(m)
    PROVE  LET cols == Steps(p * m.b + m.b, m.n, m.b)
           IN Runs(m, PhaseInstr(m),
                   FlattenSeq([c \in DOMAIN cols |-> MaddRange(m, At(m.n, cols[c], p * m.b))]),
                   MaddPlaces(m, p))
<1> DEFINE n == Blocks(m) - p - 1
           cols == Steps(p * m.b + m.b, m.n, m.b)
           ss == [c \in DOMAIN cols |-> MaddRange(m, At(m.n, cols[c], p * m.b))]
           T == [c \in 1 .. n |-> ColumnPlaces(m, p, p + c)]
           U == MaddPlaces(m, p)
<1>1. Blocks(m) \in Nat \ {0} /\ p \in Nat /\ p < Blocks(m) /\ n \in Nat BY BlocksOf DEF Index
<1>2. cols = [s \in 1 .. n |-> (p + s) * m.b] BY StepsBehind
<1> HIDE DEF cols
<1>3. DOMAIN ss = 1 .. n BY <1>2
<1>4. ASSUME NEW c \in 1 .. n PROVE p + c \in Index(m) /\ p < p + c BY <1>1 DEF Index
<1>5. \A c \in 1 .. n : ss[c] = MaddRange(m, At(m.n, (p + c) * m.b, p * m.b)) BY <1>2
<1>6. ss = [i \in 1 .. n |-> ss[i]] BY <1>3
<1>7. \A c \in 1 .. n : T[c] = ColumnPlaces(m, p, p + c) OBVIOUS
<1>8. ASSUME NEW x PROVE x \in U <=> \E c \in 1 .. n : x \in T[c]
  <2>1. ASSUME x \in U PROVE \E c \in 1 .. n : x \in T[c]
    <3>1. x \in Place(m) /\ x.panel = p /\ x.col # p BY <2>1 DEF MaddPlaces
    <3>2. x.col \in 0 .. Blocks(m) - 1 /\ p <= x.col BY <3>1, PlaceTypes DEF Index
    <3>3. x.col - p \in 1 .. n /\ p + (x.col - p) = x.col BY <1>1, <3>1, <3>2
    <3>4. x \in T[x.col - p] BY <1>7, <3>1, <3>3 DEF ColumnPlaces
    <3> QED BY <3>3, <3>4
  <2>2. ASSUME NEW c \in 1 .. n, x \in T[c] PROVE x \in U
    <3>1. x \in Place(m) /\ x.panel = p /\ x.col = p + c BY <1>7, <2>2 DEF ColumnPlaces
    <3>2. p + c # p BY <1>1
    <3> QED BY <3>1, <3>2 DEF MaddPlaces
  <2> QED BY <2>1, <2>2
<1>9. U \subseteq Place(m) /\ \A x \in U : Rank(x) = 3 * p + 2 BY Ranks DEF MaddPlaces
<1> HIDE DEF ss, T, U, n
<1>10. \A c \in 1 .. n : Runs(m, PhaseInstr(m), ss[c], T[c]) BY <1>4, <1>5, <1>7, MaddRangeRuns
<1>11. ASSUME NEW c1 \in 1 .. n, NEW c2 \in 1 .. n, c1 < c2 PROVE Follows(T[c1], T[c2])
  <2>1. T[c1] \subseteq U /\ T[c2] \subseteq U BY <1>8
  <2>2. T[c1] \cap T[c2] = {}
    <3>1. p + c1 # p + c2 BY <1>1, <1>11
    <3> QED BY <1>7, <3>1 DEF ColumnPlaces
  <2>3. \A x \in T[c1], y \in T[c2] : Rank(x) <= Rank(y) BY <1>1, <1>9, <2>1
  <2> QED BY <2>2, <2>3 DEF Follows
<1>12. n \in Nat BY <1>1 DEF n
<1>13. Runs(m, PhaseInstr(m), FlattenSeq(ss), U)
  BY <1>6, <1>8, <1>10, <1>11, <1>12, PartsRun
<1> QED BY <1>13 DEF ss, U, cols

-----------------------------------------------------------------------------
(* Ranges of groups of tiles. *)

\* range_group_width is positive.
LEMMA WidthIsPositive ==
    ASSUME NEW m, Regular(m)
    PROVE  RangeGroupWidth(m.env, m.n, m.b) \in Nat \ {0}
<1> DEFINE n == m.n
           b == m.b
           width == m.env.group_width
           blocks == n \div b
           wide == Even(Max({2, (blocks + 15) \div 16}))
           narrow == 2 * (Max({2, 72 \div b}) \div 2)
<1>1. n \in Nat \ {0} /\ b \in Nat \ {0} BY DEF Regular
<1>2. width \in 0 .. 16 BY DEF Regular, Environment
<1>3. wide \in Nat
  <2> HIDE DEF n, b
  <2>1. blocks \in Nat BY <1>1, Division
  <2> HIDE DEF blocks
  <2> DEFINE x == (blocks + 15) \div 16
             y == Max({2, x})
  <2>2. x \in Nat BY <2>1, Division
  <2> HIDE DEF x
  <2>3. y = IF 2 >= x THEN 2 ELSE x BY <2>2, MaxOfTwo
  <2> HIDE DEF y
  <2>4. y \in Nat BY <2>2, <2>3
  <2>5. y % 2 \in Nat BY <2>4, SMT
  <2> QED BY <2>4, <2>5 DEF Even, x, y
<1>4. narrow \in Nat
  <2> HIDE DEF n, b
  <2> DEFINE x == 72 \div b
             y == Max({2, x})
             z == y \div 2
  <2>1. x \in Nat BY <1>1, Division
  <2> HIDE DEF x
  <2>2. y = IF 2 >= x THEN 2 ELSE x BY <2>1, MaxOfTwo
  <2> HIDE DEF y
  <2>3. y \in Nat BY <2>1, <2>2
  <2>4. z \in Nat BY <2>3, Division
  <2> HIDE DEF z
  <2>5. 2 * z \in Nat BY <2>4
  <2> QED BY <2>5 DEF x, y, z
<1>5. CASE width > 0
  <2>1. RangeGroupWidth(m.env, n, b) = width BY <1>2, <1>5 DEF RangeGroupWidth
  <2> QED BY <1>2, <1>5, <2>1
<1>6. CASE width = 0 /\ b \in 1 .. 12
  <2>1. RangeGroupWidth(m.env, n, b) = Max({2, Min({wide, narrow})})
    BY <1>1, <1>6 DEF RangeGroupWidth
  <2> HIDE DEF wide, narrow
  <2> DEFINE least == Min({wide, narrow})
  <2>2. least = IF wide <= narrow THEN wide ELSE narrow BY <1>3, <1>4, MinOfTwo
  <2> HIDE DEF least
  <2>3. least \in Nat BY <1>3, <1>4, <2>2
  <2>4. Max({2, least}) = IF 2 >= least THEN 2 ELSE least BY <2>3, MaxOfTwo
  <2> QED BY <2>1, <2>3, <2>4 DEF least
<1>7. CASE width = 0 /\ b \notin 1 .. 12
  <2>1. RangeGroupWidth(m.env, n, b) \in {1, 2, 4}
    BY <1>1, <1>7 DEF RangeGroupWidth
  <2> QED BY <2>1
<1> QED BY <1>2, <1>5, <1>6, <1>7

\* The number of groups of a triangle with k columns.
Triangle(k) == (k * (k + 1)) \div 2

LEMMA Triangles ==
    ASSUME NEW k \in Nat
    PROVE  /\ Triangle(k) \in Nat
           /\ Triangle(k + 1) = Triangle(k) + k + 1
<1>1. \A i \in Nat : \E h \in Nat : i * (i + 1) = 2 * h
  <2> TAKE i \in Nat
  <2> DEFINE q == i \div 2
  <2>1. q \in Nat /\ (i = 2 * q \/ i = 2 * q + 1) BY SMT
  <2> HIDE DEF q
  <2>2. CASE i = 2 * q
    <3>1. i * (i + 1) = 2 * (q * (i + 1)) BY <2>1, <2>2, SMT
    <3>2. q * (i + 1) \in Nat BY <2>1, SMT
    <3> QED BY <3>1, <3>2
  <2>3. CASE i = 2 * q + 1
    <3>1. i + 1 = 2 * (q + 1) BY <2>1, <2>3
    <3>2. i * (i + 1) = 2 * (i * (q + 1)) BY <2>1, <3>1, SMT
    <3>3. i * (q + 1) \in Nat BY <2>1, SMT
    <3> QED BY <3>2, <3>3
  <2> QED BY <2>1, <2>2, <2>3
<1>2. \A i \in Nat : Triangle(i) \in Nat /\ 2 * Triangle(i) = i * (i + 1)
  <2> TAKE i \in Nat
  <2>1. PICK h \in Nat : i * (i + 1) = 2 * h BY <1>1
  <2>2. Triangle(i) = h BY <2>1 DEF Triangle
  <2> QED BY <2>1, <2>2
<1>3. 2 * Triangle(k) = k * (k + 1) /\ 2 * Triangle(k + 1) = (k + 1) * ((k + 1) + 1) BY <1>2
<1>4. (k + 1) * ((k + 1) + 1) = k * (k + 1) + 2 * (k + 1) BY SMT
<1>5. Triangle(k) \in Nat /\ Triangle(k + 1) \in Nat BY <1>2
<1> DEFINE a == Triangle(k)
           c == Triangle(k + 1)
           d == k * (k + 1)
<1>6. 2 * a = d /\ 2 * c = d + 2 * (k + 1) /\ a \in Nat /\ c \in Nat BY <1>3, <1>4, <1>5
<1>7. d \in Nat BY SMT
<1> HIDE DEF a, c, d
<1>8. c = a + k + 1 BY <1>6, <1>7
<1> QED BY <1>5, <1>8 DEF a, c

LEMMA TrianglesGrow ==
    ASSUME NEW j \in Nat, NEW k \in Nat, j <= k
    PROVE  Triangle(j) <= Triangle(k)
<1> DEFINE Bad == {d \in Nat : ~(Triangle(j) <= Triangle(j + d))}
<1>1. 0 \notin Bad BY Triangles
<1>2. ASSUME NEW d \in Nat, d \notin Bad PROVE d + 1 \notin Bad
  <2>1. Triangle(j) <= Triangle(j + d) BY <1>2
  <2>2. j + d \in Nat /\ j + (d + 1) = (j + d) + 1 OBVIOUS
  <2>3. Triangle((j + d) + 1) = Triangle(j + d) + (j + d) + 1 /\ Triangle(j + d) \in Nat
    BY <2>2, Triangles
  <2>4. Triangle(j) \in Nat BY Triangles
  <2>5. Triangle(j) <= Triangle(j + (d + 1)) BY <2>1, <2>2, <2>3, <2>4
  <2> QED BY <2>5
<1>3. Bad \subseteq Nat OBVIOUS
<1> HIDE DEF Bad
<1>4. Bad = {} BY <1>1, <1>2, <1>3, NoFirst
<1>5. k - j \in Nat /\ j + (k - j) = k OBVIOUS
<1> QED BY <1>4, <1>5 DEF Bad

\* Group unpacks an index: column c of groups holds those from Before(groups, c)
\* up to Before(groups, c + 1).
Before(groups, c) == Triangle(groups) - Triangle(groups - c)

LEMMA BeforeStep ==
    ASSUME NEW groups \in Nat, NEW c \in 0 .. groups - 1
    PROVE  /\ Before(groups, c) \in Nat
           /\ Before(groups, c + 1) = Before(groups, c) + (groups - c)
<1> DEFINE k == groups - (c + 1)
<1>1. k \in Nat /\ k + 1 = groups - c /\ k = groups - (c + 1) /\ k + 1 <= groups /\ k + 1 \in Nat
  OBVIOUS
<1> HIDE DEF k
<1>2. Triangle(k + 1) = Triangle(k) + k + 1 /\ Triangle(k) \in Nat BY <1>1, Triangles
<1>3. Triangle(k + 1) <= Triangle(groups) /\ Triangle(groups) \in Nat
  BY <1>1, TrianglesGrow, Triangles
<1>4. /\ Before(groups, c) = Triangle(groups) - Triangle(k + 1)
      /\ Before(groups, c + 1) = Triangle(groups) - Triangle(k)
  BY <1>1 DEF Before
<1> QED BY <1>1, <1>2, <1>3, <1>4

LEMMA BeforeGrows ==
    ASSUME NEW groups \in Nat, NEW c \in 0 .. groups, NEW d \in 0 .. groups, c <= d
    PROVE  Before(groups, c) \in Nat /\ Before(groups, d) \in Nat /\ Before(groups, c) <= Before(groups, d)
<1>1. /\ groups - c \in Nat /\ groups - d \in Nat /\ groups - d <= groups - c
      /\ groups - c <= groups /\ groups - d <= groups
  OBVIOUS
<1>2. /\ Triangle(groups - d) <= Triangle(groups - c)
      /\ Triangle(groups - c) <= Triangle(groups)
  BY <1>1, TrianglesGrow
<1>3. Triangle(groups - d) \in Nat /\ Triangle(groups - c) \in Nat /\ Triangle(groups) \in Nat
  BY <1>1, Triangles
<1> QED BY <1>2, <1>3 DEF Before

LEMMA BeforeEnds ==
    ASSUME NEW groups \in Nat
    PROVE  Before(groups, 0) = 0 /\ Before(groups, groups) = Triangle(groups)
<1>1. Triangle(0) = 0 BY DEF Triangle
<1>2. groups - 0 = groups /\ groups - groups = 0 OBVIOUS
<1>3. Triangle(groups) \in Nat BY Triangles
<1> QED BY <1>1, <1>2, <1>3 DEF Before

\* What is left of the index behind the columns before c.
LEMMA ResidualIs ==
    ASSUME NEW groups \in Nat, NEW index \in Int, NEW F,
           F = CHOOSE residual : residual = [c \in 0 .. groups |->
                  IF c = 0 THEN index ELSE residual[c - 1] - (groups - (c - 1))]
    PROVE  \A c \in 0 .. groups : F[c] = index - Before(groups, c)
<1> DEFINE Rec(f) == f = [c \in 0 .. groups |->
                            IF c = 0 THEN index ELSE f[c - 1] - (groups - (c - 1))]
           g == [c \in 0 .. groups |-> index - Before(groups, c)]
<1>1. ASSUME NEW c \in 1 .. groups
      PROVE  /\ c - 1 \in 0 .. groups
             /\ index - Before(groups, c) = (index - Before(groups, c - 1)) - (groups - (c - 1))
  <2>1. c - 1 \in 0 .. groups - 1 /\ (c - 1) + 1 = c /\ c - 1 \in 0 .. groups OBVIOUS
  <2>2. /\ Before(groups, c - 1) \in Nat
        /\ Before(groups, (c - 1) + 1) = Before(groups, c - 1) + (groups - (c - 1))
    BY <2>1, BeforeStep
  <2> QED BY <2>1, <2>2
<1>2. index - Before(groups, 0) = index BY BeforeEnds
<1>3. Rec(g)
  <2>1. ASSUME NEW c \in 0 .. groups
        PROVE  g[c] = IF c = 0 THEN index ELSE g[c - 1] - (groups - (c - 1))
    <3>1. CASE c = 0 BY <1>2, <3>1
    <3>2. CASE c # 0
      <4>1. c \in 1 .. groups BY <3>2
      <4>2. c - 1 \in 0 .. groups BY <1>1, <4>1
      <4>3. g[c] = index - Before(groups, c) /\ g[c - 1] = index - Before(groups, c - 1)
        BY <4>2
      <4>4. g[c] = g[c - 1] - (groups - (c - 1)) BY <1>1, <4>1, <4>3
      <4> QED BY <3>2, <4>4
    <3> QED BY <3>1, <3>2
  <2>2. g = [c \in 0 .. groups |-> g[c]] OBVIOUS
  <2> HIDE DEF g
  <2> QED BY <2>1, <2>2
<1>4. Rec(F)
  <2>1. F = CHOOSE f : Rec(f) OBVIOUS
  <2> HIDE DEF Rec
  <2> QED BY <1>3, <2>1, Zenon
<1>5. \A c \in 0 .. groups : F[c] = IF c = 0 THEN index ELSE F[c - 1] - (groups - (c - 1))
  BY <1>4
<1> DEFINE Bad == {c \in Nat : c <= groups /\ F[c] # index - Before(groups, c)}
<1>6. 0 \notin Bad BY <1>2, <1>5
<1>7. ASSUME NEW c \in Nat, c \notin Bad PROVE c + 1 \notin Bad
  <2>1. CASE c + 1 <= groups
    <3>1. c + 1 \in 1 .. groups /\ (c + 1) - 1 = c /\ c <= groups /\ c + 1 # 0
          /\ c + 1 \in 0 .. groups
      BY <2>1
    <3>2. F[c] = index - Before(groups, c) BY <1>7, <3>1
    <3>3. F[c + 1] = F[c] - (groups - c) BY <1>5, <3>1
    <3>4. index - Before(groups, c + 1) = (index - Before(groups, c)) - (groups - c)
      BY <1>1, <3>1
    <3> QED BY <3>2, <3>3, <3>4
  <2>2. CASE ~(c + 1 <= groups) BY <2>2
  <2> QED BY <2>1, <2>2
<1>8. Bad \subseteq Nat OBVIOUS
<1> HIDE DEF Bad
<1>9. Bad = {} BY <1>6, <1>7, <1>8, NoFirst
<1> QED BY <1>9 DEF Bad

\* The groups of groups x groups tiles on and below the diagonal, and their indices.
GroupIndex(groups, group) == Before(groups, group.col) + (group.row - group.col)

LEMMA GroupIs ==
    ASSUME NEW groups \in Nat, NEW index \in 0 .. Triangle(groups) - 1
    PROVE  LET group == Group(index, groups) IN
           /\ group = [row |-> group.row, col |-> group.col]
           /\ group.row \in 0 .. groups - 1 /\ group.col \in 0 .. groups - 1
           /\ group.col <= group.row
           /\ GroupIndex(groups, group) = index
<1> DEFINE F == CHOOSE residual : residual = [c \in 0 .. groups |->
                    IF c = 0 THEN index ELSE residual[c - 1] - (groups - (c - 1))]
           S == {c \in 0 .. groups : F[c] < groups - c}
           column == Min(S)
           group == Group(index, groups)
<1>1. group = [row |-> column + F[column], col |-> column] BY DEF Group
<1>2. index \in Nat /\ Triangle(groups) \in Nat /\ index < Triangle(groups) BY Triangles
<1>3. \A c \in 0 .. groups : F[c] = index - Before(groups, c)
  <2> DEFINE G == F
  <2>1. index \in Int BY <1>2
  <2>2. F = CHOOSE residual : residual = [c \in 0 .. groups |->
                    IF c = 0 THEN index ELSE residual[c - 1] - (groups - (c - 1))]
    OBVIOUS
  <2> HIDE DEF F
  <2> QED BY <2>1, <2>2, ResidualIs
<1> HIDE DEF F
<1>4. groups \in S
  <2>1. groups \in 0 .. groups /\ groups - groups = 0 OBVIOUS
  <2>2. F[groups] = index - Triangle(groups) BY <1>3, <2>1, BeforeEnds
  <2>3. F[groups] < groups - groups BY <1>2, <2>1, <2>2
  <2> QED BY <2>1, <2>3
<1>5. column \in S /\ \A c \in S : column <= c
  <2>1. S \subseteq Nat /\ S # {} BY <1>4
  <2>2. \E x \in S : \A y \in S : x <= y BY <2>1, LeastElement
  <2> HIDE DEF S
  <2> QED BY <2>2, Zenon DEF Min
<1>6. column \in 0 .. groups /\ F[column] < groups - column BY <1>5
<1>7. \A c \in 0 .. groups : c < column => ~(F[c] < groups - c)
  <2> SUFFICES ASSUME NEW c \in 0 .. groups, c < column, F[c] < groups - c PROVE FALSE
    OBVIOUS
  <2>1. column <= c BY <1>5
  <2> HIDE DEF column
  <2> QED BY <1>6, <2>1
<1> HIDE DEF S, column, group
<1>8. F[column] \in Nat
  <2>1. CASE column = 0
    <3>1. F[column] = index BY <1>2, <1>3, <2>1, BeforeEnds
    <3> QED BY <1>2, <3>1
  <2>2. CASE column # 0
    <3> DEFINE c == column - 1
    <3>1. c \in 0 .. groups - 1 /\ c + 1 = column /\ c \in 0 .. groups /\ c < column
      BY <1>6, <2>2
    <3> HIDE DEF c
    <3>2. /\ Before(groups, c) \in Nat
          /\ Before(groups, c + 1) = Before(groups, c) + (groups - c)
      BY <3>1, BeforeStep
    <3>3. ~(index - Before(groups, c) < groups - c) BY <1>3, <1>7, <3>1
    <3>4. F[column] = index - Before(groups, c + 1) BY <1>3, <1>6, <3>1
    <3>5. index - (Before(groups, c) + (groups - c)) \in Nat BY <1>2, <3>1, <3>2, <3>3
    <3> QED BY <3>2, <3>4, <3>5
  <2> QED BY <2>1, <2>2
<1>9. column \in 0 .. groups - 1 BY <1>6, <1>8
<1>10. group.row = column + F[column] /\ group.col = column
       /\ group = [row |-> group.row, col |-> group.col]
  BY <1>1
<1>11. GroupIndex(groups, group) = index
  <2>1. F[column] = index - Before(groups, column) BY <1>3, <1>6
  <2>2. Before(groups, column) \in Nat BY <1>9, BeforeStep
  <2>3. GroupIndex(groups, group) = Before(groups, column) + ((column + F[column]) - column)
    BY <1>10 DEF GroupIndex
  <2> QED BY <1>2, <1>6, <2>1, <2>2, <2>3
<1>12. /\ column + F[column] \in 0 .. groups - 1 /\ column <= column + F[column]
  BY <1>6, <1>8, <1>9
<1> QED BY <1>9, <1>10, <1>11, <1>12 DEF group

\* Every group on or below the diagonal has an index, and no two have the same.
LEMMA GroupOfIndex ==
    ASSUME NEW groups \in Nat, NEW row \in 0 .. groups - 1, NEW col \in 0 .. groups - 1, col <= row
    PROVE  LET index == GroupIndex(groups, [row |-> row, col |-> col]) IN
           /\ index \in 0 .. Triangle(groups) - 1
           /\ Group(index, groups) = [row |-> row, col |-> col]
<1> DEFINE group == [row |-> row, col |-> col]
           index == GroupIndex(groups, group)
<1>1. /\ Before(groups, col) \in Nat
      /\ Before(groups, col + 1) = Before(groups, col) + (groups - col)
  BY BeforeStep
<1>2. index = Before(groups, col) + (row - col) BY DEF GroupIndex
<1> HIDE DEF index
<1>3. index \in Nat /\ Before(groups, col) <= index /\ index < Before(groups, col + 1)
  BY <1>1, <1>2
<1>4. index < Triangle(groups)
  <2>1. col + 1 \in 0 .. groups /\ groups \in 0 .. groups /\ col + 1 <= groups OBVIOUS
  <2>2. /\ Before(groups, col + 1) \in Nat /\ Before(groups, groups) \in Nat
        /\ Before(groups, col + 1) <= Before(groups, groups)
    BY <2>1, BeforeGrows
  <2>3. Before(groups, groups) = Triangle(groups) BY BeforeEnds
  <2> QED BY <1>3, <2>2, <2>3
<1>5. index \in 0 .. Triangle(groups) - 1 BY <1>3, <1>4, Triangles
<1> DEFINE g == Group(index, groups)
<1>6. /\ g = [row |-> g.row, col |-> g.col]
      /\ g.row \in 0 .. groups - 1 /\ g.col \in 0 .. groups - 1
      /\ g.col <= g.row
      /\ GroupIndex(groups, g) = index
  BY <1>5, GroupIs
<1> HIDE DEF g
<1>7. /\ Before(groups, g.col) \in Nat
      /\ Before(groups, g.col + 1) = Before(groups, g.col) + (groups - g.col)
  BY <1>6, BeforeStep
<1>8. index = Before(groups, g.col) + (g.row - g.col) BY <1>6 DEF GroupIndex
<1>9. Before(groups, g.col) <= index /\ index < Before(groups, g.col + 1)
  BY <1>6, <1>7, <1>8
<1>10. g.col = col
  <2>1. CASE g.col < col
    <3>1. g.col + 1 \in 0 .. groups /\ col \in 0 .. groups /\ g.col + 1 <= col BY <1>6, <2>1
    <3>2. /\ Before(groups, g.col + 1) <= Before(groups, col)
          /\ Before(groups, g.col + 1) \in Nat
      BY <3>1, BeforeGrows
    <3> QED BY <1>1, <1>3, <1>9, <3>2
  <2>2. CASE col < g.col
    <3>1. col + 1 \in 0 .. groups /\ g.col \in 0 .. groups /\ col + 1 <= g.col BY <1>6, <2>2
    <3>2. /\ Before(groups, col + 1) <= Before(groups, g.col)
          /\ Before(groups, col + 1) \in Nat
      BY <3>1, BeforeGrows
    <3> QED BY <1>3, <1>7, <1>9, <3>2
  <2> QED BY <1>6, <2>1, <2>2
<1>11. g.row = row BY <1>1, <1>2, <1>6, <1>8, <1>10
<1> QED BY <1>5, <1>6, <1>10, <1>11 DEF index, g

\* The tiles of a group.
GroupPlaces(m, p, w, group) ==
    {t \in Place(m) :
        /\ t.panel = p /\ t.col # p
        /\ (t.row - p - 1) \div w = group.row
        /\ (t.col - p - 1) \div w = group.col}

GroupRowPlaces(m, p, w, group, row) == {t \in GroupPlaces(m, p, w, group) : t.row = row}

\* A quotient is where the number lies.
LEMMA QuotientIs ==
    ASSUME NEW y \in Nat, NEW w \in Nat \ {0}, NEW q \in Nat
    PROVE  /\ y \div w \in Nat
           /\ y \div w = q <=> q * w <= y /\ y < q * w + w
<1> DEFINE d == y \div w
<1>1. d \in Nat /\ d * w <= y /\ y < d * w + w BY Division
<1> HIDE DEF d
<1>2. ASSUME q * w <= y, y < q * w + w PROVE d = q
  <2>1. (d + 1) * w = d * w + w /\ (q + 1) * w = q * w + w BY <1>1, SMT
  <2>2. d * w \in Nat /\ q * w \in Nat BY <1>1, SMT
  <2>3. q * w < (d + 1) * w /\ d * w < (q + 1) * w BY <1>1, <1>2, <2>1, <2>2
  <2>4. q < d + 1 /\ d < q + 1 BY <1>1, <2>3, Monotonic
  <2> QED BY <1>1, <2>4
<1> QED BY <1>1, <1>2 DEF d

LEMMA MinOfThree ==
    ASSUME NEW a \in Int, NEW b \in Int, NEW c \in Int
    PROVE  /\ Min({a, b, c}) \in {a, b, c}
           /\ Min({a, b, c}) <= a /\ Min({a, b, c}) <= b /\ Min({a, b, c}) <= c
<1>1. \E x \in {a, b, c} : \A y \in {a, b, c} : x <= y BY SMT
<1>2. Min({a, b, c}) \in {a, b, c} /\ \A y \in {a, b, c} : Min({a, b, c}) <= y
  BY <1>1, Zenon DEF Min
<1> QED BY <1>2

\* The first row or column of a group, in tiles.
Corner(p, w, g) == p + 1 + g * w

LEMMA GroupPlacesAre ==
    ASSUME NEW m, Regular(m), NEW p \in Index(m), NEW w \in Nat \ {0}, NEW group,
           group.row \in Nat, group.col \in Nat, NEW x \in Place(m)
    PROVE  LET r0 == Corner(p, w, group.row)
               c0 == Corner(p, w, group.col)
           IN x \in GroupPlaces(m, p, w, group) <=>
                /\ x.panel = p
                /\ r0 <= x.row /\ x.row < r0 + w
                /\ c0 <= x.col /\ x.col < c0 + w
<1> DEFINE r == group.row
           c == group.col
<1>1. p \in Nat BY BlocksOf DEF Index
<1>2. x.row \in Nat /\ x.col \in Nat /\ x.panel \in Nat /\ x.panel <= x.col /\ x.col <= x.row
  BY PlaceTypes
<1>3. ASSUME NEW y \in Nat, p < y, NEW g \in Nat
      PROVE  (y - p - 1) \div w = g <=> Corner(p, w, g) <= y /\ y < Corner(p, w, g) + w
  <2> DEFINE z == y - p - 1
             h == g * w
  <2>1. z \in Nat /\ y = p + 1 + z BY <1>1, <1>3
  <2>2. h \in Nat BY SMT
  <2> HIDE DEF z
  <2>3. z \div w = g <=> h <= z /\ z < h + w BY <2>1, QuotientIs
  <2> HIDE DEF h
  <2>4. Corner(p, w, g) = p + 1 + h BY DEF Corner, h
  <2> QED BY <1>1, <2>1, <2>2, <2>3, <2>4 DEF z
<1>4. ASSUME NEW g \in Nat PROVE Corner(p, w, g) \in Nat /\ p < Corner(p, w, g)
  <2>1. g * w \in Nat BY SMT
  <2> QED BY <1>1, <2>1 DEF Corner
<1>5. ASSUME x \in GroupPlaces(m, p, w, group)
      PROVE  /\ x.panel = p
             /\ Corner(p, w, r) <= x.row /\ x.row < Corner(p, w, r) + w
             /\ Corner(p, w, c) <= x.col /\ x.col < Corner(p, w, c) + w
  <2>1. /\ x.panel = p /\ x.col # p
        /\ (x.row - p - 1) \div w = r /\ (x.col - p - 1) \div w = c
    BY <1>5 DEF GroupPlaces
  <2>2. p < x.col /\ p < x.row BY <1>1, <1>2, <2>1
  <2> QED BY <1>2, <1>3, <2>1, <2>2
<1>6. ASSUME x.panel = p,
             Corner(p, w, r) <= x.row, x.row < Corner(p, w, r) + w,
             Corner(p, w, c) <= x.col, x.col < Corner(p, w, c) + w
      PROVE  x \in GroupPlaces(m, p, w, group)
  <2>1. p < x.row /\ p < x.col BY <1>1, <1>2, <1>4, <1>6
  <2>2. (x.row - p - 1) \div w = r /\ (x.col - p - 1) \div w = c BY <1>2, <1>3, <1>6, <2>1
  <2>3. x.col # p BY <1>1, <1>2, <2>1
  <2> QED BY <1>6, <2>2, <2>3 DEF GroupPlaces
<1> QED BY <1>5, <1>6

\* The column behind the last of a group in the row of tiles k.
ColumnLimit(m, k, c0, w) == Min({k + 1, c0 + w, Blocks(m)})

LEMMA GroupRowLists ==
    ASSUME NEW m, Regular(m), NEW p \in Index(m), NEW w \in Nat \ {0}, NEW group,
           group.row \in Nat, group.col \in Nat,
           NEW k \in Index(m), Corner(p, w, group.row) <= k, k < Corner(p, w, group.row) + w,
           Corner(p, w, group.col) <= k
    PROVE  LET c0 == Corner(p, w, group.col)
               count == ColumnLimit(m, k, c0, w) - c0
           IN /\ count \in Nat \ {0}
              /\ Lists([c \in 1 .. count |->
                            CallAt(m, [panel |-> p, col |-> c0 + c - 1, row |-> k])],
                       CallsAt(m, GroupRowPlaces(m, p, w, group, k)))
<1> DEFINE N == Blocks(m)
           c0 == Corner(p, w, group.col)
           limit == ColumnLimit(m, k, c0, w)
           count == limit - c0
           f == [c \in 1 .. count |-> [panel |-> p, col |-> c0 + c - 1, row |-> k]]
           T == GroupRowPlaces(m, p, w, group, k)
<1>1. N \in Nat \ {0} /\ p \in 0 .. N - 1 /\ p \in Nat /\ k \in 0 .. N - 1 BY BlocksOf DEF Index
<1>2. c0 \in Nat /\ p < c0
  <2>1. group.col * w \in Nat BY SMT
  <2> QED BY <1>1, <2>1 DEF Corner
<1>3. ASSUME NEW x \in Place(m)
      PROVE  x \in T <=> x.panel = p /\ x.row = k /\ c0 <= x.col /\ x.col < c0 + w
  BY GroupPlacesAre DEF GroupRowPlaces
<1>4. T \subseteq Place(m) BY DEF GroupRowPlaces, GroupPlaces
<1> HIDE DEF c0, T
<1>5. limit \in {k + 1, c0 + w, N} /\ limit <= k + 1 /\ limit <= c0 + w /\ limit <= N
  <2>1. k + 1 \in Int /\ c0 + w \in Int /\ N \in Int BY <1>1, <1>2
  <2> QED BY <2>1, MinOfThree DEF ColumnLimit
<1>6. c0 < limit /\ limit \in Nat
  <2>1. c0 < k + 1 /\ c0 < c0 + w /\ c0 < N BY <1>1, <1>2 DEF c0
  <2> HIDE DEF limit
  <2> QED BY <1>1, <1>2, <1>5, <2>1
<1> HIDE DEF limit
<1>7. count \in Nat \ {0} BY <1>2, <1>6
<1>8. ASSUME NEW c \in 1 .. count PROVE f[c] \in T
  <2> DEFINE x == [panel |-> p, col |-> c0 + c - 1, row |-> k]
  <2>1. c0 + c - 1 \in Index(m) /\ p <= c0 + c - 1 /\ c0 + c - 1 <= k
    BY <1>1, <1>2, <1>5, <1>6 DEF Index
  <2>2. x \in Place(m) BY <2>1, PlaceIs
  <2>3. x.panel = p /\ x.row = k /\ x.col = c0 + c - 1 OBVIOUS
  <2>4. c0 <= c0 + c - 1 /\ c0 + c - 1 < c0 + w BY <1>2, <1>5, <1>6
  <2>5. f[c] = x OBVIOUS
  <2> HIDE DEF x, f
  <2> QED BY <1>3, <2>2, <2>3, <2>4, <2>5
<1>9. ASSUME NEW x \in T PROVE \E c \in 1 .. count : f[c] = x
  <2>1. x \in Place(m) /\ x.panel = p /\ x.row = k /\ c0 <= x.col /\ x.col < c0 + w
    BY <1>3, <1>4
  <2>2. x.col \in 0 .. N - 1 /\ x.col <= k /\ x = [panel |-> p, col |-> x.col, row |-> k]
    BY <2>1, PlaceTypes DEF Index
  <2>3. x.col < limit BY <1>1, <1>2, <1>5, <2>1, <2>2
  <2>4. x.col - c0 + 1 \in 1 .. count /\ c0 + (x.col - c0 + 1) - 1 = x.col
    BY <1>2, <1>6, <2>1, <2>2, <2>3
  <2> QED BY <2>2, <2>4
<1>10. \A c1, c2 \in 1 .. count : f[c1] = f[c2] => c1 = c2
  <2> SUFFICES ASSUME NEW c1 \in 1 .. count, NEW c2 \in 1 .. count, f[c1] = f[c2] PROVE c1 = c2
    OBVIOUS
  <2>1. f[c1].col = c0 + c1 - 1 /\ f[c2].col = c0 + c2 - 1 OBVIOUS
  <2>2. c0 + c1 - 1 = c0 + c2 - 1 BY <2>1
  <2> QED BY <1>2, <1>6, <2>2
<1>11. f \in [1 .. count -> T] BY <1>8
<1>12. \A c \in 1 .. count : f[c] = [panel |-> p, col |-> c0 + c - 1, row |-> k] OBVIOUS
<1>13. [c \in 1 .. count |-> CallAt(m, [panel |-> p, col |-> c0 + c - 1, row |-> k])]
        = [c \in 1 .. count |-> CallAt(m, f[c])]
  BY <1>12
<1> HIDE DEF f, count
<1>14. Lists([c \in 1 .. count |-> CallAt(m, f[c])], CallsAt(m, T))
  BY <1>4, <1>7, <1>9, <1>10, <1>11, ListsPlaces
<1> QED BY <1>7, <1>13, <1>14 DEF count, T, c0, limit

\* Where a group begins, in doubles.
LEMMA CornerIs ==
    ASSUME NEW m, Regular(m), NEW p \in Index(m), NEW w \in Nat \ {0}, NEW g \in Nat
    PROVE  LET first == p * m.b + m.b + g * (w * m.b)
               k == Corner(p, w, g)
           IN /\ k \in Nat /\ p < k
              /\ first = k * m.b
              /\ first + w * m.b = (k + w) * m.b
<1> DEFINE b == m.b
           k == Corner(p, w, g)
<1>1. b \in Nat \ {0} /\ p \in Nat BY BlocksOf DEF Regular, Index
<1> HIDE DEF b
<1> DEFINE h == g * w
<1>2. h \in Nat BY SMT
<1>3. g * (w * b) = h * b BY <1>1, SMT
<1> HIDE DEF h
<1>4. k = p + 1 + h BY DEF Corner, h
<1> HIDE DEF k
<1>5. k \in Nat /\ p < k BY <1>1, <1>2, <1>4
<1>6. k * b = p * b + b + h * b BY <1>1, <1>2, <1>4, SMT
<1>7. (k + w) * b = k * b + w * b BY <1>1, <1>5, SMT
<1>8. p * b + b + g * (w * b) = k * b BY <1>3, <1>6
<1>9. p * b + b + g * (w * b) + w * b = (k + w) * b BY <1>7, <1>8
<1> QED BY <1>5, <1>8, <1>9 DEF b, k

\* The rows of tiles of a group.
LEMMA GroupRowsAre ==
    ASSUME NEW m, Regular(m), NEW w \in Nat \ {0}, NEW r0 \in Nat, r0 < Blocks(m)
    PROVE  LET limit == IF r0 + w <= Blocks(m) THEN r0 + w ELSE Blocks(m)
           IN /\ limit - r0 \in Nat \ {0} /\ limit <= Blocks(m) /\ limit <= r0 + w
              /\ \A k \in r0 .. Blocks(m) - 1 : k < r0 + w => k < limit
              /\ Steps(r0 * m.b, Max({r0 * m.b + 1, Min({(r0 + w) * m.b, m.n})}), m.b)
                    = [s \in 1 .. limit - r0 |-> (r0 + s - 1) * m.b]
<1> DEFINE N == Blocks(m)
           b == m.b
           limit == IF r0 + w <= N THEN r0 + w ELSE N
           x == (r0 + w) * b
           y == N * b
           z == limit * b
           first == r0 * b
<1>1. N \in Nat \ {0} /\ b \in Nat \ {0} /\ m.n = y BY BlocksOf DEF Regular
<1>2. limit \in Nat /\ r0 < limit /\ limit <= N /\ limit <= r0 + w BY <1>1
<1>3. \A k \in r0 .. N - 1 : k < r0 + w => k < limit BY <1>1
<1> HIDE DEF b, N
<1>4. Min({x, y}) = z
  <2>1. x \in Nat /\ y \in Nat BY <1>1, SMT
  <2>2. Min({x, y}) = IF x <= y THEN x ELSE y
    <3> HIDE DEF x, y
    <3> QED BY <2>1, MinOfTwo
  <2>3. CASE r0 + w <= N
    <3>1. x <= y BY <1>1, <2>3, Monotonic
    <3> QED BY <2>2, <2>3, <3>1
  <2>4. CASE ~(r0 + w <= N)
    <3>1. N <= r0 + w BY <1>1, <2>4
    <3>2. y <= x BY <1>1, <3>1, Monotonic
    <3>3. z = y BY <2>4
    <3> HIDE DEF x, y, z
    <3> QED BY <2>1, <2>2, <3>2, <3>3
  <2> QED BY <2>3, <2>4
<1> HIDE DEF limit
<1>5. Max({first + 1, z}) = z
  <2>1. r0 + 1 <= limit BY <1>2
  <2>2. (r0 + 1) * b <= limit * b BY <1>1, <1>2, <2>1, Monotonic
  <2>3. (r0 + 1) * b = r0 * b + b BY <1>1, NextStep
  <2>4. first \in Nat /\ z \in Nat BY <1>1, <1>2, SMT
  <2>5. first + 1 <= z
    <3>1. first + b <= z BY <2>2, <2>3
    <3> HIDE DEF first, z
    <3> QED BY <1>1, <2>4, <3>1
  <2> HIDE DEF first, z
  <2>6. Max({first + 1, z}) = IF first + 1 >= z THEN first + 1 ELSE z BY <2>4, MaxOfTwo
  <2> QED BY <2>4, <2>5, <2>6
<1>9. r0 <= limit BY <1>2
<1>6. Steps(first, z, b) = [s \in 1 .. limit - r0 |-> (r0 + s - 1) * b]
  BY <1>1, <1>2, <1>9, StepsAre
<1>7. Max({first + 1, Min({x, m.n})}) = z BY <1>1, <1>4, <1>5
<1>8. limit - r0 \in Nat \ {0} BY <1>2
<1> QED BY <1>2, <1>3, <1>6, <1>7, <1>8 DEF limit, N, b

\* Its columns in a row of tiles.
LEMMA GroupColumnsAre ==
    ASSUME NEW m, Regular(m), NEW w \in Nat \ {0}, NEW k \in Nat, NEW c0 \in Nat,
           c0 <= ColumnLimit(m, k, c0, w)
    PROVE  Steps(c0 * m.b, Min({k * m.b + m.b, (c0 + w) * m.b, m.n}), m.b)
             = [c \in 1 .. ColumnLimit(m, k, c0, w) - c0 |-> (c0 + c - 1) * m.b]
<1> DEFINE N == Blocks(m)
           b == m.b
           limit == ColumnLimit(m, k, c0, w)
<1>1. N \in Nat \ {0} /\ b \in Nat \ {0} /\ m.n = N * b BY BlocksOf DEF Regular
<1>2. k * b + b = (k + 1) * b BY <1>1, NextStep
<1>3. Min({(k + 1) * b, (c0 + w) * b, N * b}) = limit * b
  <2> DEFINE x1 == (k + 1) * b
             x2 == (c0 + w) * b
             x3 == N * b
             x == Min({x1, x2, x3})
  <2>1. k + 1 \in Int /\ c0 + w \in Int /\ N \in Int BY <1>1
  <2>2. limit \in {k + 1, c0 + w, N} /\ limit <= k + 1 /\ limit <= c0 + w /\ limit <= N
    BY <2>1, MinOfThree DEF ColumnLimit
  <2>3. x1 \in Int /\ x2 \in Int /\ x3 \in Int BY <1>1, <2>1, SMT
  <2> HIDE DEF limit
  <2>4. limit * b <= x1 /\ limit * b <= x2 /\ limit * b <= x3
    BY <1>1, <2>1, <2>2, Monotonic
  <2>5. limit * b \in {x1, x2, x3} BY <2>2
  <2> HIDE DEF x1, x2, x3
  <2>6. x \in {x1, x2, x3} /\ x <= x1 /\ x <= x2 /\ x <= x3 BY <2>3, MinOfThree
  <2> HIDE DEF x
  <2>7. x = limit * b
    <3> DEFINE y == limit * b
    <3>1. y \in {x1, x2, x3} /\ y <= x1 /\ y <= x2 /\ y <= x3 BY <2>4, <2>5
    <3> HIDE DEF y
    <3>2. x = y BY ONLY <2>3, <2>6, <3>1
    <3> QED BY <3>2 DEF y
  <2> QED BY <2>7 DEF x, x1, x2, x3
<1>4. limit \in Nat
  <2>1. k + 1 \in Int /\ c0 + w \in Int /\ N \in Int BY <1>1
  <2>2. limit \in {k + 1, c0 + w, N} BY <2>1, MinOfThree DEF ColumnLimit
  <2> QED BY <1>1, <2>2
<1> HIDE DEF limit
<1>5. c0 <= limit BY DEF limit
<1>6. Steps(c0 * b, limit * b, b) = [c \in 1 .. limit - c0 |-> (c0 + c - 1) * b]
  BY <1>1, <1>4, <1>5, StepsAre
<1> QED BY <1>1, <1>2, <1>3, <1>6 DEF limit

\* The calls of a group in a row of tiles.
LEMMA GroupRowCalls ==
    ASSUME NEW m, Regular(m), NEW p \in Index(m), NEW w \in Nat \ {0}, NEW group,
           group.row \in Nat, group.col \in Nat,
           NEW k \in Index(m), Corner(p, w, group.row) <= k, k < Corner(p, w, group.row) + w,
           Corner(p, w, group.col) <= k
    PROVE  LET first == p * m.b + m.b + group.col * (w * m.b)
               cols == Steps(first, Min({k * m.b + m.b, first + w * m.b, m.n}), m.b)
           IN Lists([c \in DOMAIN cols |->
                        [op |-> "madd", args |-> <<At(m.n, k * m.b, p * m.b),
                                                   At(m.n, cols[c], p * m.b),
                                                   At(m.n, k * m.b, cols[c])>>]],
                    CallsAt(m, GroupRowPlaces(m, p, w, group, k)))
<1> DEFINE first == p * m.b + m.b + group.col * (w * m.b)
           cols == Steps(first, Min({k * m.b + m.b, first + w * m.b, m.n}), m.b)
           c0 == Corner(p, w, group.col)
           count == ColumnLimit(m, k, c0, w) - c0
           calls == [c \in DOMAIN cols |->
                        [op |-> "madd", args |-> <<At(m.n, k * m.b, p * m.b),
                                                   At(m.n, cols[c], p * m.b),
                                                   At(m.n, k * m.b, cols[c])>>]]
           listed == [c \in 1 .. count |-> CallAt(m, [panel |-> p, col |-> c0 + c - 1, row |-> k])]
<1>1. c0 \in Nat /\ p < c0 /\ first = c0 * m.b /\ first + w * m.b = (c0 + w) * m.b
  BY CornerIs
<1>2. count \in Nat \ {0} /\ Lists(listed, CallsAt(m, GroupRowPlaces(m, p, w, group, k)))
  BY GroupRowLists
<1>3. k \in Nat /\ p \in Nat BY BlocksOf DEF Index
<1>4. c0 <= ColumnLimit(m, k, c0, w)
  <2> DEFINE N == Blocks(m)
  <2>1. N \in Int /\ k + 1 \in Int /\ c0 + w \in Int BY <1>1, <1>3, BlocksOf
  <2> HIDE DEF c0
  <2>3. ColumnLimit(m, k, c0, w) \in {k + 1, c0 + w, N}
    BY <2>1, MinOfThree DEF ColumnLimit
  <2>2. ColumnLimit(m, k, c0, w) \in Int BY <2>1, <2>3
  <2> QED BY <1>1, <1>2, <2>2
<1> HIDE DEF first, c0, listed
<1>5. cols = [c \in 1 .. count |-> (c0 + c - 1) * m.b]
  <2>1. Steps(c0 * m.b, Min({k * m.b + m.b, (c0 + w) * m.b, m.n}), m.b)
            = [c \in 1 .. count |-> (c0 + c - 1) * m.b]
    BY <1>1, <1>3, <1>4, GroupColumnsAre
  <2> QED BY <1>1, <2>1
<1> HIDE DEF cols, count
<1>6. DOMAIN cols = 1 .. count /\ \A c \in 1 .. count : cols[c] = (c0 + c - 1) * m.b BY <1>5
<1>7. ASSUME NEW c \in 1 .. count
      PROVE  [op |-> "madd", args |-> <<At(m.n, k * m.b, p * m.b), At(m.n, cols[c], p * m.b),
                                        At(m.n, k * m.b, cols[c])>>]
                = CallAt(m, [panel |-> p, col |-> c0 + c - 1, row |-> k])
  <2> DEFINE l == c0 + c - 1
  <2>1. p # k BY <1>1, <1>3 DEF c0
  <2>2. p # l BY <1>1, <1>3, <1>2
  <2> HIDE DEF l
  <2>3. CallAt(m, [panel |-> p, col |-> l, row |-> k]) = MaddCall(m.n, p * m.b, l * m.b, k * m.b)
    BY <2>1, <2>2 DEF CallAt
  <2>4. cols[c] = l * m.b BY <1>6 DEF l
  <2> QED BY <2>3, <2>4 DEF MaddCall, l
<1>8. calls = listed BY <1>6, <1>7 DEF listed
<1> HIDE DEF calls
<1>9. Lists(calls, CallsAt(m, GroupRowPlaces(m, p, w, group, k))) BY <1>2, <1>8
<1> QED BY <1>9 DEF calls, cols, first

\* GroupCalls makes the calls of the tiles of the group.
LEMMA GroupCallsList ==
    ASSUME NEW m, Regular(m), NEW p \in Index(m), NEW w \in Nat \ {0}, NEW group,
           group.row \in Nat, group.col \in Nat, group.col <= group.row,
           Corner(p, w, group.row) < Blocks(m)
    PROVE  Lists(GroupCalls(m, p * m.b, w, group), CallsAt(m, GroupPlaces(m, p, w, group)))
<1> DEFINE b == m.b
           panel == p * b
           stride == w * b
           row_start == panel + b + group.row * stride
           col_start == panel + b + group.col * stride
           row_limit == Max({row_start + 1, Min({row_start + stride, m.n})})
           rows == Steps(row_start, row_limit, b)
           Cols(row) == Steps(col_start, Min({row + b, col_start + stride, m.n}), b)
           Madd(row, col) == [op |-> "madd", args |-> <<At(m.n, row, panel),
                                  At(m.n, col, panel), At(m.n, row, col)>>]
           Row(row) == [c \in DOMAIN Cols(row) |-> Madd(row, Cols(row)[c])]
           ss == [r \in DOMAIN rows |-> Row(rows[r])]
           N == Blocks(m)
           r0 == Corner(p, w, group.row)
           c0 == Corner(p, w, group.col)
           limit == IF r0 + w <= N THEN r0 + w ELSE N
           count == limit - r0
           T == GroupPlaces(m, p, w, group)
           D == [s \in 1 .. count |-> GroupRowPlaces(m, p, w, group, r0 + s - 1)]
<1>1. GroupCalls(m, panel, w, group) = FlattenSeq(ss) BY Zenon DEF GroupCalls
<1>2. N \in Nat \ {0} /\ p \in Nat BY BlocksOf DEF Index
<1>3. r0 \in Nat /\ p < r0 /\ row_start = r0 * b /\ row_start + stride = (r0 + w) * b
  BY CornerIs
<1>4. c0 \in Nat /\ c0 <= r0
  <2>1. group.col * w <= group.row * w BY Monotonic
  <2>2. group.col * w \in Nat /\ group.row * w \in Nat BY SMT
  <2> QED BY <1>2, <2>1, <2>2 DEF Corner
<1> HIDE DEF r0, c0
<1>5. /\ count \in Nat \ {0} /\ limit <= N /\ limit <= r0 + w
      /\ \A k \in r0 .. N - 1 : k < r0 + w => k < limit
      /\ Steps(r0 * b, Max({r0 * b + 1, Min({(r0 + w) * b, m.n})}), b)
            = [s \in 1 .. count |-> (r0 + s - 1) * b]
  <2>1. r0 < Blocks(m) BY DEF r0
  <2>2. /\ count \in Nat \ {0} /\ limit <= Blocks(m) /\ limit <= r0 + w
        /\ \A k \in r0 .. Blocks(m) - 1 : k < r0 + w => k < limit
        /\ Steps(r0 * m.b, Max({r0 * m.b + 1, Min({(r0 + w) * m.b, m.n})}), m.b)
              = [s \in 1 .. count |-> (r0 + s - 1) * m.b]
    BY ONLY <1>3, <2>1, Regular(m), w \in Nat \ {0}, GroupRowsAre
  <2> QED BY <2>2
<1>6. limit \in Nat BY <1>2, <1>3
<1>7. rows = [s \in 1 .. count |-> (r0 + s - 1) * b] BY <1>3, <1>5
<1> HIDE DEF limit
<1>8. ASSUME NEW s \in 1 .. count
      PROVE  r0 + s - 1 \in Index(m) /\ r0 <= r0 + s - 1 /\ r0 + s - 1 < r0 + w /\ c0 <= r0 + s - 1
  BY <1>2, <1>3, <1>4, <1>5, <1>6 DEF Index
<1> HIDE DEF rows
<1>9. DOMAIN rows = 1 .. count /\ \A s \in 1 .. count : rows[s] = (r0 + s - 1) * b BY <1>7
<1>10. \A s \in 1 .. count : D[s] = GroupRowPlaces(m, p, w, group, r0 + s - 1) OBVIOUS
<1>11. ASSUME NEW s \in 1 .. count
       PROVE  D[s] \subseteq Place(m) /\ Lists(ss[s], CallsAt(m, D[s]))
  <2> DEFINE k == r0 + s - 1
  <2>1. k \in Index(m) /\ r0 <= k /\ k < r0 + w /\ c0 <= k BY <1>8
  <2>2. rows[s] = k * b /\ s \in DOMAIN rows BY <1>9
  <2>3. D[s] = GroupRowPlaces(m, p, w, group, k) BY <1>10
  <2> HIDE DEF k, D
  <2>4. Lists(Row(k * b), CallsAt(m, GroupRowPlaces(m, p, w, group, k)))
    BY <2>1, GroupRowCalls DEF r0, c0
  <2> HIDE DEF Row
  <2>5. ss[s] = Row(k * b) BY <2>2
  <2>6. D[s] \subseteq Place(m) BY <2>3 DEF GroupRowPlaces, GroupPlaces
  <2> QED BY <2>3, <2>4, <2>5, <2>6
<1> HIDE DEF Row
<1>12. ss = [s \in 1 .. count |-> ss[s]] BY <1>9
<1>13. ASSUME NEW s1 \in 1 .. count, NEW s2 \in 1 .. count, s1 # s2 PROVE D[s1] \cap D[s2] = {}
  <2>1. r0 + s1 - 1 # r0 + s2 - 1 BY <1>3, <1>5, <1>13
  <2> QED BY <1>10, <2>1 DEF GroupRowPlaces
<1>14. ASSUME NEW x PROVE x \in T <=> \E s \in 1 .. count : x \in D[s]
  <2>1. ASSUME x \in T PROVE \E s \in 1 .. count : x \in D[s]
    <3>1. x \in Place(m) BY <2>1 DEF GroupPlaces
    <3>2. r0 <= x.row /\ x.row < r0 + w BY <2>1, <3>1, GroupPlacesAre DEF r0
    <3>3. x.row \in 0 .. N - 1 BY <3>1, PlaceTypes DEF Index
    <3>4. x.row < limit BY <1>2, <1>3, <1>5, <3>2, <3>3
    <3> DEFINE s == x.row - r0 + 1
    <3>5. s \in 1 .. count /\ r0 + s - 1 = x.row BY <1>2, <1>3, <1>6, <3>2, <3>3, <3>4
    <3> HIDE DEF s
    <3>6. x \in D[s] BY <1>10, <2>1, <3>5 DEF GroupRowPlaces
    <3> QED BY <3>5, <3>6
  <2>2. ASSUME NEW s \in 1 .. count, x \in D[s] PROVE x \in T
    BY <1>10, <2>2 DEF GroupRowPlaces
  <2> QED BY <2>1, <2>2
<1> HIDE DEF ss, D, T, count
<1>15. count \in Nat BY <1>5
<1>16. Lists(FlattenSeq(ss), CallsAt(m, T))
  BY <1>11, <1>12, <1>13, <1>14, <1>15, ListsFlattenPlaces
<1> QED BY <1>1, <1>16 DEF T, panel, b

\* A group has a tile.
LEMMA GroupHasPlaces ==
    ASSUME NEW m, Regular(m), NEW p \in Index(m), NEW w \in Nat \ {0}, NEW group,
           group.row \in Nat, group.col \in Nat, group.col <= group.row,
           Corner(p, w, group.row) < Blocks(m)
    PROVE  GroupPlaces(m, p, w, group) # {} /\ GroupPlaces(m, p, w, group) \subseteq MaddPlaces(m, p)
<1> DEFINE r0 == Corner(p, w, group.row)
           c0 == Corner(p, w, group.col)
           x == [panel |-> p, col |-> c0, row |-> r0]
<1>1. Blocks(m) \in Nat \ {0} /\ p \in Nat BY BlocksOf DEF Index
<1>2. r0 \in Nat /\ p < r0 /\ c0 \in Nat /\ p < c0 BY CornerIs
<1>3. c0 <= r0
  <2>1. group.col * w <= group.row * w BY Monotonic
  <2>2. group.col * w \in Nat /\ group.row * w \in Nat BY SMT
  <2> QED BY <1>1, <2>1, <2>2 DEF Corner
<1>4. x \in Place(m)
  <2>1. r0 \in Index(m) /\ c0 \in Index(m) /\ p <= c0 BY <1>1, <1>2, <1>3 DEF Index
  <2> HIDE DEF r0, c0
  <2> QED BY <1>3, <2>1, PlaceIs
<1>5. x.panel = p /\ x.row = r0 /\ x.col = c0 OBVIOUS
<1>6. r0 < r0 + w /\ c0 < c0 + w BY <1>2
<1> HIDE DEF x
<1>7. x \in GroupPlaces(m, p, w, group) BY <1>2, <1>4, <1>5, <1>6, GroupPlacesAre
<1> QED BY <1>7 DEF GroupPlaces, MaddPlaces

\* The groups of the triangle behind a panel.
LEMMA GroupsFit ==
    ASSUME NEW R \in Nat, NEW w \in Nat \ {0}
    PROVE  LET groups == (R + w - 1) \div w
           IN /\ groups \in Nat
              /\ \A g \in 0 .. groups - 1 : g * w < R
              /\ \A y \in 0 .. R - 1 : y \div w \in 0 .. groups - 1
<1> DEFINE x == R + w - 1
           groups == x \div w
<1>1. x \in Nat /\ x = R + w - 1 OBVIOUS
<1> HIDE DEF x
<1>2. groups \in Nat /\ groups * w <= x /\ x < groups * w + w BY <1>1, Division
<1> HIDE DEF groups
<1>3. ASSUME NEW g \in 0 .. groups - 1 PROVE g * w < R
  <2>1. g \in Nat /\ g + 1 <= groups BY <1>2
  <2>2. (g + 1) * w <= groups * w BY <1>2, <2>1, Monotonic
  <2>3. (g + 1) * w = g * w + w BY <2>1, SMT
  <2>4. g * w \in Nat /\ groups * w \in Nat BY <1>2, <2>1, SMT
  <2> QED BY <1>1, <1>2, <2>2, <2>3, <2>4
<1>4. ASSUME NEW y \in 0 .. R - 1 PROVE y \div w \in 0 .. groups - 1
  <2> DEFINE d == y \div w
  <2>1. d \in Nat /\ d * w <= y BY Division
  <2> HIDE DEF d
  <2>2. d * w < groups * w
    <3>1. d * w \in Nat /\ groups * w \in Nat BY <1>2, <2>1, SMT
    <3> QED BY <1>1, <1>2, <2>1, <3>1
  <2>3. d < groups BY <1>2, <2>1, <2>2, Monotonic
  <2> QED BY <1>2, <2>1, <2>3 DEF d
<1> QED BY <1>2, <1>3, <1>4 DEF groups, x

LEMMA QuotientGrows ==
    ASSUME NEW y \in Nat, NEW z \in Nat, y <= z, NEW w \in Nat \ {0}
    PROVE  y \div w <= z \div w
<1> DEFINE c == y \div w
           d == z \div w
<1>1. c \in Nat /\ c * w <= y /\ d \in Nat /\ z < d * w + w BY Division
<1> HIDE DEF c, d
<1>2. (d + 1) * w = d * w + w BY <1>1, SMT
<1>3. c * w \in Nat /\ d * w \in Nat BY <1>1, SMT
<1>4. c * w < (d + 1) * w BY <1>1, <1>2, <1>3
<1>5. c < d + 1 BY <1>1, <1>4, Monotonic
<1> QED BY <1>1, <1>5 DEF c, d

\* The indices of groups stand for all the tiles behind a panel, each for its own.
LEMMA GroupIndices ==
    ASSUME NEW m, Regular(m), NEW p \in Index(m), NEW w \in Nat \ {0},
           NEW groups, groups = (Blocks(m) - p - 1 + w - 1) \div w,
           NEW body, NEW D,
           \A t \in 0 .. Triangle(groups) - 1 :
                body[t] = GroupCalls(m, p * m.b, w, Group(t, groups)),
           \A t \in 0 .. Triangle(groups) - 1 :
                D[t] = GroupPlaces(m, p, w, Group(t, groups))
    PROVE  /\ Triangle(groups) \in Nat
           /\ Indices(m, Triangle(groups), body, D, MaddPlaces(m, p))
<1> DEFINE N == Blocks(m)
           R == N - p - 1
           count == Triangle(groups)
           T == MaddPlaces(m, p)
<1>1. N \in Nat \ {0} /\ p \in Nat /\ p < N /\ R \in Nat BY BlocksOf DEF Index
<1>2. /\ groups \in Nat
      /\ \A g \in 0 .. groups - 1 : g * w < R
      /\ \A y \in 0 .. R - 1 : y \div w \in 0 .. groups - 1
  <2> HIDE DEF N
  <2>1. groups = (R + w - 1) \div w BY DEF N
  <2> HIDE DEF R
  <2> QED BY <1>1, <2>1, GroupsFit
<1>3. count \in Nat BY <1>2, Triangles
<1>4. ASSUME NEW t \in 0 .. count - 1
      PROVE  LET group == Group(t, groups) IN
             /\ group = [row |-> group.row, col |-> group.col]
             /\ group.row \in 0 .. groups - 1 /\ group.col \in 0 .. groups - 1
             /\ group.row \in Nat /\ group.col \in Nat /\ group.col <= group.row
             /\ GroupIndex(groups, group) = t
             /\ Corner(p, w, group.row) < N
  <2> DEFINE group == Group(t, groups)
  <2>1. /\ group = [row |-> group.row, col |-> group.col]
        /\ group.row \in 0 .. groups - 1 /\ group.col \in 0 .. groups - 1
        /\ group.col <= group.row
        /\ GroupIndex(groups, group) = t
    BY <1>2, GroupIs
  <2> HIDE DEF group
  <2>2. group.row \in Nat /\ group.col \in Nat BY <1>2, <2>1
  <2>3. Corner(p, w, group.row) < N
    <3> DEFINE h == group.row * w
    <3>1. h < R /\ h \in Nat BY <1>2, <2>1, <2>2, SMT
    <3> HIDE DEF h
    <3>2. Corner(p, w, group.row) = p + 1 + h BY DEF Corner, h
    <3> QED BY <1>1, <3>1, <3>2
  <2> QED BY <2>1, <2>2, <2>3 DEF group
<1>5. ASSUME NEW t \in 0 .. count - 1
      PROVE  D[t] \subseteq T /\ D[t] # {} /\ Lists(body[t], CallsAt(m, D[t]))
  <2> DEFINE group == Group(t, groups)
  <2>1. /\ group.row \in Nat /\ group.col \in Nat /\ group.col <= group.row
        /\ Corner(p, w, group.row) < Blocks(m)
    BY <1>4
  <2>2. D[t] = GroupPlaces(m, p, w, group) /\ body[t] = GroupCalls(m, p * m.b, w, group) OBVIOUS
  <2> HIDE DEF group, T
  <2>3. GroupPlaces(m, p, w, group) # {} /\ GroupPlaces(m, p, w, group) \subseteq T
    BY <2>1, GroupHasPlaces DEF T
  <2>4. Lists(GroupCalls(m, p * m.b, w, group), CallsAt(m, GroupPlaces(m, p, w, group)))
    BY <2>1, GroupCallsList
  <2> QED BY <2>2, <2>3, <2>4
<1>6. T \subseteq Place(m) BY DEF MaddPlaces
<1>7. ASSUME NEW t1 \in 0 .. count - 1, NEW t2 \in 0 .. count - 1, t1 # t2
      PROVE  D[t1] \cap D[t2] = {}
  <2> SUFFICES ASSUME NEW x, x \in D[t1], x \in D[t2] PROVE FALSE
    OBVIOUS
  <2> DEFINE g1 == Group(t1, groups)
             g2 == Group(t2, groups)
  <2>1. x \in GroupPlaces(m, p, w, g1) /\ x \in GroupPlaces(m, p, w, g2) OBVIOUS
  <2>2. g1.row = g2.row /\ g1.col = g2.col BY <2>1 DEF GroupPlaces
  <2>3. /\ g1 = [row |-> g1.row, col |-> g1.col] /\ GroupIndex(groups, g1) = t1
        /\ g2 = [row |-> g2.row, col |-> g2.col] /\ GroupIndex(groups, g2) = t2
    BY <1>4
  <2> HIDE DEF g1, g2
  <2>4. g1 = g2 BY <2>2, <2>3
  <2> QED BY <1>7, <2>3, <2>4
<1>8. ASSUME NEW x \in T PROVE \E t \in 0 .. count - 1 : x \in D[t]
  <2> DEFINE y == x.row - p - 1
             z == x.col - p - 1
             group == [row |-> y \div w, col |-> z \div w]
             t == GroupIndex(groups, group)
  <2>1. x \in Place(m) /\ x.panel = p /\ x.col # p BY DEF MaddPlaces
  <2>2. x.row \in 0 .. N - 1 /\ x.col \in 0 .. N - 1 /\ p <= x.col /\ x.col <= x.row
    BY <2>1, PlaceTypes DEF Index
  <2>3. y \in 0 .. R - 1 /\ z \in 0 .. R - 1 /\ y \in Nat /\ z \in Nat /\ z <= y
    BY <1>1, <2>1, <2>2
  <2> HIDE DEF y, z
  <2>4. y \div w \in 0 .. groups - 1 /\ z \div w \in 0 .. groups - 1 BY <1>2, <2>3
  <2>5. z \div w <= y \div w BY <2>3, QuotientGrows
  <2>6. t \in 0 .. count - 1 /\ Group(t, groups) = group BY <1>2, <2>4, <2>5, GroupOfIndex
  <2>7. group.row = y \div w /\ group.col = z \div w OBVIOUS
  <2> HIDE DEF t, group
  <2>8. D[t] = GroupPlaces(m, p, w, group) BY <2>6
  <2>9. x \in GroupPlaces(m, p, w, group) BY <2>1, <2>7 DEF GroupPlaces, y, z
  <2> QED BY <2>6, <2>8, <2>9
<1>9. \A x : x \in T <=> \E t \in 0 .. count - 1 : x \in D[t] BY <1>5, <1>8
<1> HIDE DEF T, count
<1>10. Indices(m, count, body, D, T)
  <2>1. \A t \in 0 .. count - 1 :
            D[t] \subseteq Place(m) /\ D[t] # {} /\ Lists(body[t], CallsAt(m, D[t]))
    BY <1>5, <1>6
  <2>2. \A t1, t2 \in 0 .. count - 1 : t1 # t2 => D[t1] \cap D[t2] = {} BY <1>7
  <2> QED BY <1>9, <2>1, <2>2 DEF Indices
<1> QED BY <1>3, <1>10 DEF T, count

\* The range over groups of tiles makes the madd calls of a panel.
LEMMA MaddTileRangeRuns ==
    ASSUME NEW m, Regular(m), NEW p \in Index(m)
    PROVE  Runs(m, PhaseInstr(m), MaddTileRange(m, p * m.b + m.b), MaddPlaces(m, p))
<1> DEFINE first_row == p * m.b + m.b
           panel == first_row - m.b
           remaining == (m.n - panel - m.b) \div m.b
           width == RangeGroupWidth(m.env, m.n, m.b)
           groups == (remaining + width - 1) \div width
           count == (groups * (groups + 1)) \div 2
           body == [t \in 0 .. count - 1 |-> GroupCalls(m, panel, width, Group(t, groups))]
           grain == IF width = 1 THEN 0 ELSE 1
           D == [t \in 0 .. count - 1 |-> GroupPlaces(m, p, width, Group(t, groups))]
           T == MaddPlaces(m, p)
<1>1. MaddTileRange(m, first_row) = RangeSubmits(m, count, grain, body) BY Zenon DEF MaddTileRange
<1>2. width \in Nat \ {0} BY WidthIsPositive
<1>3. m.b \in Nat \ {0} /\ m.n \in Nat \ {0} /\ p \in Nat /\ Blocks(m) \in Nat /\ p < Blocks(m)
  BY BlocksOf DEF Regular, Index
<1> HIDE DEF width
<1>4. panel = p * m.b
  <2> DEFINE b == m.b
             i == p * b
  <2>1. i \in Nat /\ b \in Nat BY <1>3, SMT
  <2>2. panel = i + b - b BY <2>1
  <2> HIDE DEF i, b, panel
  <2>3. panel = i BY <2>1, <2>2
  <2> QED BY <2>3 DEF i, b
<1> HIDE DEF panel
<1>5. remaining = Blocks(m) - p - 1
  <2>1. p + 1 \in Nat /\ p + 1 <= Blocks(m) BY <1>3
  <2>2. (m.n - (p + 1) * m.b) \div m.b = Blocks(m) - (p + 1) BY <2>1, CountBehind
  <2>3. p * m.b + m.b = (p + 1) * m.b BY <1>3, NextStep
  <2> DEFINE n == m.n
             b == m.b
             i == p * b
             j == (p + 1) * b
  <2>4. i \in Nat /\ b \in Nat /\ n \in Nat /\ j = i + b BY <1>3, <2>3, SMT
  <2>5. (n - j) \div b = Blocks(m) - (p + 1) /\ panel = i BY <1>4, <2>2
  <2>6. remaining = (n - panel - b) \div b OBVIOUS
  <2> HIDE DEF n, b, i, j, remaining
  <2>7. n - panel - b = n - j BY <2>4, <2>5
  <2> QED BY <1>3, <2>5, <2>6, <2>7
<1> HIDE DEF remaining
<1>6. groups = (Blocks(m) - p - 1 + width - 1) \div width BY <1>5
<1> HIDE DEF groups
<1>7. count = Triangle(groups) BY DEF Triangle
<1> HIDE DEF count
<1>8. \A t \in 0 .. Triangle(groups) - 1 :
            body[t] = GroupCalls(m, p * m.b, width, Group(t, groups))
  BY <1>4, <1>7
<1>9. \A t \in 0 .. Triangle(groups) - 1 : D[t] = GroupPlaces(m, p, width, Group(t, groups))
  BY <1>7
<1> HIDE DEF body, D
<1>10. Triangle(groups) \in Nat /\ Indices(m, Triangle(groups), body, D, T)
  BY <1>2, <1>6, <1>8, <1>9, GroupIndices
<1>11. \A x \in T : Rank(x) = 3 * p + 2 BY Ranks DEF MaddPlaces
<1> HIDE DEF T
<1>12. \A x, y \in T : Rank(x) <= Rank(y) BY <1>3, <1>11
<1>13. grain \in Int OBVIOUS
<1> HIDE DEF grain
<1>14. Runs(m, PhaseInstr(m), RangeSubmits(m, count, grain, body), T)
  BY <1>7, <1>10, <1>12, <1>13, RangeRuns
<1> QED BY <1>1, <1>14 DEF T

-----------------------------------------------------------------------------
(* Panels with waits between their phases. *)

LEMMA TrsmPhaseRuns ==
    ASSUME NEW m, Regular(m), NEW p \in Index(m)
    PROVE  Runs(m, PhaseInstr(m), TrsmPhase(m, p * m.b), TrsmPlaces(m, p))
<1>1. CASE m.annotated /\ m.trsm_range
  <2>1. TrsmPhase(m, p * m.b) = TrsmRange(m, At(m.n, p * m.b, p * m.b)) BY <1>1 DEF TrsmPhase
  <2> QED BY <2>1, TrsmRangeRuns
<1>2. CASE ~(m.annotated /\ m.trsm_range)
  <2> DEFINE s == TrsmCalls(m.n, m.b, p * m.b)
  <2>1. TrsmPhase(m, p * m.b) = OneByOne(s, PlainSubmit) BY <1>2 DEF TrsmPhase
  <2>2. InOrder(m, s, TrsmPlaces(m, p)) BY PanelInOrder
  <2> HIDE DEF s
  <2> QED BY <2>1, <2>2, PlainSubmitsRun
<1> QED BY <1>1, <1>2

LEMMA MaddPhaseRuns ==
    ASSUME NEW m, Regular(m), NEW p \in Index(m)
    PROVE  Runs(m, PhaseInstr(m), MaddPhase(m, p * m.b), MaddPlaces(m, p))
<1>1. CASE m.annotated /\ m.nest
  <2>1. MaddPhase(m, p * m.b) = MaddTileRange(m, p * m.b + m.b) BY <1>1 DEF MaddPhase
  <2> QED BY <2>1, MaddTileRangeRuns
<1>2. CASE m.annotated /\ ~m.nest
  <2> DEFINE cols == Steps(p * m.b + m.b, m.n, m.b)
             s == FlattenSeq([c \in DOMAIN cols |-> MaddRange(m, At(m.n, cols[c], p * m.b))])
  <2>1. MaddPhase(m, p * m.b) = s BY <1>2, Zenon DEF MaddPhase
  <2>2. Runs(m, PhaseInstr(m), s, MaddPlaces(m, p)) BY MaddRangesRun
  <2> HIDE DEF s
  <2> QED BY <2>1, <2>2
<1>3. CASE ~m.annotated
  <2> DEFINE s == MaddCalls(m.n, m.b, p * m.b)
  <2>1. MaddPhase(m, p * m.b) = OneByOne(s, PlainSubmit) BY <1>3 DEF MaddPhase
  <2>2. InOrder(m, s, MaddPlaces(m, p)) BY PanelInOrder
  <2> HIDE DEF s
  <2> QED BY <2>1, <2>2, PlainSubmitsRun
<1> QED BY <1>1, <1>2, <1>3

LEMMA PhasesIsSound ==
    ASSUME NEW m, Regular(m)
    PROVE  Sound(m, Lowering(m, "phases"))
<1>1. \A p \in Index(m) : Panel("phases", m, p * m.b) = PhasedPanel(m, p * m.b) BY DEF Panel
<1>2. \A p \in Index(m) :
        /\ Runs(m, PhaseInstr(m), Panel("phases", m, p * m.b), PanelPlaces(m, p))
        /\ Fenced(Panel("phases", m, p * m.b)) /\ Separated(m, Panel("phases", m, p * m.b))
  BY <1>1, TrsmPhaseRuns, MaddPhaseRuns, PhasedPanelRuns
<1>3. PICK body : /\ Lowering(m, "phases") = body \o AfterPanels("phases")
                  /\ Runs(m, PhaseInstr(m), body, Place(m))
                  /\ Fenced(body) /\ Separated(m, body)
  BY <1>2, ProgramRuns
<1> QED BY <1>3, PhaseProgramSound DEF Programs

\* Whatever the switches of the build and the environment, the program the Pass
\* leaves for a matrix of whole tiles makes each call of the factorisation once and
\* lets none overtake one whose result it uses: the waits it places and the keys it
\* gives are enough.
THEOREM LoweringIsSound ==
    ASSUME NEW m, Regular(m), NEW program \in {"serial", "phases", "sync", "task"}
    PROVE  Sound(m, Lowering(m, program))
BY SerialIsSound, KeyedIsSound, PhasesIsSound
=============================================================================
