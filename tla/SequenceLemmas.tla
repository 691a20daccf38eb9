---------------------------- MODULE SequenceLemmas ----------------------------
(***************************************************************************)
(* Induction without operator parameters, and what it shows about          *)
(* functions defined by recursion over an interval and about FlattenSeq.   *)
(***************************************************************************)
EXTENDS Integers, Sequences, SequencesExt, SequenceTheorems, WellFoundedInduction, TLAPS

LessThan == {p \in Nat \X Nat : p[1] < p[2]}

LEMMA LessThanWellFounded == IsWellFoundedOn(LessThan, Nat)
<1>1. LessThan = OpToRel(<, Nat)
  BY DEF LessThan, OpToRel
<1>2. QED
  BY <1>1, NatLessThanWellFounded

LEMMA Least ==
  ASSUME NEW T \in SUBSET Nat, T # {}
  PROVE  \E n \in T : \A m \in T : n <= m
<1>1. PICK n \in T : \A m \in T : ~(<<m, n>> \in LessThan)
  BY LessThanWellFounded, WFMin
<1>2. ASSUME NEW m \in T PROVE n <= m
  <2>1. n \in Nat /\ m \in Nat
    OBVIOUS
  <2>2. m < n => <<m, n>> \in LessThan
    BY <2>1 DEF LessThan
  <2>3. QED
    BY <1>1, <2>1, <2>2
<1>3. QED
  BY <1>2

\* What holds of 0, and of a number's successor if it holds of the number,
\* holds up to any bound.
LEMMA SetInduction ==
  ASSUME NEW T, NEW n \in Nat, 0 \in T,
         \A i \in 0..n-1 : i \in T => i + 1 \in T
  PROVE  \A i \in 0..n : i \in T
<1> SUFFICES ASSUME (0..n) \ T # {} PROVE FALSE
  OBVIOUS
<1>1. PICK m \in (0..n) \ T : \A k \in (0..n) \ T : m <= k
  <2>1. (0..n) \ T \in SUBSET Nat
    OBVIOUS
  <2>2. QED
    BY <2>1, Least
<1>2. m # 0 /\ m - 1 \in 0..n-1
  BY <1>1
<1>3. m - 1 \in T
  <2>1. m - 1 \in 0..n /\ ~(m <= m - 1)
    BY <1>2
  <2>2. QED
    BY <1>1, <2>1
<1>4. QED
  BY <1>2, <1>3, <1>1

\* A function that is defined by recursion over an interval exists.
Steps(S) == [S \X Nat -> S]

IsRecursion(g, S, c, D, n) ==
  /\ g \in [0..n -> S]
  /\ g[0] = c
  /\ \A i \in 1..n : g[i] = D[<<g[i - 1], i>>]

LEMMA RecursionExists ==
  ASSUME NEW S, NEW c \in S, NEW D \in Steps(S), NEW n \in Nat
  PROVE  \E g : IsRecursion(g, S, c, D, n)
<1> USE DEF Steps
<1> DEFINE Good(m) == \E g \in [0..m -> S] :
                        g[0] = c /\ \A i \in 1..m : g[i] = D[<<g[i - 1], i>>]
           T == {m \in Nat : Good(m)}
<1>1. Good(0)
  <2>1. [i \in 0..0 |-> c] \in [0..0 -> S] /\ [i \in 0..0 |-> c][0] = c /\ 1..0 = {}
    OBVIOUS
  <2>2. QED
    BY <2>1
<1>2. ASSUME NEW m \in 0..n-1, Good(m) PROVE Good(m + 1)
  <2>1. PICK g \in [0..m -> S] : g[0] = c /\ \A i \in 1..m : g[i] = D[<<g[i - 1], i>>]
    BY <1>2
  <2> DEFINE f == [i \in 0..m+1 |-> IF i = m + 1 THEN D[<<g[m], m + 1>>] ELSE g[i]]
  <2>2. D[<<g[m], m + 1>>] \in S
    BY <2>1
  <2>3. f \in [0..m+1 -> S]
    BY <2>1, <2>2
  <2>4. f[0] = c
    BY <2>1
  <2>5. ASSUME NEW i \in 1..m+1 PROVE f[i] = D[<<f[i - 1], i>>]
    <3>1. CASE i = m + 1
      <4>1. i - 1 = m /\ i - 1 \in 0..m+1 /\ i - 1 # m + 1 /\ i \in 0..m+1
        BY <3>1
      <4>2. QED
        BY <3>1, <4>1
    <3>2. CASE i \in 1..m
      <4>1. i - 1 \in 0..m+1 /\ i - 1 # m + 1 /\ i # m + 1 /\ i \in 0..m+1
        BY <3>2
      <4>2. QED
        BY <2>1, <3>2, <4>1
    <3>3. QED
      BY <3>1, <3>2
  <2> HIDE DEF f
  <2>6. QED
    BY <2>3, <2>4, <2>5
<1>3. 0 \in T /\ \A m \in 0..n-1 : m \in T => m + 1 \in T
  <2> HIDE DEF Good
  <2>1. QED
    BY <1>1, <1>2
<1>4. n \in T
  <2> HIDE DEF T
  <2>1. \A i \in 0..n : i \in T
    BY <1>3, SetInduction
  <2>2. QED
    BY <2>1
<1>5. QED
  BY <1>4 DEF IsRecursion

-------------------------------------------------------------------------------
(* FlattenSeq, of sequences of sequences over S.                            *)

\* What FlattenSeq has put together after each element of s.
IsPartial(g, s) ==
  /\ g[0] = <<>>
  /\ \A i \in 1..Len(s) : g[i] = g[i - 1] \o s[i]

LEMMA PartialExists ==
  ASSUME NEW S, NEW s \in Seq(Seq(S))
  PROVE  \E g \in [0..Len(s) -> Seq(S)] : IsPartial(g, s)
<1> DEFINE D == [p \in Seq(S) \X Nat |-> IF p[2] \in 1..Len(s) THEN p[1] \o s[p[2]] ELSE p[1]]
<1>1. D \in [Seq(S) \X Nat -> Seq(S)]
  <2>1. ASSUME NEW p \in Seq(S) \X Nat
        PROVE  (IF p[2] \in 1..Len(s) THEN p[1] \o s[p[2]] ELSE p[1]) \in Seq(S)
    <3>1. p[1] \in Seq(S)
      OBVIOUS
    <3>2. CASE p[2] \in 1..Len(s)
      <4>1. s[p[2]] \in Seq(S)
        BY <3>2
      <4>2. QED
        BY <3>1, <3>2, <4>1
    <3>3. QED
      BY <3>1, <3>2
  <2>2. QED
    BY <2>1
<1>2. <<>> \in Seq(S) /\ Len(s) \in Nat
  OBVIOUS
<1>3. PICK g \in [0..Len(s) -> Seq(S)] : g[0] = <<>> /\ \A i \in 1..Len(s) : g[i] = D[<<g[i - 1], i>>]
  <2> DEFINE Sums == Seq(S)
             n == Len(s)
  <2>1. <<>> \in Sums /\ n \in Nat /\ D \in Steps(Sums)
    BY <1>1, <1>2 DEF Steps
  <2> HIDE DEF D, Sums, n
  <2>2. \E g : IsRecursion(g, Sums, <<>>, D, n)
    BY <2>1, RecursionExists
  <2>3. QED
    BY <2>2 DEF Sums, n, IsRecursion
<1>4. ASSUME NEW i \in 1..Len(s) PROVE g[i] = g[i - 1] \o s[i]
  <2>1. g[i - 1] \in Seq(S) /\ i \in Nat
    BY <1>3
  <2>2. D[<<g[i - 1], i>>] = g[i - 1] \o s[i]
    BY <2>1
  <2>3. QED
    BY <1>3, <2>2
<1>5. QED
  BY <1>3, <1>4 DEF IsPartial

LEMMA FlattenIsPartial ==
  ASSUME NEW S, NEW s \in Seq(Seq(S))
  PROVE  \E g \in [0..Len(s) -> Seq(S)] : IsPartial(g, s) /\ FlattenSeq(s) = g[Len(s)]
<1>1. PICK g \in [0..Len(s) -> Seq(S)] : IsPartial(g, s)
  BY PartialExists
<1>2. CASE Len(s) = 0
  <2>1. s = <<>>
    BY <1>2
  <2>2. QED
    BY <1>1, <1>2, <2>1 DEF FlattenSeq, IsPartial
<1>3. CASE Len(s) # 0
  <2> DEFINE Eq(f) == f = [i \in 1..Len(s) |-> IF i = 1 THEN s[i] ELSE f[i - 1] \o s[i]]
             F == CHOOSE f : Eq(f)
             r == [i \in 1..Len(s) |-> g[i]]
  <2>0. Len(s) \in Nat \ {0}
    BY <1>3
  <2>1. Eq(r)
    <3>1. ASSUME NEW i \in 1..Len(s)
          PROVE  r[i] = IF i = 1 THEN s[i] ELSE r[i - 1] \o s[i]
      <4>1. CASE i = 1
        <5>0. i - 1 = 0
          BY <4>1
        <5>1. g[i] = g[i - 1] \o s[i] /\ g[i - 1] = <<>>
          BY <1>1, <5>0 DEF IsPartial
        <5>2. s[i] \in Seq(S)
          OBVIOUS
        <5>3. QED
          BY <4>1, <5>1, <5>2
      <4>2. CASE i # 1
        <5>1. i - 1 \in 1..Len(s)
          BY <4>2
        <5>2. QED
          BY <1>1, <4>2, <5>1 DEF IsPartial
      <4>3. QED
        BY <4>1, <4>2
    <3>2. QED
      BY <3>1
  <2>2. Eq(F)
    <3> HIDE DEF Eq
    <3>1. QED
      BY <2>1
  <2>3. FlattenSeq(s) = F[Len(s)]
    BY <1>3 DEF FlattenSeq
  <2> DEFINE T == {i \in Nat : i = 0 \/ F[i] = g[i]}
  <2>4. \A i \in 1..Len(s) : F[i] = IF i = 1 THEN s[i] ELSE F[i - 1] \o s[i]
    <3> HIDE DEF F
    <3>1. QED
      BY <2>2
  <2> HIDE DEF F
  <2>5. \A i \in 0..Len(s)-1 : i \in T => i + 1 \in T
    <3> SUFFICES ASSUME NEW i \in 0..Len(s)-1, i \in T PROVE F[i + 1] = g[i + 1]
      OBVIOUS
    <3>1. i + 1 \in 1..Len(s) /\ (i + 1) - 1 = i
      BY <2>0
    <3>2. F[i + 1] = IF i + 1 = 1 THEN s[i + 1] ELSE F[i] \o s[i + 1]
      BY <2>4, <3>1
    <3>3. g[i + 1] = g[i] \o s[i + 1]
      BY <1>1, <3>1 DEF IsPartial
    <3>4. CASE i = 0
      <4>1. s[1] \in Seq(S) /\ g[0] = <<>>
        BY <1>1, <2>0 DEF IsPartial
      <4>2. QED
        BY <3>2, <3>3, <3>4, <4>1
    <3>5. CASE i # 0
      <4>1. i + 1 # 1 /\ F[i] = g[i]
        BY <3>5
      <4>2. QED
        BY <3>2, <3>3, <4>1
    <3>6. QED
      BY <3>4, <3>5
  <2>6. \A i \in 0..Len(s) : i \in T
    <3>1. 0 \in T
      OBVIOUS
    <3> HIDE DEF T
    <3>2. QED
      BY <2>0, <2>5, <3>1, SetInduction
  <2>7. F[Len(s)] = g[Len(s)]
    BY <2>0, <2>6
  <2>8. QED
    BY <1>1, <2>3, <2>7
<1>4. QED
  BY <1>2, <1>3

LEMMA FlattenType ==
  ASSUME NEW S, NEW s \in Seq(Seq(S))
  PROVE  FlattenSeq(s) \in Seq(S)
<1>1. PICK g \in [0..Len(s) -> Seq(S)] : FlattenSeq(s) = g[Len(s)]
  BY FlattenIsPartial
<1>2. Len(s) \in 0..Len(s)
  OBVIOUS
<1>3. QED
  BY <1>1, <1>2

LEMMA FlattenNone == FlattenSeq(<<>>) = <<>>
BY DEF FlattenSeq

Associate(a, b, c) == (a \o b) \o c = a \o (b \o c)

LEMMA ConcatAssociates ==
  ASSUME NEW S
  PROVE  \A a, b, c \in Seq(S) : Associate(a, b, c)
BY DEF Associate

LEMMA FlattenConcat ==
  ASSUME NEW S, NEW s, NEW t, s \in Seq(Seq(S)), t \in Seq(Seq(S))
  PROVE  FlattenSeq(s \o t) = FlattenSeq(s) \o FlattenSeq(t)
<1> DEFINE u == s \o t
<1>0. /\ Len(s) \in Nat /\ Len(t) \in Nat /\ u \in Seq(Seq(S)) /\ Len(u) = Len(s) + Len(t)
      /\ \A i \in 1..Len(s) : u[i] = s[i]
      /\ \A i \in 1..Len(t) : u[Len(s) + i] = t[i]
  OBVIOUS
<1>1. PICK a : a \in [0..Len(s) -> Seq(S)] /\ IsPartial(a, s) /\ FlattenSeq(s) = a[Len(s)]
  BY FlattenIsPartial
<1>2. PICK b : b \in [0..Len(t) -> Seq(S)] /\ IsPartial(b, t) /\ FlattenSeq(t) = b[Len(t)]
  BY FlattenIsPartial
<1>3. PICK g : g \in [0..Len(u) -> Seq(S)] /\ IsPartial(g, u) /\ FlattenSeq(u) = g[Len(u)]
  BY <1>0, FlattenIsPartial
<1> HIDE DEF u
<1> DEFINE T == {i \in Nat : g[i] = a[i]}
           R == {i \in Nat : g[Len(s) + i] = a[Len(s)] \o b[i]}
<1>4. \A i \in 0..Len(s) : i \in T
  <2>1. 0 \in T
    BY <1>1, <1>3 DEF IsPartial
  <2>2. ASSUME NEW i \in 0..Len(s)-1, g[i] = a[i] PROVE g[i + 1] = a[i + 1]
    <3>1. i + 1 \in 1..Len(s) /\ i + 1 \in 1..Len(u) /\ (i + 1) - 1 = i
      BY <1>0
    <3>2. g[i + 1] = g[i] \o u[i + 1] /\ a[i + 1] = a[i] \o s[i + 1]
      BY <1>1, <1>3, <3>1 DEF IsPartial
    <3>3. u[i + 1] = s[i + 1]
      BY <1>0, <3>1
    <3>4. QED
      BY <2>2, <3>2, <3>3
  <2>3. \A i \in 0..Len(s)-1 : i \in T => i + 1 \in T
    BY <1>0, <2>2
  <2> HIDE DEF T
  <2>4. QED
    BY <1>0, <2>1, <2>3, SetInduction
<1>5. \A i \in 0..Len(t) : i \in R
  <2>1. 0 \in R
    <3>1. Len(s) \in 0..Len(s) /\ Len(s) + 0 = Len(s)
      BY <1>0
    <3>2. b[0] = <<>> /\ a[Len(s)] \in Seq(S)
      BY <1>1, <1>2, <3>1 DEF IsPartial
    <3>3. g[Len(s)] = a[Len(s)]
      BY <1>4, <3>1
    <3>4. a[Len(s)] \o <<>> = a[Len(s)]
      BY <3>2
    <3>5. QED
      BY <3>1, <3>2, <3>3, <3>4
  <2>2. ASSUME NEW i \in 0..Len(t)-1, g[Len(s) + i] = a[Len(s)] \o b[i]
        PROVE  g[Len(s) + (i + 1)] = a[Len(s)] \o b[i + 1]
    <3> DEFINE k == Len(s) + (i + 1)
    <3>1. /\ i + 1 \in 1..Len(t) /\ (i + 1) - 1 = i /\ k \in 1..Len(u) /\ k - 1 = Len(s) + i
          /\ i \in 0..Len(t) /\ Len(s) \in 0..Len(s)
      BY <1>0
    <3> HIDE DEF k
    <3>2. g[k] = g[Len(s) + i] \o u[k] /\ b[i + 1] = b[i] \o t[i + 1]
      BY <1>2, <1>3, <3>1 DEF IsPartial
    <3>3. u[k] = t[i + 1] /\ t[i + 1] \in Seq(S)
      BY <1>0, <3>1 DEF k
    <3>4. a[Len(s)] \in Seq(S) /\ b[i] \in Seq(S)
      BY <1>1, <1>2, <3>1
    <3>5. g[k] = a[Len(s)] \o b[i] \o t[i + 1]
      BY <2>2, <3>2, <3>3
    <3>6. g[k] = a[Len(s)] \o b[i + 1]
      <4>1. Associate(a[Len(s)], b[i], t[i + 1])
        BY <3>3, <3>4, ConcatAssociates, Zenon
      <4>2. QED
        BY <3>2, <3>3, <3>5, <4>1 DEF Associate
    <3>7. QED
      BY <3>6 DEF k
  <2>3. ASSUME NEW i \in 0..Len(t)-1, i \in R PROVE i + 1 \in R
    <3>1. i + 1 \in Nat
      BY <1>0
    <3>2. g[Len(s) + i] = a[Len(s)] \o b[i]
      BY <2>3, Zenon
    <3>3. QED
      BY <2>2, <3>1, <3>2
  <2> HIDE DEF R
  <2>4. QED
    BY <1>0, <2>1, <2>3, SetInduction
<1>6. Len(t) \in R
  <2> HIDE DEF R
  <2>1. QED
    BY <1>0, <1>5
<1>7. QED
  BY <1>0, <1>1, <1>2, <1>3, <1>6 DEF u

LEMMA FlattenOne ==
  ASSUME NEW S, NEW x \in Seq(S)
  PROVE  FlattenSeq(<<x>>) = x
<1>1. <<x>> \in Seq(Seq(S)) /\ Len(<<x>>) = 1 /\ <<x>>[1] = x
  OBVIOUS
<1>2. PICK g : IsPartial(g, <<x>>) /\ FlattenSeq(<<x>>) = g[1]
  BY <1>1, FlattenIsPartial
<1>3. g[1] = g[0] \o x /\ g[0] = <<>>
  <2>1. 1 \in 1..Len(<<x>>) /\ 1 - 1 = 0
    BY <1>1
  <2>2. g[1] = g[1 - 1] \o <<x>>[1] /\ g[0] = <<>>
    BY <1>2, <2>1 DEF IsPartial
  <2>3. QED
    BY <1>1, <2>1, <2>2
<1>4. QED
  BY <1>2, <1>3

-------------------------------------------------------------------------------
(* Parts of sequences.                                                      *)

LEMMA ConcatFacts ==
  ASSUME NEW S, NEW a \in Seq(S), NEW b \in Seq(S)
  PROVE  /\ a \o b \in Seq(S) /\ Len(a \o b) = Len(a) + Len(b)
         /\ \A i \in 1..Len(a) : (a \o b)[i] = a[i]
         /\ \A i \in 1..Len(b) : (a \o b)[Len(a) + i] = b[i]
OBVIOUS

LEMMA SuffixOfConcat ==
  ASSUME NEW S, NEW b \in Seq(S), NEW c \in Seq(S), NEW k \in 0..Len(b)
  PROVE  SubSeq(b \o c, k + 1, Len(b \o c)) = SubSeq(b, k + 1, Len(b)) \o c
<1> DEFINE l == SubSeq(b \o c, k + 1, Len(b \o c))
           r == SubSeq(b, k + 1, Len(b)) \o c
<1>1. /\ Len(b) \in Nat /\ Len(c) \in Nat /\ k \in Nat /\ k <= Len(b)
      /\ b \o c \in Seq(S) /\ Len(b \o c) = Len(b) + Len(c)
  OBVIOUS
<1>2. l \in Seq(S) /\ Len(l) = Len(b) + Len(c) - k
  BY <1>1
<1>3. SubSeq(b, k + 1, Len(b)) \in Seq(S) /\ Len(SubSeq(b, k + 1, Len(b))) = Len(b) - k
  BY <1>1
<1>4. r \in Seq(S) /\ Len(r) = Len(b) + Len(c) - k
  BY <1>1, <1>3
<1>5. ASSUME NEW i \in 1..Len(l) PROVE l[i] = r[i]
  <2>1. i \in 1..Len(b) + Len(c) - k /\ k + i \in 1..Len(b \o c)
    BY <1>1, <1>2
  <2>2. l[i] = (b \o c)[k + i]
    BY <1>1, <2>1
  <2>3. CASE i <= Len(b) - k
    <3>1. l[i] = b[k + i]
      BY <1>1, <2>1, <2>2, <2>3
    <3>2. r[i] = SubSeq(b, k + 1, Len(b))[i]
      BY <1>1, <1>3, <2>1, <2>3
    <3>3. SubSeq(b, k + 1, Len(b))[i] = b[k + i]
      BY <1>1, <2>1, <2>3
    <3>4. QED
      BY <3>1, <3>2, <3>3
  <2>4. CASE i > Len(b) - k
    <3>1. l[i] = c[k + i - Len(b)]
      BY <1>1, <2>1, <2>2, <2>4
    <3>2. r[i] = c[i - (Len(b) - k)]
      BY <1>1, <1>3, <2>1, <2>4
    <3>3. k + i - Len(b) = i - (Len(b) - k)
      BY <1>1, <2>1
    <3>4. QED
      BY <3>1, <3>2, <3>3
  <2>5. QED
    BY <1>1, <2>1, <2>3, <2>4
<1> HIDE DEF l, r
<1>6. l = r
  BY <1>2, <1>4, <1>5, SeqEqual
<1>7. QED
  BY <1>6 DEF l, r

LEMMA SplitAt ==
  ASSUME NEW S, NEW s \in Seq(S), NEW n \in 0..Len(s)
  PROVE  /\ SubSeq(s, 1, n) \in Seq(S) /\ Len(SubSeq(s, 1, n)) = n
         /\ SubSeq(s, n + 1, Len(s)) \in Seq(S) /\ Len(SubSeq(s, n + 1, Len(s))) = Len(s) - n
         /\ SubSeq(s, 1, n) \o SubSeq(s, n + 1, Len(s)) = s
<1> DEFINE l == SubSeq(s, 1, n)
           r == SubSeq(s, n + 1, Len(s))
<1>1. Len(s) \in Nat /\ n \in Nat /\ n <= Len(s)
  OBVIOUS
<1>2. l \in Seq(S) /\ Len(l) = n /\ r \in Seq(S) /\ Len(r) = Len(s) - n
  BY <1>1
<1>3. /\ \A i \in 1..n : l[i] = s[i]
      /\ \A i \in 1..Len(s) - n : r[i] = s[n + i]
  BY <1>1
<1> HIDE DEF l, r
<1>8. /\ l \o r \in Seq(S) /\ Len(l \o r) = Len(s)
      /\ \A i \in 1..n : (l \o r)[i] = l[i]
      /\ \A i \in 1..Len(s) - n : (l \o r)[n + i] = r[i]
  BY <1>1, <1>2, ConcatFacts
<1>4. ASSUME NEW i \in 1..Len(l \o r) PROVE (l \o r)[i] = s[i]
  <2>0. i \in 1..Len(s)
    BY <1>8
  <2>1. CASE i <= n
    <3>1. i \in 1..n
      BY <1>1, <2>0, <2>1
    <3>2. QED
      BY <1>3, <1>8, <3>1
  <2>2. CASE i > n
    <3>1. i - n \in 1..Len(s) - n /\ n + (i - n) = i
      BY <1>1, <2>0, <2>2
    <3>2. QED
      BY <1>3, <1>8, <3>1
  <2>3. QED
    BY <1>1, <2>0, <2>1, <2>2
<1> DEFINE u == l \o r
<1>5. u \in Seq(S) /\ Len(u) = Len(s) /\ \A i \in 1..Len(u) : u[i] = s[i]
  BY <1>8, <1>4
<1>6. u = s
  <2> HIDE DEF u
  <2>1. QED
    BY <1>5, SeqEqual
<1>7. QED
  BY <1>2, <1>6 DEF l, r, u

-------------------------------------------------------------------------------
(* Powers, sums, and the digits of a number.                                *)

IsPowers(P, B, n) == P[0] = 1 /\ \A i \in 1..n : P[i] = B * P[i - 1]

IsSum(g, d, n) == g[0] = 0 /\ \A i \in 1..n : g[i] = g[i - 1] + d[i]

LEMMA PowersExist ==
  ASSUME NEW B \in Nat \ {0}, NEW n \in Nat
  PROVE  \E f : f = [i \in 0..n |-> IF i = 0 THEN 1 ELSE B * f[i - 1]]
<1> DEFINE S == Nat \ {0}
           D == [q \in S \X Nat |-> B * q[1]]
<1>1. D \in Steps(S)
  <2>1. ASSUME NEW q \in S \X Nat PROVE B * q[1] \in S
    OBVIOUS
  <2>2. QED
    BY <2>1 DEF Steps
<1>2. PICK g : IsRecursion(g, S, 1, D, n)
  <2>1. 1 \in S
    OBVIOUS
  <2> HIDE DEF S, D
  <2>2. QED
    BY <1>1, <2>1, RecursionExists
<1>3. g \in [0..n -> S] /\ g[0] = 1 /\ \A i \in 1..n : g[i] = B * g[i - 1]
  <2>1. g \in [0..n -> S] /\ g[0] = 1 /\ \A i \in 1..n : g[i] = D[<<g[i - 1], i>>]
    BY <1>2 DEF IsRecursion
  <2>2. ASSUME NEW i \in 1..n PROVE g[i] = B * g[i - 1]
    <3>1. <<g[i - 1], i>> \in S \X Nat
      BY <2>1
    <3>2. QED
      BY <2>1, <3>1
  <2>3. QED
    BY <2>1, <2>2
<1>4. \A i \in 0..n : g[i] = IF i = 0 THEN 1 ELSE B * g[i - 1]
  BY <1>3
<1> HIDE DEF S
<1>5. g = [i \in 0..n |-> IF i = 0 THEN 1 ELSE B * g[i - 1]]
  BY <1>3, <1>4
<1>6. QED
  BY <1>5

LEMMA PowersPositive ==
  ASSUME NEW B \in Nat \ {0}, NEW n \in Nat, NEW P, IsPowers(P, B, n)
  PROVE  \A i \in 0..n : P[i] \in Nat \ {0}
<1> DEFINE T == {i \in Nat : P[i] \in Nat \ {0}}
<1>1. 0 \in T
  BY DEF IsPowers
<1>2. ASSUME NEW i \in 0..n-1, i \in T PROVE i + 1 \in T
  <2>1. i + 1 \in 1..n /\ (i + 1) - 1 = i /\ P[i] \in Nat \ {0}
    BY <1>2
  <2>2. P[i + 1] = B * P[i]
    BY <2>1 DEF IsPowers
  <2>3. QED
    BY <2>1, <2>2
<1> HIDE DEF T
<1>3. \A i \in 0..n : i \in T
  BY <1>1, <1>2, SetInduction
<1>4. QED
  BY <1>3 DEF T

LEMMA SumExists ==
  ASSUME NEW n \in Nat, NEW d, \A i \in 1..n : d[i] \in Nat
  PROVE  \E f : f = [i \in 0..n |-> IF i = 0 THEN 0 ELSE f[i - 1] + d[i]]
<1> DEFINE D == [q \in Nat \X Nat |-> IF q[2] \in 1..n THEN q[1] + d[q[2]] ELSE 0]
<1>1. D \in Steps(Nat)
  <2>1. ASSUME NEW q \in Nat \X Nat
        PROVE  (IF q[2] \in 1..n THEN q[1] + d[q[2]] ELSE 0) \in Nat
    <3>1. CASE q[2] \in 1..n
      <4>1. q[1] \in Nat /\ d[q[2]] \in Nat
        BY <3>1
      <4>2. QED
        BY <3>1, <4>1
    <3>2. QED
      BY <3>1
  <2>2. QED
    BY <2>1 DEF Steps
<1>2. PICK g : IsRecursion(g, Nat, 0, D, n)
  <2> HIDE DEF D
  <2>1. QED
    BY <1>1, RecursionExists
<1>3. g \in [0..n -> Nat] /\ g[0] = 0 /\ \A i \in 1..n : g[i] = g[i - 1] + d[i]
  <2>1. g \in [0..n -> Nat] /\ g[0] = 0 /\ \A i \in 1..n : g[i] = D[<<g[i - 1], i>>]
    BY <1>2 DEF IsRecursion
  <2>2. ASSUME NEW i \in 1..n PROVE g[i] = g[i - 1] + d[i]
    <3>1. g[i - 1] \in Nat /\ i \in Nat
      BY <2>1
    <3>2. D[<<g[i - 1], i>>] = g[i - 1] + d[i]
      BY <3>1
    <3>3. QED
      BY <2>1, <3>2
  <2>3. QED
    BY <2>1, <2>2
<1>4. \A i \in 0..n : g[i] = IF i = 0 THEN 0 ELSE g[i - 1] + d[i]
  BY <1>3
<1>5. g = [i \in 0..n |-> IF i = 0 THEN 0 ELSE g[i - 1] + d[i]]
  BY <1>3, <1>4
<1>6. QED
  BY <1>5

LEMMA SumType ==
  ASSUME NEW n \in Nat, NEW d, NEW g, IsSum(g, d, n), \A i \in 1..n : d[i] \in Nat
  PROVE  /\ \A i \in 0..n : g[i] \in Nat
         /\ \A i \in 1..n : g[i - 1] <= g[i]
<1> DEFINE T == {i \in Nat : g[i] \in Nat}
<1>1. 0 \in T
  BY DEF IsSum
<1>2. ASSUME NEW i \in 0..n-1, i \in T PROVE i + 1 \in T
  <2>1. i + 1 \in 1..n /\ (i + 1) - 1 = i /\ g[i] \in Nat
    BY <1>2
  <2>2. g[i + 1] = g[i] + d[i + 1] /\ d[i + 1] \in Nat
    BY <2>1 DEF IsSum
  <2>3. QED
    BY <2>1, <2>2
<1> HIDE DEF T
<1>3. \A i \in 0..n : i \in T
  BY <1>1, <1>2, SetInduction
<1>4. \A i \in 0..n : g[i] \in Nat
  BY <1>3 DEF T
<1>5. ASSUME NEW i \in 1..n PROVE g[i - 1] <= g[i]
  <2>1. i - 1 \in 0..n /\ i \in 0..n
    OBVIOUS
  <2>2. g[i] = g[i - 1] + d[i] /\ d[i] \in Nat /\ g[i] \in Nat /\ g[i - 1] \in Nat
    BY <1>4, <2>1 DEF IsSum
  <2>3. QED
    BY <2>2
<1>6. QED
  BY <1>4, <1>5

LEMMA SumsAgree ==
  ASSUME NEW n \in Nat, NEW d, NEW e, NEW g, NEW h, IsSum(g, d, n), IsSum(h, e, n),
         \A i \in 1..n : d[i] = e[i]
  PROVE  \A i \in 0..n : g[i] = h[i]
<1> DEFINE T == {i \in Nat : g[i] = h[i]}
<1>1. 0 \in T
  BY DEF IsSum
<1>2. ASSUME NEW i \in 0..n-1, i \in T PROVE i + 1 \in T
  <2>1. i + 1 \in 1..n /\ (i + 1) - 1 = i /\ g[i] = h[i]
    BY <1>2
  <2>2. g[i + 1] = g[i] + d[i + 1] /\ h[i + 1] = h[i] + e[i + 1] /\ d[i + 1] = e[i + 1]
    BY <2>1 DEF IsSum
  <2>3. QED
    BY <2>1, <2>2
<1> HIDE DEF T
<1>3. \A i \in 0..n : i \in T
  BY <1>1, <1>2, SetInduction
<1>4. QED
  BY <1>3 DEF T

\* A number is what its digits so far make of it, and so many times the next
\* place.
LEMMA NextDigit ==
  ASSUME NEW P \in Nat \ {0}, NEW B \in Nat \ {0}, NEW n \in Nat, NEW d \in Nat,
         d < P, n = d + P * (n \div P)
  PROVE  LET e == d + ((n \div P) % B) * P
         IN  e \in Nat /\ e < B * P /\ n = e + (B * P) * (n \div (B * P))
<1> DEFINE q == n \div P
           m == q % B
           t == q \div B
           u == n \div (B * P)
           r == n % (B * P)
           e == d + m * P
<1>1. q \in Nat /\ B * P \in Nat \ {0}
  OBVIOUS
<1>2. m \in 0..B-1 /\ t \in Int /\ q = B * t + m
  <2> HIDE DEF q
  <2>1. QED
    BY <1>1
<1>3. r \in 0..(B * P)-1 /\ u \in Int /\ n = (B * P) * u + r
  <2> DEFINE W == B * P
  <2>1. W \in Nat \ {0}
    BY <1>1
  <2> HIDE DEF W
  <2>2. n % W \in 0..W-1 /\ n \div W \in Int /\ n = W * (n \div W) + (n % W)
    BY <2>1
  <2>3. QED
    BY <2>2 DEF W
<1> HIDE DEF q, m, t, u, r
<1>4. e \in Nat /\ e < B * P
  <2>1. m * P <= (B - 1) * P
    BY <1>2
  <2>2. (B - 1) * P = B * P - P /\ m * P \in Nat
    BY <1>2
  <2>3. QED
    BY <2>1, <2>2
<1>5. n = (B * P) * t + e
  <2>1. n = d + P * (B * t + m)
    BY <1>2 DEF q
  <2>2. QED
    BY <1>2, <2>1
<1> HIDE DEF e
<1>6. t = u
  <2> DEFINE W == B * P
  <2>1. W * (t - u) = r - e /\ W \in Nat \ {0}
    BY <1>1, <1>2, <1>3, <1>4, <1>5
  <2>2. r - e < W /\ e - r < W
    BY <1>3, <1>4
  <2> HIDE DEF W
  <2>3. ~(t - u >= 1)
    <3>1. t - u >= 1 => W * (t - u) >= W
      BY <1>2, <1>3, <2>1
    <3>2. QED
      BY <1>2, <1>3, <1>4, <2>1, <2>2, <3>1
  <2>4. ~(u - t >= 1)
    <3>1. u - t >= 1 => W * (t - u) <= -W
      BY <1>2, <1>3, <2>1
    <3>2. QED
      BY <1>2, <1>3, <1>4, <2>1, <2>2, <3>1
  <2>5. QED
    BY <1>2, <1>3, <2>3, <2>4
<1>7. QED
  BY <1>4, <1>5, <1>6 DEF e, m, q, u

\* The digits of a number make it again.
LEMMA DigitsMake ==
  ASSUME NEW B \in Nat \ {0}, NEW n \in Nat, NEW P, IsPowers(P, B, n),
         NEW v \in Nat, v < P[n], NEW d, NEW g, IsSum(g, d, n),
         \A i \in 1..n : d[i] = ((v \div P[i - 1]) % B) * P[i - 1]
  PROVE  g[n] = v
<1>0. \A i \in 0..n : P[i] \in Nat \ {0}
  BY PowersPositive
<1> DEFINE T == {i \in Nat : g[i] \in Nat /\ g[i] < P[i] /\ v = g[i] + P[i] * (v \div P[i])}
<1>1. 0 \in T
  <2>1. g[0] = 0 /\ P[0] = 1 /\ v = 0 + 1 * (v \div 1)
    BY DEF IsSum, IsPowers
  <2>2. QED
    BY <2>1
<1>2. ASSUME NEW i \in 0..n-1, i \in T PROVE i + 1 \in T
  <2> DEFINE p == P[i]
             e == g[i]
  <2>1. i + 1 \in 1..n /\ (i + 1) - 1 = i /\ i \in 0..n
    OBVIOUS
  <2>2. p \in Nat \ {0} /\ e \in Nat /\ e < p /\ v = e + p * (v \div p)
    BY <1>0, <1>2, <2>1
  <2>3. g[i + 1] = e + ((v \div p) % B) * p /\ P[i + 1] = B * p
    BY <2>1 DEF IsSum, IsPowers
  <2> HIDE DEF p, e
  <2> DEFINE f == e + ((v \div p) % B) * p
             W == B * p
  <2>4. f \in Nat /\ f < W /\ v = f + W * (v \div W)
    BY <2>2, NextDigit
  <2>5. g[i + 1] = f /\ P[i + 1] = W
    BY <2>3
  <2> HIDE DEF f, W
  <2>6. QED
    BY <2>1, <2>4, <2>5
<1> HIDE DEF T
<1>3. \A i \in 0..n : i \in T
  BY <1>1, <1>2, SetInduction
<1>4. g[n] \in Nat /\ g[n] < P[n] /\ v = g[n] + P[n] * (v \div P[n])
  BY <1>3 DEF T
<1> DEFINE p == P[n]
           e == g[n]
<1>5. p \in Nat \ {0} /\ e \in Nat /\ v < p /\ v = e + p * (v \div p)
  BY <1>0, <1>4
<1> HIDE DEF p, e
<1>6. v \div p = 0
  <2> DEFINE q == v \div p
  <2>1. q \in Nat /\ v = e + p * q
    BY <1>5
  <2> HIDE DEF q
  <2>2. q >= 1 => p * q >= p
    BY <1>5, <2>1
  <2>3. q = 0
    BY <1>5, <2>1, <2>2
  <2>4. QED
    BY <2>3 DEF q
<1>7. v = e
  BY <1>5, <1>6
<1>8. QED
  BY <1>7 DEF e
===============================================================================
