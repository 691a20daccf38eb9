-------------------------- MODULE FrameParserProofs --------------------------
(***************************************************************************)
(* Theorems about FrameParser, for any base and width of the prefix, any   *)
(* payloads, any ill-formed byte sequences and any chunks.                 *)
(***************************************************************************)
EXTENDS FrameParser, SequenceLemmas, TLAPS

Byte == 0..Base-1

-------------------------------------------------------------------------------
(* Numbers and their digits.                                                *)

LEMMA PlaceFacts ==
  /\ IsPowers(Place, Base, LenBytes)
  /\ \A i \in 0..LenBytes : Place[i] \in Nat \ {0}
<1> DEFINE Eq(f) == f = [i \in 0..LenBytes |-> IF i = 0 THEN 1 ELSE Base * f[i - 1]]
<1>1. Base \in Nat \ {0} /\ LenBytes \in Nat
  BY ParserAssumption
<1>2. Eq(Place)
  <2>1. Place = CHOOSE f : Eq(f)
    BY DEF Place
  <2>2. \E f : Eq(f)
    BY <1>1, PowersExist
  <2> HIDE DEF Eq
  <2>3. QED
    BY <2>1, <2>2
<1>3. IsPowers(Place, Base, LenBytes)
  BY <1>1, <1>2 DEF IsPowers
<1>4. QED
  BY <1>1, <1>3, PowersPositive

\* The length that the digits of b make, summed up.
Summand(b) == [i \in 1..LenBytes |-> b[i] * Place[i - 1]]

LEMMA LengthIsSum ==
  ASSUME NEW b, \A i \in 1..LenBytes : b[i] \in Nat
  PROVE  /\ \A i \in 1..LenBytes : Summand(b)[i] \in Nat
         /\ \E g : IsSum(g, Summand(b), LenBytes) /\ Length(b) = g[LenBytes]
<1> DEFINE d == Summand(b)
           Eq(f) == f = [i \in 0..LenBytes |-> IF i = 0 THEN 0 ELSE f[i - 1] + b[i] * Place[i - 1]]
           F == CHOOSE f : Eq(f)
<1>1. LenBytes \in Nat
  BY ParserAssumption
<1>2. \A i \in 1..LenBytes : d[i] = b[i] * Place[i - 1]
  BY DEF Summand
<1>3. ASSUME NEW i \in 1..LenBytes PROVE d[i] \in Nat
  <2>1. i - 1 \in 0..LenBytes
    BY <1>1
  <2>2. Place[i - 1] \in Nat /\ b[i] \in Nat
    BY <2>1, PlaceFacts
  <2>3. QED
    BY <1>2, <2>2
<1> HIDE DEF d
<1>4. PICK g : g = [i \in 0..LenBytes |-> IF i = 0 THEN 0 ELSE g[i - 1] + d[i]]
  BY <1>1, <1>3, SumExists
<1>5. Eq(g)
  <2>1. ASSUME NEW i \in 0..LenBytes
        PROVE  (IF i = 0 THEN 0 ELSE g[i - 1] + d[i]) = (IF i = 0 THEN 0 ELSE g[i - 1] + b[i] * Place[i - 1])
    <3>1. CASE i = 0
      BY <3>1
    <3>2. CASE i # 0
      <4>1. i \in 1..LenBytes
        BY <1>1, <3>2
      <4>2. QED
        BY <1>2, <3>2, <4>1
    <3>3. QED
      BY <3>1, <3>2
  <2>2. QED
    BY <1>4, <2>1
<1>6. Eq(F)
  <2> HIDE DEF Eq
  <2>1. QED
    BY <1>5
<1>7. Length(b) = F[LenBytes]
  BY DEF Length
<1> HIDE DEF F
<1>8. IsSum(F, d, LenBytes)
  BY <1>1, <1>2, <1>6 DEF IsSum
<1>9. QED
  BY <1>3, <1>7, <1>8 DEF d

\* Only the digits count.
LEMMA LengthOfSame ==
  ASSUME NEW b, NEW c, \A i \in 1..LenBytes : b[i] \in Nat /\ b[i] = c[i]
  PROVE  Length(b) = Length(c) /\ Length(b) \in Nat
<1>0. LenBytes \in Nat /\ LenBytes \in 0..LenBytes
  BY ParserAssumption
<1>1. PICK g : IsSum(g, Summand(b), LenBytes) /\ Length(b) = g[LenBytes]
  BY LengthIsSum
<1>2. PICK h : IsSum(h, Summand(c), LenBytes) /\ Length(c) = h[LenBytes]
  <2>1. \A i \in 1..LenBytes : c[i] \in Nat
    OBVIOUS
  <2>2. QED
    BY <2>1, LengthIsSum
<1>3. \A i \in 1..LenBytes : Summand(b)[i] \in Nat /\ Summand(b)[i] = Summand(c)[i]
  <2>1. \A i \in 1..LenBytes : Summand(b)[i] \in Nat
    BY LengthIsSum
  <2>2. QED
    BY <2>1 DEF Summand
<1>4. g[LenBytes] = h[LenBytes]
  BY <1>0, <1>1, <1>2, <1>3, SumsAgree
<1>5. g[LenBytes] \in Nat
  BY <1>0, <1>1, <1>3, SumType
<1>6. QED
  BY <1>1, <1>2, <1>4, <1>5

\* The prefix says the length it was made from.
LEMMA LengthOfLittleEndian ==
  ASSUME NEW n \in Nat, n < Place[LenBytes], NEW b,
         \A i \in 1..LenBytes : b[i] = LittleEndian(n)[i]
  PROVE  Length(b) = n
<1>0. LenBytes \in Nat /\ Base \in Nat \ {0}
  BY ParserAssumption
<1>1. \A i \in 1..LenBytes : i - 1 \in 0..LenBytes /\ b[i] = (n \div Place[i - 1]) % Base
  BY <1>0 DEF LittleEndian
<1>2. \A i \in 1..LenBytes : b[i] \in Nat
  <2> SUFFICES ASSUME NEW i \in 1..LenBytes PROVE b[i] \in Nat
    OBVIOUS
  <2> DEFINE P == Place[i - 1]
             q == n \div P
  <2>1. P \in Nat \ {0} /\ b[i] = q % Base
    BY <1>1, PlaceFacts
  <2>2. q \in Nat
    <3> HIDE DEF P
    <3>1. QED
      BY <2>1
  <2> HIDE DEF q
  <2>3. QED
    BY <1>0, <2>1, <2>2
<1>3. PICK g : IsSum(g, Summand(b), LenBytes) /\ Length(b) = g[LenBytes]
  BY <1>2, LengthIsSum
<1>4. \A i \in 1..LenBytes : Summand(b)[i] = ((n \div Place[i - 1]) % Base) * Place[i - 1]
  BY <1>1 DEF Summand
<1>5. IsPowers(Place, Base, LenBytes)
  BY PlaceFacts
<1>6. QED
  BY <1>0, <1>3, <1>4, <1>5, DigitsMake

-------------------------------------------------------------------------------
(* Sequences.                                                               *)

LEMMA SuffixFacts ==
  ASSUME NEW S, NEW s \in Seq(S), NEW n \in 0..Len(s)
  PROVE  /\ SubSeq(s, n + 1, Len(s)) \in Seq(S)
         /\ Len(SubSeq(s, n + 1, Len(s))) = Len(s) - n
         /\ \A i \in 1..Len(s) - n : SubSeq(s, n + 1, Len(s))[i] = s[n + i]
<1>1. Len(s) \in Nat /\ n \in Nat /\ n <= Len(s)
  OBVIOUS
<1>2. QED
  BY <1>1

LEMMA SuffixOfSuffix ==
  ASSUME NEW S, NEW s \in Seq(S), NEW n \in 0..Len(s), NEW k \in 0..Len(s) - n
  PROVE  LET t == SubSeq(s, n + 1, Len(s))
         IN  SubSeq(t, k + 1, Len(t)) = SubSeq(s, (n + k) + 1, Len(s))
<1> DEFINE t == SubSeq(s, n + 1, Len(s))
           l == SubSeq(t, k + 1, Len(t))
           r == SubSeq(s, (n + k) + 1, Len(s))
<1>1. Len(s) \in Nat /\ n \in Nat /\ k \in Nat /\ n + k \in 0..Len(s)
  OBVIOUS
<1>2. /\ t \in Seq(S) /\ Len(t) = Len(s) - n
      /\ \A i \in 1..Len(s) - n : t[i] = s[n + i]
  BY SuffixFacts
<1>3. /\ r \in Seq(S) /\ Len(r) = Len(s) - (n + k)
      /\ \A i \in 1..Len(s) - (n + k) : r[i] = s[(n + k) + i]
  BY <1>1, SuffixFacts
<1> HIDE DEF t, r
<1>4. k \in 0..Len(t)
  BY <1>2
<1>5. /\ l \in Seq(S) /\ Len(l) = Len(t) - k
      /\ \A i \in 1..Len(t) - k : l[i] = t[k + i]
  BY <1>2, <1>4, SuffixFacts
<1> HIDE DEF l
<1>6. Len(l) = Len(r) /\ Len(t) - k = Len(r)
  BY <1>1, <1>2, <1>3, <1>5
<1>7. ASSUME NEW i \in 1..Len(l) PROVE l[i] = r[i]
  <2>1. k + i \in 1..Len(s) - n /\ n + (k + i) = (n + k) + i
    BY <1>1, <1>2, <1>5
  <2>2. l[i] = t[k + i] /\ r[i] = s[(n + k) + i]
    BY <1>3, <1>5, <1>6
  <2>3. QED
    BY <1>2, <2>1, <2>2
<1>8. l = r
  BY <1>3, <1>5, <1>6, <1>7, SeqEqual
<1>9. QED
  BY <1>8 DEF l, r, t

-------------------------------------------------------------------------------
(* What next() reports.                                                     *)

LEMMA GoodFrameFacts ==
  ASSUME NEW f \in GoodFrames
  PROVE  /\ f.channel \in {0, 1} /\ f.type = 1
         /\ f.payload \in Seq(Byte) /\ Len(f.payload) \in 0..MaxPayload
         /\ f = [channel |-> f.channel, type |-> 1, payload |-> f.payload]
<1>1. PICK c \in {0, 1}, q \in Payloads : f = [channel |-> c, type |-> 1, payload |-> q]
  BY DEF GoodFrames, Channels
<1>2. PICK n \in 0..MaxPayload : q \in [1..n -> Byte]
  BY ParserAssumption DEF Byte
<1>3. q \in Seq(Byte) /\ Len(q) = n
  BY <1>2, ParserAssumption
<1>4. QED
  BY <1>1, <1>3

LEMMA EncodeFacts ==
  ASSUME NEW f \in GoodFrames
  PROVE  /\ Encode(f) \in Seq(Byte)
         /\ Len(Encode(f)) = LenBytes + 3 + Len(f.payload)
         /\ \A i \in 1..LenBytes : Encode(f)[i] = LittleEndian(3 + Len(f.payload))[i]
         /\ Encode(f)[LenBytes + 1] = f.channel
         /\ Encode(f)[LenBytes + 2] = 1
         /\ \A i \in 1..Len(f.payload) : Encode(f)[LenBytes + 3 + i] = f.payload[i]
<1> DEFINE le == LittleEndian(3 + Len(f.payload))
           mid == <<f.channel, f.type, 0>>
           pay == f.payload
<1>0. LenBytes \in Nat /\ Base \in Nat /\ Base > 2
  BY ParserAssumption
<1>1. pay \in Seq(Byte) /\ Len(pay) \in Nat /\ f.channel \in {0, 1} /\ f.type = 1
  <2>1. pay \in Seq(Byte) /\ f.channel \in {0, 1} /\ f.type = 1
    BY GoodFrameFacts
  <2> HIDE DEF pay
  <2>2. QED
    BY <2>1
<1>2. le \in Seq(Byte) /\ Len(le) = LenBytes
  <2> DEFINE n == 3 + Len(pay)
  <2>1. n \in Nat
    BY <1>1
  <2> HIDE DEF n
  <2>2. \A i \in 1..LenBytes : (n \div Place[i - 1]) % Base \in Byte
    <3> SUFFICES ASSUME NEW i \in 1..LenBytes PROVE (n \div Place[i - 1]) % Base \in Byte
      OBVIOUS
    <3> DEFINE P == Place[i - 1]
               q == n \div P
    <3>1. P \in Nat \ {0}
      <4>1. i - 1 \in 0..LenBytes
        BY <1>0
      <4>2. QED
        BY <4>1, PlaceFacts
    <3> HIDE DEF P
    <3>2. q \in Nat
      BY <2>1, <3>1
    <3> HIDE DEF q
    <3>3. q % Base \in Byte
      BY <1>0, <3>2 DEF Byte
    <3>4. QED
      BY <3>3 DEF q, P
  <2>3. LittleEndian(n) \in [1..LenBytes -> Byte]
    BY <2>2 DEF LittleEndian
  <2> DEFINE v == LittleEndian(n)
  <2> HIDE DEF v
  <2>4. v \in Seq(Byte) /\ Len(v) = LenBytes
    BY <1>0, <2>3 DEF v
  <2>5. QED
    BY <2>4 DEF v, n
<1>3. /\ mid \in Seq(Byte) /\ Len(mid) = 3
      /\ mid[1] = f.channel /\ mid[2] = 1 /\ mid[3] = 0
  <2>1. f.channel \in Byte /\ f.type \in Byte /\ 0 \in Byte
    BY <1>0, <1>1 DEF Byte
  <2>2. QED
    BY <1>1, <2>1
<1>4. Encode(f) = le \o mid \o pay
  BY DEF Encode
<1> HIDE DEF le, mid, pay
<1>5. /\ le \o mid \in Seq(Byte) /\ Len(le \o mid) = LenBytes + 3
      /\ \A i \in 1..LenBytes : (le \o mid)[i] = le[i]
      /\ (le \o mid)[LenBytes + 1] = mid[1]
      /\ (le \o mid)[LenBytes + 2] = mid[2]
  <2>1. 1 \in 1..Len(mid) /\ 2 \in 1..Len(mid)
    BY <1>3
  <2>2. le \in Seq(Byte) /\ mid \in Seq(Byte)
    BY <1>2, <1>3
  <2>3. /\ le \o mid \in Seq(Byte) /\ Len(le \o mid) = Len(le) + Len(mid)
        /\ \A i \in 1..Len(le) : (le \o mid)[i] = le[i]
        /\ \A i \in 1..Len(mid) : (le \o mid)[Len(le) + i] = mid[i]
    BY <2>2, ConcatFacts
  <2>4. Len(le) = LenBytes /\ Len(mid) = 3
    BY <1>2, <1>3
  <2>5. QED
    BY <2>1, <2>3, <2>4
<1> DEFINE head == le \o mid
<1> HIDE DEF head
<1>6. /\ head \o pay \in Seq(Byte) /\ Len(head \o pay) = LenBytes + 3 + Len(pay)
      /\ \A i \in 1..LenBytes + 3 : (head \o pay)[i] = head[i]
      /\ \A i \in 1..Len(pay) : (head \o pay)[LenBytes + 3 + i] = pay[i]
  <2>1. head \in Seq(Byte) /\ Len(head) = LenBytes + 3
    BY <1>5 DEF head
  <2>2. QED
    BY <1>0, <1>1, <2>1
<1>7. \A i \in 1..LenBytes : i \in 1..LenBytes + 3
  BY <1>0
<1>8. LenBytes + 1 \in 1..LenBytes + 3 /\ LenBytes + 2 \in 1..LenBytes + 3
  BY <1>0
<1>9. Encode(f) = head \o pay
  BY <1>4 DEF head
<1>10. /\ \A i \in 1..LenBytes : Encode(f)[i] = le[i]
       /\ Encode(f)[LenBytes + 1] = f.channel
       /\ Encode(f)[LenBytes + 2] = 1
  BY <1>3, <1>5, <1>6, <1>7, <1>8, <1>9 DEF head
<1>11. QED
  BY <1>6, <1>9, <1>10 DEF le, pay

LEMMA LengthOfBytes ==
  ASSUME NEW x \in Seq(Byte), LenBytes <= Len(x), NEW y \in Seq(Byte)
  PROVE  Length(x \o y) = Length(x) /\ Length(x) \in Nat
<1>0. LenBytes \in Nat /\ Base \in Nat
  BY ParserAssumption
<1>1. \A i \in 1..LenBytes : x[i] \in Nat /\ x[i] = (x \o y)[i]
  <2>1. \A i \in 1..LenBytes : x[i] \in Byte /\ x[i] = (x \o y)[i]
    BY <1>0
  <2>2. QED
    BY <1>0, <2>1 DEF Byte
<1> DEFINE z == x \o y
<1> HIDE DEF z
<1>2. \A i \in 1..LenBytes : x[i] \in Nat /\ x[i] = z[i]
  BY <1>1 DEF z
<1>3. Length(x) = Length(z) /\ Length(x) \in Nat
  BY <1>2, LengthOfSame
<1>4. QED
  BY <1>3 DEF z

LEMMA EncodedReport ==
  ASSUME NEW f \in GoodFrames, NEW y \in Seq(Byte)
  PROVE  /\ ErrorOf(Encode(f) \o y) = "Ok"
         /\ FrameOf(Encode(f) \o y) = f
         /\ LenBytes + Length(Encode(f) \o y) = Len(Encode(f))
<1> DEFINE E == Encode(f)
           x == E \o y
           L == Len(f.payload)
<1>0. LenBytes \in Nat /\ MaxPayload \in Nat /\ LenBytes > 0 /\ MaxPayload + 3 < Place[LenBytes]
      /\ Place[LenBytes] \in Nat
  BY ParserAssumption, LengthAssumption, PlaceFacts
<1>1. /\ E \in Seq(Byte) /\ Len(E) = LenBytes + 3 + L
      /\ \A i \in 1..LenBytes : E[i] = LittleEndian(3 + L)[i]
      /\ E[LenBytes + 1] = f.channel
      /\ E[LenBytes + 2] = 1
      /\ \A i \in 1..L : E[LenBytes + 3 + i] = f.payload[i]
  BY EncodeFacts
<1>2. /\ f.channel \in {0, 1} /\ f.type = 1
      /\ f.payload \in Seq(Byte) /\ L \in 0..MaxPayload
      /\ f = [channel |-> f.channel, type |-> 1, payload |-> f.payload]
  BY GoodFrameFacts
<1> DEFINE pay == f.payload
<1> HIDE DEF E, L
<1>3. /\ x \in Seq(Byte) /\ Len(x) = Len(E) + Len(y) /\ Len(y) \in Nat
      /\ \A i \in 1..Len(E) : x[i] = E[i]
  <2>1. E \in Seq(Byte) /\ Len(y) \in Nat
    BY <1>1
  <2>2. QED
    BY <2>1, ConcatFacts
<1> HIDE DEF x
<1>4. L \in Nat /\ L <= MaxPayload
  BY <1>0, <1>2
<1>5. /\ \A i \in 1..LenBytes : i \in 1..Len(E)
      /\ LenBytes + 1 \in 1..Len(E) /\ LenBytes + 2 \in 1..Len(E)
      /\ \A i \in 1..L : LenBytes + 3 + i \in 1..Len(E)
  BY <1>0, <1>1, <1>4
<1>6. Length(x) = 3 + L
  <2>1. \A i \in 1..LenBytes : x[i] = LittleEndian(3 + L)[i]
    BY <1>1, <1>3, <1>5
  <2>2. 3 + L \in Nat /\ 3 + L < Place[LenBytes]
    BY <1>0, <1>4
  <2>3. QED
    BY <2>1, <2>2, LengthOfLittleEndian
<1>7. x[LenBytes + 1] = f.channel /\ x[LenBytes + 2] = 1
  BY <1>1, <1>3, <1>5
<1>8. ErrorOf(x) = "Ok"
  <2>1. /\ ~(Len(x) < LenBytes) /\ ~(Length(x) < 3) /\ ~(Length(x) - 3 > MaxPayload)
        /\ ~(Len(x) < LenBytes + Length(x) + 0)
    BY <1>0, <1>1, <1>3, <1>4, <1>6
  <2>2. x[LenBytes + 1] \in Channels
    BY <1>2, <1>7 DEF Channels
  <2>3. QED
    BY <2>1, <2>2 DEF ErrorOf, Report
<1>9. SubSeq(x, LenBytes + 4, LenBytes + Length(x)) = pay
  <2> DEFINE s == SubSeq(x, LenBytes + 4, LenBytes + 3 + L)
  <2>1. /\ s \in Seq(Byte) /\ Len(s) = L
        /\ \A i \in 1..L : s[i] = x[LenBytes + 3 + i]
    <3>1. LenBytes + 3 + L <= Len(x) /\ Len(x) \in Nat
      BY <1>0, <1>1, <1>3, <1>4
    <3>2. \A i \in 1..L : LenBytes + 4 + i - 1 = LenBytes + 3 + i
      BY <1>0, <1>4
    <3>3. QED
      BY <1>0, <1>3, <1>4, <3>1, <3>2
  <2> HIDE DEF s
  <2>2. \A i \in 1..L : s[i] = pay[i]
    BY <1>1, <1>3, <1>5, <2>1, SMTT(20)
  <2>3. pay \in Seq(Byte) /\ Len(pay) = L
    BY <1>2 DEF L
  <2> HIDE DEF pay
  <2>4. s = pay
    BY <2>1, <2>2, <2>3, SeqEqual
  <2>5. LenBytes + Length(x) = LenBytes + 3 + L
    BY <1>0, <1>4, <1>6
  <2>6. QED
    BY <2>4, <2>5 DEF s
<1>10. FrameOf(x) = f
  BY <1>2, <1>7, <1>9 DEF FrameOf
<1>11. LenBytes + Length(x) = Len(E)
  BY <1>0, <1>1, <1>4, <1>6
<1>12. QED
  BY <1>8, <1>10, <1>11 DEF x, E

\* What has been reported of some bytes is not changed by those that follow.
LEMMA ReportIsFinal ==
  ASSUME NEW x \in Seq(Byte), NEW y \in Seq(Byte), ErrorOf(x) # "NeedMoreData"
  PROVE  /\ ErrorOf(x \o y) = ErrorOf(x)
         /\ ErrorOf(x) = "Ok" =>
              /\ FrameOf(x \o y) = FrameOf(x) /\ Length(x \o y) = Length(x)
              /\ Length(x) \in Nat /\ Length(x) >= 3 /\ LenBytes + Length(x) <= Len(x)
<1> DEFINE z == x \o y
           n == Length(x)
<1>0. LenBytes \in Nat /\ LenBytes > 0 /\ MaxPayload \in Nat
  BY ParserAssumption
<1>1. Len(x) \in Nat /\ LenBytes <= Len(x)
  BY <1>0 DEF ErrorOf, Report
<1>2. Length(z) = n /\ n \in Nat
  BY <1>1, LengthOfBytes
<1>3. /\ z \in Seq(Byte) /\ Len(z) = Len(x) + Len(y) /\ Len(y) \in Nat
      /\ \A i \in 1..Len(x) : z[i] = x[i]
  BY ConcatFacts
<1> HIDE DEF z
<1>4. CASE n < 3
  <2>1. ErrorOf(x) = "BadField" /\ ErrorOf(z) = "BadField"
    BY <1>0, <1>1, <1>2, <1>3, <1>4 DEF ErrorOf, Report
  <2>2. QED
    BY <2>1 DEF z
<1>5. CASE ~(n < 3) /\ n - 3 > MaxPayload
  <2>1. ErrorOf(x) = "OversizedMessage" /\ ErrorOf(z) = "OversizedMessage"
    BY <1>0, <1>1, <1>2, <1>3, <1>5 DEF ErrorOf, Report
  <2>2. QED
    BY <2>1 DEF z
<1>6. CASE ~(n < 3) /\ ~(n - 3 > MaxPayload)
  <2>1. ~(Len(x) < LenBytes + n + 0)
    BY <1>1, <1>6 DEF ErrorOf, Report
  <2>2. LenBytes + n <= Len(x) /\ ~(Len(z) < LenBytes + n + 0) /\ n >= 3
    BY <1>0, <1>1, <1>2, <1>3, <1>6, <2>1
  <2>3. LenBytes + 1 \in 1..Len(x) /\ LenBytes + 2 \in 1..Len(x)
    BY <1>0, <1>1, <1>2, <2>2
  <2>4. z[LenBytes + 1] = x[LenBytes + 1] /\ z[LenBytes + 2] = x[LenBytes + 2]
    BY <1>3, <2>3
  <2>5. ErrorOf(z) = ErrorOf(x)
    <3>1. ErrorOf(x) = IF x[LenBytes + 1] \notin Channels THEN "UnknownChannel" ELSE "Ok"
      BY <1>1, <1>6, <2>1 DEF ErrorOf, Report
    <3>2. ~(Len(z) < LenBytes)
      BY <1>0, <1>1, <1>3
    <3>3. ErrorOf(z) = IF z[LenBytes + 1] \notin Channels THEN "UnknownChannel" ELSE "Ok"
      BY <1>2, <1>6, <2>2, <3>2 DEF ErrorOf, Report
    <3>4. QED
      BY <2>4, <3>1, <3>3
  <2>6. SubSeq(z, LenBytes + 4, LenBytes + n) = SubSeq(x, LenBytes + 4, LenBytes + n)
    <3> DEFINE s == SubSeq(z, LenBytes + 4, LenBytes + n)
               t == SubSeq(x, LenBytes + 4, LenBytes + n)
               k == LenBytes + 3
               m == LenBytes + n
    <3>0. k \in Nat /\ m \in Nat /\ k <= m /\ m <= Len(x) /\ m <= Len(z) /\ LenBytes + 4 = k + 1
          /\ Len(z) \in Nat
      BY <1>0, <1>1, <1>2, <1>3, <2>2
    <3>1. s = SubSeq(z, k + 1, m) /\ t = SubSeq(x, k + 1, m)
      BY <3>0
    <3> HIDE DEF k, m, s, t
    <3>2. /\ SubSeq(z, k + 1, m) \in Seq(Byte) /\ Len(SubSeq(z, k + 1, m)) = m - k
          /\ \A i \in 1..m - k : SubSeq(z, k + 1, m)[i] = z[k + i]
      BY <1>3, <3>0, SMTT(20)
    <3>3. /\ SubSeq(x, k + 1, m) \in Seq(Byte) /\ Len(SubSeq(x, k + 1, m)) = m - k
          /\ \A i \in 1..m - k : SubSeq(x, k + 1, m)[i] = x[k + i]
      BY <1>1, <3>0, SMTT(20)
    <3>4. \A i \in 1..m - k : k + i \in 1..Len(x)
      BY <1>1, <3>0
    <3>5. \A i \in 1..m - k : SubSeq(z, k + 1, m)[i] = SubSeq(x, k + 1, m)[i]
      BY <1>3, <3>2, <3>3, <3>4
    <3>6. SubSeq(z, k + 1, m) = SubSeq(x, k + 1, m)
      <4>1. \A i \in 1..Len(SubSeq(z, k + 1, m)) : SubSeq(z, k + 1, m)[i] = SubSeq(x, k + 1, m)[i]
        BY <3>2, <3>5
      <4>2. QED
        BY <3>2, <3>3, <4>1, SeqEqual
    <3>7. QED
      BY <3>1, <3>6 DEF s, t
  <2>7. FrameOf(z) = FrameOf(x)
    BY <1>2, <2>4, <2>6 DEF FrameOf
  <2> HIDE DEF n
  <2>8. QED
    BY <1>2, <2>2, <2>5, <2>7 DEF z, n
<1>7. QED
  BY <1>4, <1>5, <1>6

LEMMA BadReport ==
  ASSUME NEW b \in BadFrames, NEW y \in Seq(Byte)
  PROVE  b \in Seq(Byte) /\ ErrorOf(b \o y) \in HardErrors
<1>1. b \in Seq(Byte) /\ ErrorOf(b) \in HardErrors
  BY ParserAssumption, BadFramesAssumption DEF ErrorOf, Byte
<1>2. ErrorOf(b) # "NeedMoreData"
  BY <1>1 DEF HardErrors
<1>3. QED
  BY <1>1, <1>2, ReportIsFinal

LEMMA ReportValues ==
  ASSUME NEW x
  PROVE  ErrorOf(x) \in {"Ok", "NeedMoreData"} \cup HardErrors
BY DEF ErrorOf, Report, HardErrors

\* Too few bytes for a frame are fewer than the longest has.
LEMMA NeedMoreIsShort ==
  ASSUME NEW x \in Seq(Byte), ErrorOf(x) = "NeedMoreData"
  PROVE  Len(x) < LenBytes + 3 + MaxPayload
<1>0. LenBytes \in Nat /\ MaxPayload \in Nat /\ Len(x) \in Nat
  BY ParserAssumption
<1>1. CASE Len(x) < LenBytes
  BY <1>0, <1>1
<1>2. CASE ~(Len(x) < LenBytes)
  <2>1. Length(x) \in Nat
    <3>1. <<>> \in Seq(Byte) /\ LenBytes <= Len(x)
      BY <1>0, <1>2
    <3>2. QED
      BY <3>1, LengthOfBytes
  <2>2. Len(x) < LenBytes + Length(x) + 0 /\ ~(Length(x) - 3 > MaxPayload)
    BY <1>2 DEF ErrorOf, Report
  <2>3. QED
    BY <1>0, <2>1, <2>2
<1>3. QED
  BY <1>1, <1>2

-------------------------------------------------------------------------------
(* The bytes of what was sent.                                              *)

Encoded(s, n) == [i \in 1..(Len(s) - n) |-> BytesOf(s[n + i])]

LEMMA BytesOfType ==
  ASSUME NEW x \in Sendable
  PROVE  /\ BytesOf(x) \in Seq(Byte)
         /\ \/ x.good /\ x.frame \in GoodFrames /\ BytesOf(x) = Encode(x.frame)
            \/ ~x.good /\ BytesOf(x) \in BadFrames
<1>1. CASE \E f \in GoodFrames : x = [good |-> TRUE, frame |-> f]
  <2>1. PICK f \in GoodFrames : x = [good |-> TRUE, frame |-> f]
    BY <1>1
  <2>2. x.good = TRUE /\ x.frame = f
    BY <2>1
  <2>3. BytesOf(x) = Encode(f) /\ x.good
    BY <2>2 DEF BytesOf
  <2>4. QED
    BY <2>2, <2>3, EncodeFacts
<1>2. CASE \E b \in BadFrames : x = [good |-> FALSE, bytes |-> b]
  <2>1. PICK b \in BadFrames : x = [good |-> FALSE, bytes |-> b]
    BY <1>2
  <2>2. x.good = FALSE /\ x.bytes = b
    BY <2>1
  <2>3. BytesOf(x) = b /\ ~x.good
    BY <2>2 DEF BytesOf
  <2>4. QED
    BY <2>3, ParserAssumption DEF Byte
<1>3. QED
  BY <1>1, <1>2 DEF Sendable

LEMMA EncodedType ==
  ASSUME NEW s \in Seq(Sendable), NEW n \in 0..Len(s)
  PROVE  /\ Encoded(s, n) \in Seq(Seq(Byte))
         /\ Len(Encoded(s, n)) = Len(s) - n
         /\ \A i \in 1..(Len(s) - n) : n + i \in 1..Len(s) /\ Encoded(s, n)[i] = BytesOf(s[n + i])
<1> DEFINE B == Seq(Byte)
           e == Encoded(s, n)
<1>1. Len(s) - n \in Nat /\ Len(s) \in Nat /\ n \in Nat
  OBVIOUS
<1>2. ASSUME NEW i \in 1..(Len(s) - n) PROVE n + i \in 1..Len(s) /\ BytesOf(s[n + i]) \in B
  <2>1. n + i \in 1..Len(s)
    BY <1>1
  <2>2. s[n + i] \in Sendable
    BY <2>1
  <2>3. QED
    BY <2>1, <2>2, BytesOfType
<1> HIDE DEF B
<1>3. e \in [1..(Len(s) - n) -> B]
  BY <1>2 DEF Encoded
<1>4. \A i \in 1..(Len(s) - n) : e[i] = BytesOf(s[n + i])
  BY DEF Encoded
<1> HIDE DEF e
<1>5. e \in Seq(B) /\ Len(e) = Len(s) - n
  BY <1>1, <1>3
<1>6. QED
  BY <1>2, <1>4, <1>5 DEF e, B

\* The first of what remains, and the rest.
LEMMA EncodedFirst ==
  ASSUME NEW s \in Seq(Sendable), NEW n \in 0..Len(s), n # Len(s)
  PROVE  /\ n + 1 \in 1..Len(s)
         /\ BytesOf(s[n + 1]) \in Seq(Byte)
         /\ FlattenSeq(Encoded(s, n + 1)) \in Seq(Byte)
         /\ FlattenSeq(Encoded(s, n)) = BytesOf(s[n + 1]) \o FlattenSeq(Encoded(s, n + 1))
<1> DEFINE B == Seq(Byte)
           x == BytesOf(s[n + 1])
           e == Encoded(s, n)
           r == Encoded(s, n + 1)
<1>1. Len(s) \in Nat /\ n \in Nat /\ n + 1 \in 0..Len(s) /\ n + 1 \in 1..Len(s)
  OBVIOUS
<1>2. x \in B
  <2>1. s[n + 1] \in Sendable
    BY <1>1
  <2>2. QED
    BY <2>1, BytesOfType
<1>3. /\ e \in Seq(B) /\ Len(e) = Len(s) - n
      /\ \A i \in 1..(Len(s) - n) : e[i] = BytesOf(s[n + i])
  BY EncodedType
<1>4. /\ r \in Seq(B) /\ Len(r) = Len(s) - (n + 1)
      /\ \A i \in 1..(Len(s) - (n + 1)) : r[i] = BytesOf(s[(n + 1) + i])
  BY <1>1, EncodedType
<1> HIDE DEF B, e, r
<1>5. <<x>> \in Seq(B) /\ Len(<<x>>) = 1 /\ <<x>>[1] = x
  <2> HIDE DEF x
  <2>1. QED
    BY <1>2
<1> DEFINE one == <<x>>
           c == one \o r
<1>6. /\ c \in Seq(B) /\ Len(c) = Len(s) - n
      /\ c[1] = x
      /\ \A i \in 1..(Len(s) - (n + 1)) : c[1 + i] = r[i]
  <2>1. one \in Seq(B) /\ Len(one) = 1 /\ one[1] = x /\ 1 \in 1..Len(one)
    BY <1>5
  <2> HIDE DEF one, x
  <2>0. one \in Seq(B) /\ r \in Seq(B)
    BY <1>4, <2>1
  <2>2. /\ c \in Seq(B) /\ Len(c) = Len(one) + Len(r)
        /\ \A i \in 1..Len(one) : c[i] = one[i]
        /\ \A i \in 1..Len(r) : c[Len(one) + i] = r[i]
    BY <2>0, ConcatFacts
  <2> HIDE DEF c
  <2>3. Len(one) + Len(r) = Len(s) - n
    BY <1>1, <1>4, <2>1
  <2>4. QED
    BY <1>4, <2>1, <2>2, <2>3
<1> HIDE DEF c, one
<1>7. ASSUME NEW i \in 1..(Len(s) - n) PROVE e[i] = c[i]
  <2>1. CASE i = 1
    BY <1>3, <1>6, <2>1
  <2>2. CASE i # 1
    <3>1. i - 1 \in 1..(Len(s) - (n + 1)) /\ 1 + (i - 1) = i /\ (n + 1) + (i - 1) = n + i
      BY <1>1, <2>2
    <3>2. c[i] = r[i - 1] /\ r[i - 1] = BytesOf(s[n + i])
      BY <1>4, <1>6, <3>1
    <3>3. QED
      BY <1>3, <3>2
  <2>3. QED
    BY <2>1, <2>2
<1>8. e = c
  BY <1>3, <1>6, <1>7, SeqEqual
<1>9. FlattenSeq(e) = FlattenSeq(one) \o FlattenSeq(r)
  <2>1. one \in Seq(Seq(Byte)) /\ r \in Seq(Seq(Byte))
    BY <1>4, <1>5 DEF B, one
  <2>2. FlattenSeq(one \o r) = FlattenSeq(one) \o FlattenSeq(r)
    BY <2>1, FlattenConcat
  <2>3. QED
    BY <1>8, <2>2 DEF c
<1>10. FlattenSeq(one) = x
  <2>1. x \in Seq(Byte)
    BY <1>2 DEF B
  <2> HIDE DEF x
  <2>2. QED
    BY <2>1, FlattenOne DEF one
<1>11. FlattenSeq(r) \in Seq(Byte)
  <2>1. r \in Seq(Seq(Byte))
    BY <1>4 DEF B
  <2>2. QED
    BY <2>1, FlattenType
<1> HIDE DEF x
<1>12. QED
  BY <1>1, <1>2, <1>9, <1>10, <1>11 DEF B, x, e, r

LEMMA EncodedLast ==
  ASSUME NEW s \in Seq(Sendable), NEW x \in Sendable, NEW n \in 0..Len(s)
  PROVE  /\ FlattenSeq(Encoded(s, n)) \in Seq(Byte)
         /\ FlattenSeq(Encoded(Append(s, x), n)) = FlattenSeq(Encoded(s, n)) \o BytesOf(x)
<1> DEFINE B == Seq(Byte)
           y == BytesOf(x)
           t == Append(s, x)
           e == Encoded(s, n)
           g == Encoded(t, n)
<1>1. Len(s) \in Nat /\ n \in Nat /\ n <= Len(s)
  OBVIOUS
<1>2. /\ t \in Seq(Sendable) /\ Len(t) = Len(s) + 1 /\ t[Len(s) + 1] = x
      /\ \A i \in 1..Len(s) : t[i] = s[i]
  OBVIOUS
<1> HIDE DEF t
<1>3. n \in 0..Len(t) /\ Len(t) - n = Len(s) - n + 1
  BY <1>1, <1>2
<1>4. y \in B
  BY BytesOfType
<1>5. /\ e \in Seq(B) /\ Len(e) = Len(s) - n
      /\ \A i \in 1..(Len(s) - n) : e[i] = BytesOf(s[n + i])
  BY EncodedType
<1>6. /\ g \in Seq(B) /\ Len(g) = Len(t) - n
      /\ \A i \in 1..(Len(t) - n) : g[i] = BytesOf(t[n + i])
  BY <1>2, <1>3, EncodedType
<1> DEFINE one == <<y>>
           c == e \o one
<1>7. one \in Seq(B) /\ Len(one) = 1 /\ one[1] = y /\ 1 \in 1..Len(one)
  <2> HIDE DEF B, y
  <2>1. QED
    BY <1>4
<1> HIDE DEF B, e, g, one, y
<1>8. /\ c \in Seq(B) /\ Len(c) = Len(t) - n
      /\ c[Len(s) - n + 1] = y
      /\ \A i \in 1..(Len(s) - n) : c[i] = e[i]
  <2>0. e \in Seq(B) /\ one \in Seq(B)
    BY <1>5, <1>7
  <2>1. /\ c \in Seq(B) /\ Len(c) = Len(e) + Len(one)
        /\ \A i \in 1..Len(e) : c[i] = e[i]
        /\ \A i \in 1..Len(one) : c[Len(e) + i] = one[i]
    BY <2>0, ConcatFacts
  <2> HIDE DEF c
  <2>2. QED
    BY <1>3, <1>5, <1>7, <2>1
<1> HIDE DEF c
<1>9. ASSUME NEW i \in 1..(Len(t) - n) PROVE g[i] = c[i]
  <2>1. CASE i = Len(s) - n + 1
    <3>1. n + i = Len(s) + 1
      BY <1>1, <2>1
    <3>2. g[i] = BytesOf(x)
      BY <1>2, <1>6, <3>1
    <3>3. QED
      BY <1>8, <2>1, <3>2 DEF y
  <2>2. CASE i # Len(s) - n + 1
    <3>1. i \in 1..(Len(s) - n) /\ n + i \in 1..Len(s)
      BY <1>1, <1>3, <2>2
    <3>2. g[i] = BytesOf(s[n + i])
      BY <1>2, <1>6, <3>1
    <3>3. QED
      BY <1>5, <1>8, <3>1, <3>2
  <2>3. QED
    BY <2>1, <2>2
<1>10. g = c
  BY <1>6, <1>8, <1>9, SeqEqual
<1>11. e \in Seq(Seq(Byte)) /\ one \in Seq(Seq(Byte)) /\ y \in Seq(Byte)
  BY <1>4, <1>5, <1>7 DEF B
<1>12. FlattenSeq(e \o one) = FlattenSeq(e) \o FlattenSeq(one)
  BY <1>11, FlattenConcat
<1>13. FlattenSeq(one) = y
  BY <1>11, FlattenOne DEF one
<1>14. FlattenSeq(e) \in Seq(Byte)
  BY <1>11, FlattenType
<1>15. FlattenSeq(g) = FlattenSeq(e) \o y
  BY <1>10, <1>12, <1>13 DEF c
<1>16. QED
  BY <1>14, <1>15 DEF e, g, t, y

-------------------------------------------------------------------------------
(* The invariant: besides the properties, what was last reported is true of *)
(* the bytes that are unread.                                               *)

Types ==
  /\ sent \in Seq(Sendable)
  /\ pipe \in Seq(Byte)
  /\ buf \in Seq(Byte)
  /\ readPos \in 0..Len(buf)
  /\ frames \in Seq(GoodFrames)
  /\ err \in {"Ok", "NeedMoreData"} \cup HardErrors

Reported == err # "Ok" => ErrorOf(Unread) = err

Inv == Types /\ FramesAreThoseSent /\ Reported /\ BufferBounded

LEMMA UnreadFacts ==
  ASSUME Types
  PROVE  Unread \in Seq(Byte) /\ Len(Unread) = Len(buf) - readPos
<1>1. buf \in Seq(Byte) /\ readPos \in 0..Len(buf)
  BY DEF Types
<1>2. QED
  BY <1>1, SplitAt DEF Unread

LEMMA AfterIsEncoded == \A n : BytesAfter(n) = FlattenSeq(Encoded(sent, n))
BY DEF BytesAfter, Encoded

LEMMA InvInit == Init => Inv
<1> SUFFICES ASSUME Init PROVE Inv
  OBVIOUS
<1>0. LenBytes \in Nat /\ MaxPayload \in Nat /\ Threshold \in Nat /\ MaxChunk \in Nat /\ LenBytes > 0
  BY ParserAssumption
<1>1. Types
  BY DEF Init, Types
<1>2. Unread = <<>>
  <2>1. Unread \in Seq(Byte) /\ Len(Unread) = 0
    BY <1>1, UnreadFacts DEF Init
  <2>2. QED
    BY <2>1, EmptySeq
<1>3. Reported
  <2>1. Len(Unread) < LenBytes
    BY <1>0, <1>2
  <2>2. QED
    BY <2>1 DEF Init, Reported, ErrorOf, Report
<1>4. FramesAreThoseSent
  <2>1. Encoded(sent, Len(frames)) = <<>>
    BY DEF Init, Encoded
  <2>2. BytesAfter(Len(frames)) = <<>>
    BY <2>1, AfterIsEncoded, FlattenNone
  <2>3. Unread \o pipe = <<>>
    BY <1>2 DEF Init
  <2>4. QED
    BY <2>2, <2>3 DEF Init, FramesAreThoseSent
<1>5. BufferBounded
  BY <1>0 DEF Init, BufferBounded
<1>6. QED
  BY <1>1, <1>3, <1>4, <1>5 DEF Inv

LEMMA InvSendFrame ==
  ASSUME Inv, SendFrame
  PROVE  Inv'
<1>1. PICK x \in Sendable : sent' = Append(sent, x) /\ pipe' = pipe \o BytesOf(x)
  BY DEF SendFrame
<1>2. UNCHANGED <<buf, readPos, frames, err>>
  BY DEF SendFrame
<1>3. BytesOf(x) \in Seq(Byte)
  BY BytesOfType
<1>4. Types'
  <2>1. pipe' \in Seq(Byte)
    BY <1>1, <1>3 DEF Inv, Types
  <2>2. sent' \in Seq(Sendable)
    BY <1>1 DEF Inv, Types
  <2>3. QED
    BY <1>2, <2>1, <2>2 DEF Inv, Types
<1>5. Unread' = Unread
  BY <1>2 DEF Unread
<1>6. Reported' /\ BufferBounded'
  BY <1>2, <1>5 DEF Inv, Reported, BufferBounded
<1>7. FramesAreThoseSent'
  <2> DEFINE n == Len(frames)
  <2>1. sent \in Seq(Sendable) /\ n \in 0..Len(sent) /\ Len(sent) \in Nat /\ n \in Nat
    BY DEF Inv, Types, FramesAreThoseSent
  <2>2. /\ Len(sent') = Len(sent) + 1
        /\ \A i \in 1..Len(sent) : sent'[i] = sent[i]
    BY <1>1, <2>1
  <2>3. n' = n /\ DOMAIN frames = 1..n /\ frames' = frames
    BY <1>2 DEF Inv, Types
  <2> HIDE DEF n
  <2>4. Len(frames') <= Len(sent')
    BY <2>1, <2>2, <2>3 DEF n
  <2>5. \A i \in DOMAIN frames' : sent'[i].good /\ frames'[i] = sent'[i].frame
    <3>1. \A i \in 1..n : sent'[i] = sent[i]
      BY <2>1, <2>2
    <3>2. \A i \in DOMAIN frames : sent[i].good /\ frames[i] = sent[i].frame
      BY DEF Inv, FramesAreThoseSent
    <3>3. QED
      BY <2>3, <3>1, <3>2
  <2>6. Unread' \o pipe' = BytesAfter(Len(frames))'
    <3> DEFINE a == FlattenSeq(Encoded(sent, n))
    <3>1. a \in Seq(Byte) /\ FlattenSeq(Encoded(sent', n)) = a \o BytesOf(x)
      BY <1>1, <2>1, EncodedLast
    <3>2. Unread \o pipe = a
      BY AfterIsEncoded DEF Inv, FramesAreThoseSent, n
    <3>3. BytesAfter(Len(frames))' = FlattenSeq(Encoded(sent', n))
      BY <2>3 DEF BytesAfter, Encoded, n
    <3> HIDE DEF a
    <3>4. Unread \in Seq(Byte) /\ pipe \in Seq(Byte)
      BY UnreadFacts DEF Inv, Types
    <3>5. Associate(Unread, pipe, BytesOf(x))
      BY <1>3, <3>4, ConcatAssociates, Zenon
    <3>6. Unread \o (pipe \o BytesOf(x)) = (Unread \o pipe) \o BytesOf(x)
      BY <3>5 DEF Associate
    <3>7. Unread' \o pipe' = Unread \o (pipe \o BytesOf(x))
      BY <1>1, <1>5
    <3>8. QED
      BY <3>1, <3>2, <3>3, <3>6, <3>7
  <2>7. QED
    BY <2>4, <2>5, <2>6 DEF FramesAreThoseSent
<1>8. QED
  BY <1>4, <1>6, <1>7 DEF Inv

\* Compaction keeps what is unread, and no more than the threshold besides.
LEMMA CompactFacts ==
  ASSUME Types
  PROVE  /\ Compact[1] \in Seq(Byte) /\ Compact[2] \in 0..Len(Compact[1])
         /\ SubSeq(Compact[1], Compact[2] + 1, Len(Compact[1])) = Unread
         /\ Len(Compact[1]) <= Threshold + Len(Unread)
<1>0. Threshold \in Nat /\ Len(buf) \in Nat /\ readPos \in Nat /\ buf \in Seq(Byte)
  BY ParserAssumption DEF Types
<1>1. Unread \in Seq(Byte) /\ Len(Unread) = Len(buf) - readPos
  BY UnreadFacts
<1>2. CASE readPos > 0 /\ readPos = Len(buf)
  <2>1. Compact[1] = <<>> /\ Compact[2] = 0
    BY <1>2 DEF Compact
  <2>2. Unread = <<>>
    BY <1>0, <1>1, <1>2, EmptySeq
  <2>3. SubSeq(<<>>, 0 + 1, Len(<<>>)) = <<>>
    OBVIOUS
  <2>4. <<>> \in Seq(Byte) /\ Len(<<>>) = 0
    OBVIOUS
  <2>5. QED
    BY <1>0, <2>1, <2>2, <2>3, <2>4
<1>3. CASE ~(readPos > 0 /\ readPos = Len(buf)) /\ readPos > Threshold
  <2>1. Compact[1] = Unread /\ Compact[2] = 0
    BY <1>3 DEF Compact
  <2> DEFINE u == Unread
  <2>2. u \in Seq(Byte) /\ Len(u) \in Nat
    BY <1>1
  <2> HIDE DEF u
  <2>3. SubSeq(u, 0 + 1, Len(u)) = u
    BY <2>2
  <2>4. QED
    BY <1>0, <2>1, <2>2, <2>3 DEF u
<1>4. CASE ~(readPos > 0 /\ readPos = Len(buf)) /\ ~(readPos > Threshold)
  <2>1. Compact[1] = buf /\ Compact[2] = readPos
    BY <1>4 DEF Compact
  <2>2. Len(buf) <= Threshold + Len(Unread)
    BY <1>0, <1>1, <1>4
  <2>3. QED
    BY <2>1, <2>2 DEF Types, Unread
<1>5. QED
  BY <1>2, <1>3, <1>4

LEMMA InvFeed ==
  ASSUME Inv, Feed
  PROVE  Inv'
<1>0. Threshold \in Nat /\ MaxChunk \in Nat /\ LenBytes \in Nat /\ MaxPayload \in Nat
  BY ParserAssumption
<1>1. PICK n \in 1..MaxChunk :
        /\ n <= Len(pipe)
        /\ buf' = Compact[1] \o SubSeq(pipe, 1, n)
        /\ pipe' = SubSeq(pipe, n + 1, Len(pipe))
  BY DEF Feed
<1>2. /\ err # "Ok" /\ readPos' = Compact[2]
      /\ err' = IF err = "NeedMoreData" THEN "Ok" ELSE err
      /\ UNCHANGED <<sent, frames>>
  BY DEF Feed
<1> DEFINE c == Compact[1]
           k == Compact[2]
           u == Unread
           chunk == SubSeq(pipe, 1, n)
<1>3. /\ c \in Seq(Byte) /\ k \in 0..Len(c) /\ SubSeq(c, k + 1, Len(c)) = u
      /\ Len(c) <= Threshold + Len(u)
  BY CompactFacts DEF Inv
<1>4. u \in Seq(Byte)
  BY UnreadFacts DEF Inv
<1>5. /\ pipe \in Seq(Byte) /\ chunk \in Seq(Byte) /\ Len(chunk) = n
      /\ pipe' \in Seq(Byte) /\ chunk \o pipe' = pipe
  <2>1. pipe \in Seq(Byte)
    BY DEF Inv, Types
  <2>2. n \in 0..Len(pipe)
    BY <1>0, <1>1, <2>1
  <2>3. QED
    BY <1>1, <2>1, <2>2, SplitAt
<1>6. buf' = c \o chunk /\ readPos' = k
  BY <1>1, <1>2
<1>7. Unread' = SubSeq(buf', readPos' + 1, Len(buf'))
  BY DEF Unread
<1>8. ErrorOf(u) = err
  BY <1>2 DEF Inv, Reported
<1>9. Unread \o pipe = BytesAfter(Len(frames))
  BY DEF Inv, FramesAreThoseSent
<1> HIDE DEF c, k, u, chunk
<1>10. /\ buf' \in Seq(Byte) /\ Len(buf') = Len(c) + n /\ readPos' \in 0..Len(buf')
       /\ Len(c) \in Nat /\ Len(u) \in Nat
  <2>1. c \o chunk \in Seq(Byte) /\ Len(c \o chunk) = Len(c) + Len(chunk)
    BY <1>3, <1>5, ConcatFacts
  <2>2. Len(c) \in Nat /\ Len(u) \in Nat /\ n \in Nat
    BY <1>0, <1>3, <1>4
  <2>3. QED
    BY <1>3, <1>5, <1>6, <2>1, <2>2
<1>11. Unread' = u \o chunk
  <2>1. SubSeq(c \o chunk, k + 1, Len(c \o chunk)) = SubSeq(c, k + 1, Len(c)) \o chunk
    BY <1>3, <1>5, SuffixOfConcat
  <2>2. QED
    BY <1>3, <1>6, <1>7, <2>1
<1>12. Types'
  <2>1. err' \in {"Ok", "NeedMoreData"} \cup HardErrors
    BY <1>2 DEF Inv, Types
  <2>2. sent' \in Seq(Sendable) /\ frames' \in Seq(GoodFrames)
    BY <1>2 DEF Inv, Types
  <2>3. QED
    BY <1>5, <1>10, <2>1, <2>2 DEF Types
<1>13. FramesAreThoseSent'
  <2>1. Unread' \o pipe' = u \o pipe
    <3>1. Associate(u, chunk, pipe')
      BY <1>4, <1>5, ConcatAssociates, Zenon
    <3>2. (u \o chunk) \o pipe' = u \o (chunk \o pipe')
      BY <3>1 DEF Associate
    <3>3. QED
      BY <1>5, <1>11, <3>2
  <2>2. BytesAfter(Len(frames))' = BytesAfter(Len(frames))
    BY <1>2 DEF BytesAfter
  <2>3. Unread' \o pipe' = BytesAfter(Len(frames))'
    BY <1>9, <2>1, <2>2 DEF u
  <2>4. QED
    BY <1>2, <2>3 DEF Inv, FramesAreThoseSent
<1>14. Reported'
  <2> SUFFICES ASSUME err' # "Ok" PROVE ErrorOf(Unread') = err'
    BY DEF Reported
  <2>1. err # "NeedMoreData" /\ err' = err
    BY <1>2
  <2>2. ErrorOf(u \o chunk) = ErrorOf(u)
    BY <1>4, <1>5, <1>8, <2>1, ReportIsFinal
  <2>3. QED
    BY <1>8, <1>11, <2>1, <2>2
<1>15. BufferBounded'
  <2> SUFFICES ASSUME err' \notin HardErrors
               PROVE  Len(buf') <= Threshold + LenBytes + 3 + MaxPayload + MaxChunk
    BY DEF BufferBounded
  <2>1. err = "NeedMoreData"
    BY <1>2 DEF Inv, Types
  <2>2. Len(u) < LenBytes + 3 + MaxPayload
    BY <1>4, <1>8, <2>1, NeedMoreIsShort
  <2>3. QED
    BY <1>0, <1>3, <1>10, <2>2
<1>16. QED
  BY <1>12, <1>13, <1>14, <1>15 DEF Inv

\* A frame that is reported is the next one sent, and its bytes are the first
\* of what remains.
LEMMA NextIsSent ==
  ASSUME Types, FramesAreThoseSent, ErrorOf(Unread) = "Ok"
  PROVE  LET n == Len(frames)
             k == LenBytes + Length(Unread)
         IN  /\ n + 1 \in 1..Len(sent) /\ sent[n + 1].good
             /\ FrameOf(Unread) = sent[n + 1].frame /\ sent[n + 1].frame \in GoodFrames
             /\ k \in 0..Len(Unread)
             /\ SubSeq(Unread, k + 1, Len(Unread)) \o pipe = BytesAfter(n + 1)
<1> DEFINE n == Len(frames)
           u == Unread
           k == LenBytes + Length(u)
           x == sent[n + 1]
           b == BytesOf(x)
           rest == FlattenSeq(Encoded(sent, n + 1))
<1>0. LenBytes \in Nat /\ LenBytes > 0
  BY ParserAssumption
<1>1. u \in Seq(Byte) /\ pipe \in Seq(Byte) /\ sent \in Seq(Sendable) /\ n \in 0..Len(sent) /\ n \in Nat
  BY UnreadFacts DEF Types, FramesAreThoseSent
<1>2. u \o pipe = FlattenSeq(Encoded(sent, n))
  BY AfterIsEncoded DEF FramesAreThoseSent
<1>3. ErrorOf(u) = "Ok"
  OBVIOUS
<1> HIDE DEF n, u
<1>4. /\ ErrorOf(u \o pipe) = "Ok" /\ FrameOf(u \o pipe) = FrameOf(u)
      /\ Length(u \o pipe) = Length(u)
      /\ Length(u) \in Nat /\ k <= Len(u)
  BY <1>1, <1>3, ReportIsFinal
<1>5. n # Len(sent)
  <2> SUFFICES ASSUME n = Len(sent) PROVE FALSE
    OBVIOUS
  <2>1. Len(Encoded(sent, n)) = 0 /\ Encoded(sent, n) \in Seq(Seq(Byte))
    <3>1. Len(sent) - n = 0
      BY <1>1
    <3>2. QED
      BY <1>1, <3>1, EncodedType
  <2>2. Encoded(sent, n) = <<>>
    BY <2>1, EmptySeq
  <2>3. Len(u \o pipe) < LenBytes
    BY <1>0, <1>2, <2>2, FlattenNone
  <2>4. ErrorOf(u \o pipe) = "NeedMoreData"
    BY <2>3 DEF ErrorOf, Report
  <2>5. QED
    BY <1>4, <2>4
<1>6. /\ n + 1 \in 1..Len(sent)
      /\ b \in Seq(Byte) /\ rest \in Seq(Byte)
      /\ u \o pipe = b \o rest
  BY <1>1, <1>2, <1>5, EncodedFirst
<1>7. \/ x.good /\ x.frame \in GoodFrames /\ b = Encode(x.frame)
      \/ ~x.good /\ b \in BadFrames
  <2>1. x \in Sendable
    BY <1>1, <1>6
  <2>2. QED
    BY <2>1, BytesOfType
<1> DEFINE f == x.frame
<1> HIDE DEF rest, b
<1>8. x.good /\ f \in GoodFrames /\ b = Encode(f)
  <2>1. b \notin BadFrames
    <3> SUFFICES ASSUME b \in BadFrames PROVE FALSE
      OBVIOUS
    <3>1. ErrorOf(b \o rest) \in HardErrors
      BY <1>6, BadReport
    <3>2. QED
      BY <1>4, <1>6, <3>1 DEF HardErrors
  <2>2. QED
    BY <1>7, <2>1
<1> HIDE DEF f, x
<1>9. FrameOf(b \o rest) = f /\ LenBytes + Length(b \o rest) = Len(b)
  BY <1>6, <1>8, EncodedReport
<1>10. FrameOf(u) = f /\ k = Len(b)
  BY <1>4, <1>6, <1>9
<1>11. k \in 0..Len(u) /\ k \in 0..Len(b) /\ Len(u) \in Nat
  <2>1. k \in Nat /\ k <= Len(u) /\ Len(u) \in Nat
    BY <1>0, <1>1, <1>4
  <2>2. QED
    BY <1>10, <2>1
<1> HIDE DEF k
<1>12. SubSeq(u, k + 1, Len(u)) \o pipe = rest
  <2>1. SubSeq(u \o pipe, k + 1, Len(u \o pipe)) = SubSeq(u, k + 1, Len(u)) \o pipe
    BY <1>1, <1>11, SuffixOfConcat
  <2>2. SubSeq(b \o rest, k + 1, Len(b \o rest)) = SubSeq(b, k + 1, Len(b)) \o rest
    BY <1>6, <1>11, SuffixOfConcat
  <2>3. SubSeq(b, k + 1, Len(b)) = <<>>
    <3>1. SubSeq(b, k + 1, Len(b)) \in Seq(Byte) /\ Len(SubSeq(b, k + 1, Len(b))) = Len(b) - k
      BY <1>6, <1>11, SplitAt
    <3>2. Len(b) - k = 0
      BY <1>10, <1>11
    <3>3. QED
      BY <3>1, <3>2, EmptySeq
  <2>4. <<>> \o rest = rest
    BY <1>6
  <2>5. QED
    BY <1>6, <2>1, <2>2, <2>3, <2>4
<1>13. rest = BytesAfter(n + 1)
  BY AfterIsEncoded DEF rest
<1>14. QED
  BY <1>6, <1>8, <1>10, <1>11, <1>12, <1>13 DEF n, u, k, x, f

LEMMA InvNextFrame ==
  ASSUME Inv, NextFrame
  PROVE  Inv'
<1> DEFINE e == ErrorOf(Unread)
           k == LenBytes + Length(Unread)
           n == Len(frames)
<1>0. LenBytes \in Nat /\ LenBytes > 0
  BY ParserAssumption
<1>1. /\ err \in {"Ok"} \cup HardErrors
      /\ err' = e
      /\ frames' = IF e = "Ok" THEN Append(frames, FrameOf(Unread)) ELSE frames
      /\ readPos' = IF e \in {"Ok"} \cup {} THEN readPos + LenBytes + Length(Unread) ELSE readPos
      /\ UNCHANGED <<sent, pipe, buf>>
  BY DEF NextFrame, Take
<1>2. e \in {"Ok", "NeedMoreData"} \cup HardErrors
  BY ReportValues
<1>3. /\ buf \in Seq(Byte) /\ Len(buf) \in Nat /\ readPos \in 0..Len(buf) /\ frames \in Seq(GoodFrames)
      /\ sent \in Seq(Sendable) /\ n \in Nat /\ Len(sent) \in Nat
  BY DEF Inv, Types
<1>4. CASE e = "Ok"
  <2>1. /\ n + 1 \in 1..Len(sent) /\ sent[n + 1].good
        /\ FrameOf(Unread) = sent[n + 1].frame /\ sent[n + 1].frame \in GoodFrames
        /\ k \in 0..Len(Unread)
        /\ SubSeq(Unread, k + 1, Len(Unread)) \o pipe = BytesAfter(n + 1)
    BY <1>4, NextIsSent DEF Inv
  <2> DEFINE f == FrameOf(Unread)
  <2>2. Len(Unread) = Len(buf) - readPos /\ Length(Unread) \in Int
    <3>1. Unread \in Seq(Byte) /\ <<>> \in Seq(Byte)
      BY UnreadFacts DEF Inv
    <3>2. Length(Unread) \in Nat
      BY <1>4, <3>1, ReportIsFinal
    <3>3. QED
      BY <3>2, UnreadFacts DEF Inv
  <2>3. readPos' = readPos + k
    BY <1>0, <1>1, <1>3, <1>4, <2>2
  <2>4. frames' = Append(frames, f) /\ f \in GoodFrames
    BY <1>1, <1>4, <2>1
  <2> HIDE DEF k
  <2>5. readPos' \in 0..Len(buf)
    BY <1>3, <2>1, <2>2, <2>3
  <2> HIDE DEF f, n
  <2>6. /\ frames' \in Seq(GoodFrames) /\ Len(frames') = n + 1
        /\ frames'[n + 1] = f /\ DOMAIN frames' = 1..n+1 /\ DOMAIN frames = 1..n
        /\ \A i \in 1..n : frames'[i] = frames[i]
    BY <1>3, <2>4 DEF n
  <2>7. Types'
    BY <1>1, <1>2, <1>3, <2>5, <2>6 DEF Inv, Types
  <2>8. Unread' = SubSeq(Unread, k + 1, Len(Unread))
    <3>1. k \in 0..Len(buf) - readPos /\ (readPos + k) + 1 = readPos' + 1
      BY <1>3, <2>1, <2>2, <2>3, <2>5
    <3>2. SubSeq(Unread, k + 1, Len(Unread)) = SubSeq(buf, (readPos + k) + 1, Len(buf))
      BY <1>3, <3>1, SuffixOfSuffix DEF Unread
    <3>3. Unread' = SubSeq(buf, readPos' + 1, Len(buf))
      BY <1>1 DEF Unread
    <3>4. QED
      BY <3>1, <3>2, <3>3
  <2>9. FramesAreThoseSent'
    <3>1. Len(frames') <= Len(sent')
      BY <1>1, <1>3, <2>1, <2>6
    <3>2. \A i \in DOMAIN frames' : sent'[i].good /\ frames'[i] = sent'[i].frame
      <4>1. \A i \in 1..n : sent[i].good /\ frames[i] = sent[i].frame
        BY <2>6 DEF Inv, FramesAreThoseSent
      <4>2. \A i \in 1..n+1 : i \in 1..n \/ i = n + 1
        BY <1>3 DEF n
      <4>3. sent' = sent
        BY <1>1
      <4>4. QED
        BY <2>1, <2>6, <4>1, <4>2, <4>3 DEF f
    <3>3. Unread' \o pipe' = BytesAfter(Len(frames))'
      <4>1. BytesAfter(Len(frames))' = BytesAfter(n + 1)
        BY <1>1, <2>6 DEF BytesAfter
      <4>2. QED
        BY <1>1, <2>1, <2>8, <4>1
    <3>4. QED
      BY <3>1, <3>2, <3>3 DEF FramesAreThoseSent
  <2>10. Reported' /\ BufferBounded'
    <3>1. err' = "Ok" /\ err \notin HardErrors
      BY <1>1, <1>4 DEF Inv, Reported, HardErrors
    <3>2. QED
      BY <1>1, <3>1 DEF Inv, Reported, BufferBounded
  <2>11. QED
    BY <2>7, <2>9, <2>10 DEF Inv
<1>5. CASE e # "Ok"
  <2>1. UNCHANGED <<sent, pipe, buf, readPos, frames>>
    BY <1>1, <1>5
  <2>2. Unread' = Unread
    BY <2>1 DEF Unread
  <2>3. Types' /\ FramesAreThoseSent'
    BY <1>1, <1>2, <2>1, <2>2 DEF Inv, Types, FramesAreThoseSent, BytesAfter
  <2>4. Reported'
    BY <1>1, <2>2 DEF Reported
  <2>5. BufferBounded'
    <3>1. err \in HardErrors => err' = err
      BY <1>1 DEF Inv, Reported, HardErrors
    <3>2. QED
      BY <2>1, <3>1 DEF Inv, BufferBounded
  <2>6. QED
    BY <2>3, <2>4, <2>5 DEF Inv
<1>6. QED
  BY <1>4, <1>5

LEMMA InvNext == Inv /\ [Next]_vars => Inv'
<1> SUFFICES ASSUME Inv, [Next]_vars PROVE Inv'
  OBVIOUS
<1>1. CASE UNCHANGED vars
  BY <1>1 DEF vars, Inv, Types, FramesAreThoseSent, Reported, BufferBounded, Unread, BytesAfter
<1>2. QED
  BY <1>1, InvSendFrame, InvFeed, InvNextFrame DEF Next

THEOREM Invariance == Spec => []Inv
BY InvInit, InvNext, PTL DEF Spec

-------------------------------------------------------------------------------

\* read_pos_ stays inside the buffer, and what next() returns are frames.
THEOREM TypesAreRight == Spec => []TypeOK
<1>1. Inv => TypeOK
  BY DEF Inv, Types, TypeOK, Byte
<1>2. QED
  BY <1>1, Invariance, PTL

\* Whatever the chunks and wherever feed compacts, the frames returned are the
\* ones sent, in order and each once, and no byte of the others is lost.
THEOREM FramesAreSent == Spec => []FramesAreThoseSent
<1>1. Inv => FramesAreThoseSent
  BY DEF Inv
<1>2. QED
  BY <1>1, Invariance, PTL

\* next() asks for more data only when it needs it.
THEOREM NoFrameIsWithheld == Spec => []NothingWithheld
<1>1. Inv => NothingWithheld
  <2> SUFFICES ASSUME Inv, err = "NeedMoreData", pipe = <<>>, Len(frames) # Len(sent)
               PROVE  FALSE
    BY DEF NothingWithheld
  <2> DEFINE n == Len(frames)
             b == BytesOf(sent[n + 1])
             rest == FlattenSeq(Encoded(sent, n + 1))
  <2>1. sent \in Seq(Sendable) /\ n \in 0..Len(sent) /\ n # Len(sent)
    BY DEF Inv, Types, FramesAreThoseSent
  <2>2. Unread \in Seq(Byte)
    BY UnreadFacts DEF Inv
  <2>3. Unread = FlattenSeq(Encoded(sent, n))
    <3>1. Unread \o <<>> = Unread
      BY <2>2, ConcatEmptySeq
    <3>2. Unread \o pipe = BytesAfter(n)
      BY DEF Inv, FramesAreThoseSent
    <3>3. QED
      BY <3>1, <3>2, AfterIsEncoded
  <2> HIDE DEF n
  <2>4. n + 1 \in 1..Len(sent) /\ rest \in Seq(Byte) /\ Unread = b \o rest
    BY <2>1, <2>3, EncodedFirst
  <2>5. ErrorOf(Unread) = "NeedMoreData"
    BY DEF Inv, Reported
  <2>6. \/ sent[n + 1].frame \in GoodFrames /\ b = Encode(sent[n + 1].frame)
        \/ b \in BadFrames
    <3>1. sent[n + 1] \in Sendable
      BY <2>1, <2>4
    <3>2. QED
      BY <3>1, BytesOfType
  <2> HIDE DEF rest, b
  <2>7. ErrorOf(b \o rest) = "Ok" \/ ErrorOf(b \o rest) \in HardErrors
    BY <2>4, <2>6, BadReport, EncodedReport
  <2>8. QED
    BY <2>4, <2>5, <2>7 DEF HardErrors
<1>2. QED
  BY <1>1, Invariance, PTL

\* A caller that drains keeps the buffer to a frame, a chunk and the threshold.
THEOREM BufferIsBounded == Spec => []BufferBounded
<1>1. Inv => BufferBounded
  BY DEF Inv
<1>2. QED
  BY <1>1, Invariance, PTL

\* Once next() has reported a hard error it reports nothing else.
THEOREM HardErrorsAreTerminal == Spec => HardErrorIsTerminal
<1>1. Inv /\ [Next]_vars => [(err \in HardErrors) => (err' = err /\ frames' = frames)]_vars
  <2> SUFFICES ASSUME Inv, Next, err \in HardErrors PROVE err' = err /\ frames' = frames
    OBVIOUS
  <2>1. err # "Ok" /\ err # "NeedMoreData" /\ ErrorOf(Unread) = err
    BY DEF Inv, Reported, HardErrors
  <2>2. QED
    BY <2>1 DEF Next, SendFrame, Feed, NextFrame, Take
<1>2. QED
  BY <1>1, Invariance, PTL DEF Spec, HardErrorIsTerminal
====
