---------------------------- MODULE LibraryFacts ----------------------------
(***************************************************************************)
(* What Min and Max of FiniteSetsExt and quotients return, and what the    *)
(* operations on a sequence that stand for those on a TAILQ leave in it:   *)
(* for every set, number and sequence.                                     *)
(***************************************************************************)
EXTENDS Integers, FiniteSetsExt, SequencesExt, SequenceTheorems, WellFoundedInduction, TLAPS

-----------------------------------------------------------------------------
(* Extrema *)

LEMMA MinIsLeast ==
    ASSUME NEW S \in SUBSET Nat, S # {}
    PROVE  Min(S) \in S /\ \A x \in S : Min(S) <= x
<1> DEFINE R == {p \in Nat \X Nat : p[1] < p[2]}
<1>1. OpToRel(<, Nat) = R
      BY Zenon DEF OpToRel
<1>2. PICK m \in S : \A y \in S : ~(<<y, m>> \in R)
      BY <1>1, NatLessThanWellFounded, WFMin
<1>3. \A y \in S : m <= y
  <2>1. SUFFICES ASSUME NEW y \in S, y < m PROVE FALSE
        OBVIOUS
  <2>2. <<y, m>> \in R
        BY <2>1
  <2>. QED  BY <1>2, <2>2
<1>. QED  BY <1>3 DEF Min

LEMMA MinOfTwo ==
    ASSUME NEW a \in Int, NEW b \in Int
    PROVE  Min({a, b}) = IF a <= b THEN a ELSE b
<1> DEFINE m == IF a <= b THEN a ELSE b
<1>1. m \in {a, b} /\ \A y \in {a, b} : m <= y
      OBVIOUS
<1>2. Min({a, b}) \in {a, b} /\ \A y \in {a, b} : Min({a, b}) <= y
      BY <1>1 DEF Min
<1>. QED  BY <1>1, <1>2

LEMMA MaxOfTwo ==
    ASSUME NEW a \in Int, NEW b \in Int
    PROVE  Max({a, b}) = IF a >= b THEN a ELSE b
<1> DEFINE m == IF a >= b THEN a ELSE b
<1>1. m \in {a, b} /\ \A y \in {a, b} : m >= y
      OBVIOUS
<1>2. Max({a, b}) \in {a, b} /\ \A y \in {a, b} : Max({a, b}) >= y
      BY <1>1 DEF Max
<1>. QED  BY <1>1, <1>2

-----------------------------------------------------------------------------
(* Products, quotients and remainders *)

LEMMA TimesGrows ==
    ASSUME NEW a \in Int, NEW b \in Int, a <= b, NEW c \in Nat
    PROVE  a * c <= b * c /\ c * a <= c * b
<1>1. (b - a) * c >= 0
      OBVIOUS
<1>. QED  BY <1>1

LEMMA Quotient ==
    ASSUME NEW a \in Nat, NEW d \in Nat \ {0}
    PROVE  /\ a \div d \in Nat /\ a \div d <= a
           /\ (a \div d) * d <= a /\ a < (a \div d) * d + d
<1> DEFINE n == a \div d
<1>1. n \in Int /\ n * d <= a /\ a < n * d + d
      BY Z3
<1> HIDE DEF n
<1>2. n >= 0
  <2>1. SUFFICES ASSUME n <= -1 PROVE FALSE
        BY <1>1
  <2>2. n * d <= (-1) * d
        BY <1>1, <2>1, TimesGrows
  <2>. QED  BY <1>1, <2>2
<1>3. n * 1 <= n * d
      BY <1>1, <1>2, TimesGrows
<1>. QED  BY <1>1, <1>2, <1>3 DEF n

LEMMA Remainder ==
    ASSUME NEW a \in Int, NEW m \in Nat \ {0}
    PROVE  a % m \in 0 .. m - 1 /\ a \div m \in Int /\ a = (a \div m) * m + (a % m)
BY Z3

LEMMA RemainderIs ==
    ASSUME NEW m \in Nat \ {0}, NEW k \in Int, NEW r \in 0 .. m - 1
    PROVE  (k * m + r) % m = r
<1> DEFINE a == k * m + r
<1>1. a \in Int /\ a = k * m + r
      OBVIOUS
<1> HIDE DEF a
<1> DEFINE j == a \div m
<1>2. j \in Int /\ a = j * m + (a % m)
      BY <1>1, Remainder
<1> HIDE DEF j
<1>3. a % m \in 0 .. m - 1
      BY <1>1, Remainder
<1> DEFINE e == j - k
<1>4. e \in Int /\ e * m = r - (a % m)
      BY <1>1, <1>2, <1>3
<1>5. e = 0 => j = k
      BY <1>2
<1> HIDE DEF e
<1>6. CASE e >= 1
  <2>1. 1 * m <= e * m
        BY <1>4, <1>6, TimesGrows
  <2>. QED  BY <1>3, <1>4, <2>1
<1>7. CASE e <= -1
  <2>1. e * m <= (-1) * m
        BY <1>4, <1>7, TimesGrows
  <2>. QED  BY <1>3, <1>4, <2>1
<1>8. CASE e = 0
      BY <1>3, <1>4, <1>8
<1>. QED  BY <1>4, <1>6, <1>7, <1>8 DEF a

LEMMA SmallRemainder == ASSUME NEW m \in Nat \ {0}, NEW n \in 0 .. m - 1 PROVE n % m = n
<1>1. 0 * m + n = n
      OBVIOUS
<1>. QED  BY <1>1, RemainderIs

-----------------------------------------------------------------------------
(* Sequences over a set *)

LEMMA RemoveAtType ==
    ASSUME NEW S, NEW seq \in Seq(S), NEW k \in 1 .. Len(seq)
    PROVE  RemoveAt(seq, k) \in Seq(S)
<1>1. Len(seq) \in Nat /\ \A i \in 1 .. Len(seq) : seq[i] \in S
      BY LenProperties, ElementOfSeq
<1>2. SubSeq(seq, 1, k - 1) \in Seq(S)
  <2>1. 1 \in Int /\ k - 1 \in Int /\ \A i \in 1 .. k - 1 : seq[i] \in S
        BY <1>1
  <2>. QED  BY <2>1, SubSeqProperties
<1>3. SubSeq(seq, k + 1, Len(seq)) \in Seq(S)
  <2>1. k + 1 \in Int /\ Len(seq) \in Int /\ \A i \in k + 1 .. Len(seq) : seq[i] \in S
        BY <1>1
  <2>. QED  BY <2>1, SubSeqProperties
<1>. QED  BY <1>2, <1>3, ConcatProperties DEF RemoveAt

\* TAILQ_REMOVE leaves a queue of the same elements.
LEMMA RemoveFirstType ==
    ASSUME NEW S, NEW seq \in Seq(S), NEW e
    PROVE  RemoveFirst(seq, e) \in Seq(S)
<1> DEFINE I == {i \in 1 .. Len(seq) : seq[i] = e}
<1>1. CASE I = {}
      BY <1>1 DEF RemoveFirst
<1>2. CASE I # {}
  <2>1. I \in SUBSET Nat
        OBVIOUS
  <2>2. Min(I) \in 1 .. Len(seq)
        BY <1>2, <2>1, MinIsLeast
  <2>3. RemoveFirst(seq, e) = RemoveAt(seq, Min(I))
        BY <1>2 DEF RemoveFirst, SelectInSeq
  <2>. QED  BY <2>2, <2>3, RemoveAtType
<1>. QED  BY <1>1, <1>2

-----------------------------------------------------------------------------
(* Queues without repetition *)

\* TAILQ_INSERT_TAIL and TAILQ_INSERT_HEAD.
LEMMA InsertContents ==
    ASSUME NEW S, NEW seq \in Seq(S), NEW e \in S
    PROVE  /\ Range(Append(seq, e)) = Range(seq) \cup {e}
           /\ Range(<<e>> \o seq) = Range(seq) \cup {e}
           /\ IsInjective(seq) /\ e \notin Range(seq)
                => IsInjective(Append(seq, e)) /\ IsInjective(<<e>> \o seq)
<1> DEFINE a == Append(seq, e)
           h == <<e>> \o seq
<1>1. /\ Len(seq) \in Nat /\ DOMAIN seq = 1 .. Len(seq)
      /\ a \in Seq(S) /\ Len(a) = Len(seq) + 1
      /\ \A i \in 1 .. Len(seq) : a[i] = seq[i]
      /\ a[Len(seq) + 1] = e
      BY LenProperties, AppendProperties
<1>2. <<e>> \in Seq(S) /\ Len(<<e>>) = 1 /\ <<e>>[1] = e
      OBVIOUS
<1>3. /\ h \in Seq(S) /\ Len(h) = Len(seq) + 1
      /\ h[1] = e
      /\ \A i \in 1 .. Len(seq) : h[i + 1] = seq[i]
  <2>1. /\ h \in Seq(S) /\ Len(h) = 1 + Len(seq)
        /\ \A i \in 1 .. 1 + Len(seq) : h[i] = IF i <= 1 THEN <<e>>[i] ELSE seq[i - 1]
        BY <1>2, ConcatProperties
  <2> HIDE DEF h
  <2>. QED  BY <1>1, <1>2, <2>1
<1>4. DOMAIN a = 1 .. Len(seq) + 1 /\ DOMAIN h = 1 .. Len(seq) + 1
      BY <1>1, <1>3, LenProperties
<1> HIDE DEF a, h
<1>5. Range(a) = Range(seq) \cup {e}
      BY <1>1, <1>4 DEF Range
<1>6. Range(h) = Range(seq) \cup {e}
  <2>1. ASSUME NEW x \in Range(h) PROVE x \in Range(seq) \cup {e}
    <3>1. PICK i \in 1 .. Len(seq) + 1 : x = h[i]
          BY <1>4 DEF Range
    <3>2. CASE i = 1
          BY <1>3, <3>1, <3>2
    <3>3. CASE i # 1
      <4>1. i - 1 \in 1 .. Len(seq) /\ (i - 1) + 1 = i
            BY <1>1, <3>3
      <4>2. x = seq[i - 1]
            BY <1>3, <3>1, <4>1
      <4>. QED  BY <1>1, <4>1, <4>2 DEF Range
    <3>. QED  BY <3>2, <3>3
  <2>2. ASSUME NEW x \in Range(seq) PROVE x \in Range(h)
    <3>1. PICK i \in 1 .. Len(seq) : x = seq[i]
          BY <1>1 DEF Range
    <3>2. i + 1 \in 1 .. Len(seq) + 1 /\ x = h[i + 1]
          BY <1>1, <1>3, <3>1
    <3>. QED  BY <1>4, <3>2 DEF Range
  <2>3. e \in Range(h)
    <3>1. 1 \in 1 .. Len(seq) + 1
          BY <1>1
    <3>. QED  BY <1>3, <1>4, <3>1 DEF Range
  <2>. QED  BY <2>1, <2>2, <2>3
<1>7. ASSUME IsInjective(seq), e \notin Range(seq) PROVE IsInjective(a)
  <2>1. SUFFICES ASSUME NEW i \in 1 .. Len(seq) + 1, NEW j \in 1 .. Len(seq) + 1, a[i] = a[j], i < j
                 PROVE  FALSE
        BY <1>1, <1>4 DEF IsInjective
  <2>2. i \in 1 .. Len(seq) /\ a[i] = seq[i]
        BY <1>1, <2>1
  <2>3. CASE j = Len(seq) + 1
        BY <1>1, <1>7, <2>1, <2>2, <2>3 DEF Range
  <2>4. CASE j # Len(seq) + 1
    <3>1. j \in 1 .. Len(seq)
          BY <1>1, <2>4
    <3>2. a[j] = seq[j]
          BY <1>1, <3>1
    <3>3. i \in DOMAIN seq /\ j \in DOMAIN seq /\ seq[i] = seq[j]
          BY <1>1, <2>1, <2>2, <3>1, <3>2
    <3>4. i = j
          BY <1>7, <3>3, Zenon DEF IsInjective
    <3>. QED  BY <2>1, <3>4
  <2>. QED  BY <2>3, <2>4
<1>8. ASSUME IsInjective(seq), e \notin Range(seq) PROVE IsInjective(h)
  <2>1. SUFFICES ASSUME NEW i \in 1 .. Len(seq) + 1, NEW j \in 1 .. Len(seq) + 1, h[i] = h[j], i < j
                 PROVE  FALSE
        BY <1>1, <1>4 DEF IsInjective
  <2>2. j - 1 \in 1 .. Len(seq) /\ (j - 1) + 1 = j
        BY <1>1, <2>1
  <2>3. h[j] = seq[j - 1]
        BY <1>3, <2>2
  <2>4. CASE i = 1
        BY <1>1, <1>3, <1>8, <2>1, <2>2, <2>3, <2>4 DEF Range
  <2>5. CASE i # 1
    <3>1. i - 1 \in 1 .. Len(seq) /\ (i - 1) + 1 = i
          BY <1>1, <2>1, <2>5
    <3>2. h[i] = seq[i - 1]
          BY <1>3, <3>1
    <3>3. i - 1 = j - 1
          BY <1>1, <1>8, <2>1, <2>2, <2>3, <3>1, <3>2 DEF IsInjective
    <3>. QED  BY <2>1, <3>3
  <2>. QED  BY <2>4, <2>5
<1>. QED  BY <1>5, <1>6, <1>7, <1>8 DEF a, h

\* TAILQ_REMOVE: the thread is gone, the others are still there, once.
LEMMA RemoveContents ==
    ASSUME NEW S, NEW seq \in Seq(S), NEW e
    PROVE  /\ RemoveFirst(seq, e) = seq \/ Len(RemoveFirst(seq, e)) = Len(seq) - 1
           /\ IsInjective(seq) => /\ IsInjective(RemoveFirst(seq, e))
                                  /\ Range(RemoveFirst(seq, e)) = Range(seq) \ {e}
<1>1. Len(seq) \in Nat /\ DOMAIN seq = 1 .. Len(seq) /\ \A i \in 1 .. Len(seq) : seq[i] \in S
      BY LenProperties, ElementOfSeq
<1> DEFINE I == {i \in 1 .. Len(seq) : seq[i] = e}
<1>2. CASE I = {}
  <2>1. RemoveFirst(seq, e) = seq
        BY <1>2 DEF RemoveFirst
  <2>2. e \notin Range(seq)
        BY <1>1, <1>2 DEF Range
  <2>. QED  BY <2>1, <2>2
<1>3. CASE I # {}
  <2> DEFINE k    == Min(I)
             rest == RemoveFirst(seq, e)
             head == SubSeq(seq, 1, k - 1)
             tail == SubSeq(seq, k + 1, Len(seq))
  <2>1. k \in 1 .. Len(seq) /\ seq[k] = e
    <3>1. I \in SUBSET Nat
          OBVIOUS
    <3>2. Min(I) \in I
          BY <1>3, <3>1, MinIsLeast
    <3>. QED  BY <3>2
  <2>2. rest = head \o tail
        BY <1>3 DEF RemoveFirst, SelectInSeq, RemoveAt
  <2> HIDE DEF k
  <2>3. /\ head \in Seq(S) /\ Len(head) = k - 1
        /\ \A i \in 1 .. k - 1 : head[i] = seq[i]
    <3>1. 1 \in Int /\ k - 1 \in Int /\ \A i \in 1 .. k - 1 : seq[i] \in S
          BY <1>1, <2>1
    <3>2. /\ head \in Seq(S) /\ Len(head) = IF 1 <= k - 1 THEN (k - 1) - 1 + 1 ELSE 0
          /\ \A i \in 1 .. (k - 1) - 1 + 1 : head[i] = seq[1 + i - 1]
          BY <3>1, SubSeqProperties
    <3> HIDE DEF head
    <3>. QED  BY <2>1, <3>2
  <2>4. /\ tail \in Seq(S) /\ Len(tail) = Len(seq) - k
        /\ \A i \in 1 .. Len(seq) - k : tail[i] = seq[k + i]
    <3>1. k + 1 \in Int /\ Len(seq) \in Int /\ \A i \in k + 1 .. Len(seq) : seq[i] \in S
          BY <1>1, <2>1
    <3>2. /\ tail \in Seq(S) /\ Len(tail) = IF k + 1 <= Len(seq) THEN Len(seq) - (k + 1) + 1 ELSE 0
          /\ \A i \in 1 .. Len(seq) - (k + 1) + 1 : tail[i] = seq[(k + 1) + i - 1]
          BY <3>1, SubSeqProperties
    <3> HIDE DEF tail
    <3>3. Len(tail) = Len(seq) - k
          BY <1>1, <2>1, <3>2
    <3>4. ASSUME NEW i \in 1 .. Len(seq) - k PROVE tail[i] = seq[k + i]
      <4>1. i \in 1 .. Len(seq) - (k + 1) + 1 /\ (k + 1) + i - 1 = k + i
            BY <1>1, <2>1
      <4>. QED  BY <3>2, <4>1
    <3>. QED  BY <3>2, <3>3, <3>4
  <2> HIDE DEF head, tail, rest
  <2>5. /\ rest \in Seq(S) /\ Len(rest) = Len(seq) - 1
        /\ \A i \in 1 .. Len(seq) - 1 : rest[i] = IF i < k THEN seq[i] ELSE seq[i + 1]
    <3>1. /\ rest \in Seq(S) /\ Len(rest) = Len(head) + Len(tail)
          /\ \A i \in 1 .. Len(head) + Len(tail) :
                rest[i] = IF i <= Len(head) THEN head[i] ELSE tail[i - Len(head)]
          BY <2>2, <2>3, <2>4, ConcatProperties
    <3>2. ASSUME NEW i \in 1 .. Len(seq) - 1
          PROVE  rest[i] = IF i < k THEN seq[i] ELSE seq[i + 1]
      <4>1. CASE i < k
        <5>1. i \in 1 .. k - 1 /\ i \in 1 .. Len(head) + Len(tail) /\ i <= Len(head)
              BY <1>1, <2>1, <2>3, <2>4, <4>1
        <5>2. rest[i] = head[i]
              BY <3>1, <5>1
        <5>. QED  BY <2>3, <4>1, <5>1, <5>2
      <4>2. CASE ~(i < k)
        <5>1. i - (k - 1) \in 1 .. Len(seq) - k /\ i \in 1 .. Len(head) + Len(tail)
              BY <1>1, <2>1, <2>3, <2>4, <4>2
        <5>3. ~(i <= Len(head)) /\ Len(head) = k - 1
              BY <2>1, <2>3, <4>2
        <5>4. rest[i] = tail[i - (k - 1)]
              BY <3>1, <5>1, <5>3
        <5>2. tail[i - (k - 1)] = seq[k + (i - (k - 1))] /\ k + (i - (k - 1)) = i + 1
              BY <2>1, <2>4, <5>1
        <5>. QED  BY <4>2, <5>2, <5>4
      <4>. QED  BY <4>1, <4>2
    <3>. QED  BY <1>1, <2>1, <2>3, <2>4, <3>1, <3>2
  <2>6. DOMAIN rest = 1 .. Len(seq) - 1
        BY <2>5, LenProperties
  <2> HIDE DEF I
  <2>7. ASSUME IsInjective(seq) PROVE IsInjective(rest)
    <3>1. SUFFICES ASSUME NEW i \in 1 .. Len(seq) - 1, NEW j \in 1 .. Len(seq) - 1,
                          rest[i] = rest[j], i < j
                   PROVE  FALSE
          BY <1>1, <2>6 DEF IsInjective
    <3> DEFINE x == IF i < k THEN i ELSE i + 1
               y == IF j < k THEN j ELSE j + 1
    <3>2. x \in 1 .. Len(seq) /\ y \in 1 .. Len(seq) /\ x # y
          BY <1>1, <2>1, <3>1
    <3>3. seq[x] = seq[y]
          BY <2>5, <3>1
    <3> HIDE DEF x, y
    <3>. QED  BY <1>1, <2>7, <3>2, <3>3 DEF IsInjective
  <2>8. ASSUME IsInjective(seq) PROVE Range(rest) = Range(seq) \ {e}
    <3>1. ASSUME NEW x \in Range(rest) PROVE x \in Range(seq) \ {e}
      <4>1. PICK i \in 1 .. Len(seq) - 1 : x = rest[i]
            BY <2>6 DEF Range
      <4> DEFINE y == IF i < k THEN i ELSE i + 1
      <4>2. y \in 1 .. Len(seq) /\ y # k /\ x = seq[y]
            BY <1>1, <2>1, <2>5, <4>1
      <4> HIDE DEF y
      <4>3. x # e
            BY <1>1, <2>1, <2>8, <4>2 DEF IsInjective
      <4>. QED  BY <1>1, <4>2, <4>3 DEF Range
    <3>2. ASSUME NEW x \in Range(seq) \ {e} PROVE x \in Range(rest)
      <4>1. PICK i \in 1 .. Len(seq) : x = seq[i]
            BY <1>1 DEF Range
      <4>2. i # k
            BY <2>1, <4>1
      <4> DEFINE y == IF i < k THEN i ELSE i - 1
      <4>3. y \in 1 .. Len(seq) - 1
            BY <1>1, <2>1, <4>2
      <4>4. (IF y < k THEN seq[y] ELSE seq[y + 1]) = seq[i]
            BY <1>1, <2>1, <4>2
      <4>5. rest[y] = x
            BY <2>5, <4>1, <4>3, <4>4
      <4> HIDE DEF y
      <4>. QED  BY <2>6, <4>3, <4>5 DEF Range
    <3>. QED  BY <3>1, <3>2
  <2>. QED  BY <2>5, <2>7, <2>8 DEF rest
<1>. QED  BY <1>2, <1>3

\* TAILQ_INSERT_BEFORE and TAILQ_INSERT_AFTER, by the place of the new element.
LEMMA InsertAtContents ==
    ASSUME NEW S, NEW seq \in Seq(S), NEW e \in S, NEW k \in 1 .. Len(seq) + 1
    PROVE  /\ InsertAt(seq, k, e) \in Seq(S)
           /\ Range(InsertAt(seq, k, e)) = Range(seq) \cup {e}
           /\ IsInjective(seq) /\ e \notin Range(seq) => IsInjective(InsertAt(seq, k, e))
<1> DEFINE head == SubSeq(seq, 1, k - 1)
           tail == SubSeq(seq, k, Len(seq))
           f    == head \o <<e>>
           h    == InsertAt(seq, k, e)
<1>1. /\ Len(seq) \in Nat /\ DOMAIN seq = 1 .. Len(seq)
      /\ \A i \in 1 .. Len(seq) : seq[i] \in S
      BY LenProperties, ElementOfSeq
<1>2. <<e>> \in Seq(S) /\ Len(<<e>>) = 1 /\ <<e>>[1] = e
      OBVIOUS
<1>3. /\ head \in Seq(S) /\ Len(head) = k - 1
      /\ \A i \in 1 .. k - 1 : head[i] = seq[i]
  <2>1. 1 \in Int /\ k - 1 \in Int /\ \A i \in 1 .. k - 1 : seq[i] \in S
        BY <1>1
  <2>2. /\ head \in Seq(S) /\ Len(head) = IF 1 <= k - 1 THEN (k - 1) - 1 + 1 ELSE 0
        /\ \A i \in 1 .. (k - 1) - 1 + 1 : head[i] = seq[1 + i - 1]
        BY <2>1, SubSeqProperties
  <2> HIDE DEF head
  <2>. QED  BY <2>2
<1>4. /\ tail \in Seq(S) /\ Len(tail) = Len(seq) + 1 - k
      /\ \A i \in 1 .. Len(seq) + 1 - k : tail[i] = seq[k + i - 1]
  <2>1. k \in Int /\ Len(seq) \in Int /\ \A i \in k .. Len(seq) : seq[i] \in S
        BY <1>1
  <2>2. /\ tail \in Seq(S) /\ Len(tail) = IF k <= Len(seq) THEN Len(seq) - k + 1 ELSE 0
        /\ \A i \in 1 .. Len(seq) - k + 1 : tail[i] = seq[k + i - 1]
        BY <2>1, SubSeqProperties
  <2> HIDE DEF tail
  <2>3. Len(tail) = Len(seq) + 1 - k
        BY <1>1, <2>2
  <2>4. Len(seq) - k + 1 = Len(seq) + 1 - k
        BY <1>1
  <2>. QED  BY <2>2, <2>3, <2>4
<1> HIDE DEF head, tail
<1>5. /\ f \in Seq(S) /\ Len(f) = k
      /\ \A i \in 1 .. k - 1 : f[i] = seq[i]
      /\ f[k] = e
  <2>1. /\ f \in Seq(S) /\ Len(f) = Len(head) + 1
        /\ \A i \in 1 .. Len(head) + 1 : f[i] = IF i <= Len(head) THEN head[i] ELSE <<e>>[i - Len(head)]
        BY <1>2, <1>3, ConcatProperties
  <2> HIDE DEF f
  <2>. QED  BY <1>2, <1>3, <2>1
<1> HIDE DEF f
<1>6. h = f \o tail
      BY DEF InsertAt, f, head, tail
<1> HIDE DEF h
<1>7. /\ h \in Seq(S) /\ Len(h) = Len(seq) + 1
      /\ \A i \in 1 .. Len(seq) + 1 : h[i] = IF i <= k THEN f[i] ELSE tail[i - k]
  <2>1. /\ h \in Seq(S) /\ Len(h) = Len(f) + Len(tail)
        /\ \A i \in 1 .. Len(f) + Len(tail) : h[i] = IF i <= Len(f) THEN f[i] ELSE tail[i - Len(f)]
        BY <1>4, <1>5, <1>6, ConcatProperties
  <2>2. Len(f) + Len(tail) = Len(seq) + 1
        BY <1>1, <1>4, <1>5
  <2>. QED  BY <1>5, <2>1, <2>2
<1>8. /\ DOMAIN h = 1 .. Len(seq) + 1
      /\ \A i \in 1 .. k - 1 : h[i] = seq[i]
      /\ h[k] = e
      /\ \A i \in k + 1 .. Len(seq) + 1 : h[i] = seq[i - 1]
  <2>1. DOMAIN h = 1 .. Len(seq) + 1
        BY <1>7, LenProperties
  <2>2. ASSUME NEW i \in k + 1 .. Len(seq) + 1 PROVE h[i] = seq[i - 1]
    <3>1. i - k \in 1 .. Len(seq) + 1 - k /\ i \in 1 .. Len(seq) + 1 /\ ~(i <= k)
          BY <1>1
    <3>2. h[i] = tail[i - k] /\ tail[i - k] = seq[k + (i - k) - 1]
          BY <1>4, <1>7, <3>1
    <3>3. k + (i - k) - 1 = i - 1
          BY <1>1
    <3>. QED  BY <3>2, <3>3
  <2>3. /\ \A i \in 1 .. k - 1 : h[i] = seq[i]
        /\ h[k] = e
        BY <1>1, <1>5, <1>7
  <2>. QED  BY <2>1, <2>2, <2>3
<1>9. Range(h) = Range(seq) \cup {e}
  <2>1. ASSUME NEW i \in 1 .. Len(seq) PROVE \E j \in 1 .. Len(seq) + 1 : h[j] = seq[i]
    <3>1. CASE i < k
          BY <1>1, <1>8, <3>1
    <3>2. CASE i >= k
      <4>1. i + 1 \in k + 1 .. Len(seq) + 1 /\ i + 1 \in 1 .. Len(seq) + 1 /\ (i + 1) - 1 = i
            BY <1>1, <3>2
      <4>2. h[i + 1] = seq[i]
            BY <1>8, <4>1
      <4>. QED  BY <4>1, <4>2
    <3>. QED  BY <1>1, <3>1, <3>2
  <2>2. ASSUME NEW i \in 1 .. Len(seq) + 1
        PROVE  h[i] = e \/ \E j \in 1 .. Len(seq) : h[i] = seq[j]
        BY <1>1, <1>8
  <2>3. k \in 1 .. Len(seq) + 1
        OBVIOUS
  <2>4. \A x : x \in Range(h) <=> \E i \in 1 .. Len(seq) + 1 : x = h[i]
        BY <1>8 DEF Range
  <2>5. \A x : x \in Range(seq) <=> \E i \in 1 .. Len(seq) : x = seq[i]
        BY <1>1 DEF Range
  <2>6. \A x : x \in Range(h) <=> x \in Range(seq) \/ x = e
        BY <1>8, <2>1, <2>2, <2>3, <2>4, <2>5
  <2>. QED  BY <2>6
<1>10. ASSUME IsInjective(seq), e \notin Range(seq) PROVE IsInjective(h)
  <2>1. \A i, j \in 1 .. Len(seq) : seq[i] = seq[j] => i = j
        BY <1>1, <1>10 DEF IsInjective
  <2>2. \A i \in 1 .. Len(seq) : seq[i] # e
        BY <1>1, <1>10 DEF Range
  <2> DEFINE Old(i) == IF i < k THEN i ELSE i - 1
  <2>3. ASSUME NEW i \in 1 .. Len(seq) + 1, i # k
        PROVE  Old(i) \in 1 .. Len(seq) /\ h[i] = seq[Old(i)]
    <3>1. CASE i < k
      <4>1. i \in 1 .. k - 1 /\ i \in 1 .. Len(seq) /\ Old(i) = i
            BY <1>1, <3>1
      <4>. QED  BY <1>8, <4>1
    <3>2. CASE i > k
      <4>1. i \in k + 1 .. Len(seq) + 1 /\ i - 1 \in 1 .. Len(seq) /\ Old(i) = i - 1
            BY <1>1, <3>2
      <4>. QED  BY <1>8, <4>1
    <3>. QED  BY <1>1, <2>3, <3>1, <3>2
  <2>4. \A i, j \in 1 .. Len(seq) + 1 : i # k /\ j # k /\ Old(i) = Old(j) => i = j
        BY <1>1
  <2> HIDE DEF Old
  <2>5. \A i, j \in 1 .. Len(seq) + 1 : h[i] = h[j] => i = j
        BY <1>8, <2>1, <2>2, <2>3, <2>4
  <2>. QED  BY <1>8, <2>5 DEF IsInjective
<1>. QED  BY <1>7, <1>9, <1>10 DEF h

\* TAILQ_INSERT_TAIL alone.
LEMMA AppendContents ==
    ASSUME NEW S, NEW seq \in Seq(S), NEW e \in S, NEW l, l = Append(seq, e)
    PROVE  /\ l \in Seq(S)
           /\ Range(l) = Range(seq) \cup {e}
           /\ IsInjective(seq) /\ e \notin Range(seq) => IsInjective(l)
<1>1. /\ Len(seq) \in Nat /\ DOMAIN seq = 1 .. Len(seq)
      /\ l \in Seq(S) /\ Len(l) = Len(seq) + 1
      /\ \A i \in 1 .. Len(seq) : l[i] = seq[i]
      /\ l[Len(seq) + 1] = e
      BY LenProperties, AppendProperties
<1>2. DOMAIN l = 1 .. Len(seq) + 1
      BY <1>1, LenProperties
<1>3. Range(l) = Range(seq) \cup {e}
      BY <1>1, <1>2 DEF Range
<1>4. ASSUME IsInjective(seq), e \notin Range(seq) PROVE IsInjective(l)
      BY <1>1, <1>2, <1>4 DEF Range, IsInjective
<1>. QED  BY <1>1, <1>3, <1>4
=============================================================================
