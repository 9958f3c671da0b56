---------------------------- MODULE HelloFSProofs ----------------------------
(***************************************************************************)
(* Proofs about the file system of asgn4, for every store, request and     *)
(* number of names.                                                        *)
(***************************************************************************)
EXTENDS HelloFS, LibraryFacts, FiniteSetTheorems

-----------------------------------------------------------------------------
(* Loops *)

\* What holds of 0, and of n + 1 if of n, holds of every number.
LEMMA EveryNumber ==
    ASSUME NEW S \in SUBSET Nat, 0 \in S, \A n \in S : n + 1 \in S
    PROVE  \A n \in Nat : n \in S
<1> SUFFICES ASSUME Nat \ S # {} PROVE FALSE
    OBVIOUS
<1> DEFINE T == Nat \ S
           m == Min(T)
<1>1. m \in T /\ \A x \in T : m <= x
      BY MinIsLeast
<1> HIDE DEF m
<1>2. m - 1 \in Nat /\ m - 1 \notin T
      BY <1>1
<1>3. m - 1 \in S
      BY <1>2
<1>4. (m - 1) + 1 \in S
      BY <1>3
<1>. QED  BY <1>1, <1>4

\* One turn of hello_write's loop, and the turns from s0 on.
Part(buffer, k)    == SubSeq(buffer, (k - 1) * USABLE_SPACE + 1, k * USABLE_SPACE)
Turn(s, buffer, k) == WriteBlock(s, Part(buffer, k))

IsTurns(t, s0, buffer, n) ==
    t = [k \in 0..n |-> IF k = 0 THEN s0 ELSE Turn(t[k - 1], buffer, k)]

LEMMA TurnsExist ==
    ASSUME NEW s0, NEW buffer, NEW n \in Nat
    PROVE  \E t : IsTurns(t, s0, buffer, n)
<1> DEFINE S == {i \in Nat : \E t : IsTurns(t, s0, buffer, i)}
<1>1. 0 \in S
  <2> DEFINE t == [k \in 0..0 |-> s0]
  <2>1. t = [k \in 0..0 |-> IF k = 0 THEN s0 ELSE Turn(t[k - 1], buffer, k)]
        OBVIOUS
  <2>. QED  BY <2>1 DEF IsTurns
<1>2. ASSUME NEW i \in S PROVE i + 1 \in S
  <2>1. PICK t : IsTurns(t, s0, buffer, i)
        OBVIOUS
  <2> DEFINE last == Turn(t[i], buffer, i + 1)
             u == [k \in 0..i + 1 |-> IF k = i + 1 THEN last ELSE t[k]]
  <2>2. t = [k \in 0..i |-> IF k = 0 THEN s0 ELSE Turn(t[k - 1], buffer, k)]
        BY <2>1 DEF IsTurns
  <2>3. \A k \in 0..i : u[k] = t[k]
        OBVIOUS
  <2>4. u[i + 1] = last
        OBVIOUS
  <2>5. ASSUME NEW k \in 0..i + 1
        PROVE  u[k] = IF k = 0 THEN s0 ELSE Turn(u[k - 1], buffer, k)
    <3>1. CASE k = i + 1
          BY <2>3, <2>4, <3>1
    <3>2. CASE k \in 0..i
      <4>1. t[k] = IF k = 0 THEN s0 ELSE Turn(t[k - 1], buffer, k)
            BY <2>2, <3>2
      <4>2. k # 0 => u[k - 1] = t[k - 1]
            BY <2>3, <3>2
      <4>. QED  BY <2>3, <3>2, <4>1, <4>2
    <3>. QED  BY <3>1, <3>2
  <2> DEFINE v == [k \in 0..i + 1 |-> IF k = 0 THEN s0 ELSE Turn(u[k - 1], buffer, k)]
  <2>6. u = v
        BY <2>5
  <2>7. IsTurns(u, s0, buffer, i + 1)
        BY <2>6 DEF IsTurns
  <2>. QED  BY <2>7
<1> HIDE DEF S
<1>3. S \in SUBSET Nat
      BY DEF S
<1>4. n \in S
      BY <1>1, <1>2, <1>3, EveryNumber
<1>. QED  BY <1>4 DEF S

RunsThrough(t, s0, buffer, n) ==
    /\ WriteBlocks(s0, buffer, n) = t[n]
    /\ t[0] = s0
    /\ \A k \in 1..n : t[k] = Turn(t[k - 1], buffer, k)

LEMMA WriteBlocksTurns ==
    ASSUME NEW s0, NEW buffer, NEW n \in Nat
    PROVE  \E t : RunsThrough(t, s0, buffer, n)
<1> DEFINE t == CHOOSE f : IsTurns(f, s0, buffer, n)
<1>1. WriteBlocks(s0, buffer, n) = t[n]
      BY Zenon DEF WriteBlocks, IsTurns, Turn, Part
<1>2. IsTurns(t, s0, buffer, n)
      BY TurnsExist
<1> HIDE DEF t
<1>3. t = [k \in 0..n |-> IF k = 0 THEN s0 ELSE Turn(t[k - 1], buffer, k)]
      BY <1>2 DEF IsTurns
<1>4. t[0] = s0 /\ \A k \in 1..n : t[k] = Turn(t[k - 1], buffer, k)
      BY <1>3
<1>5. RunsThrough(t, s0, buffer, n)
      BY <1>1, <1>4 DEF RunsThrough
<1>. QED  BY <1>5
-----------------------------------------------------------------------------
(* Images and the chains in them *)

Units == Cells \cup {ZeroCell, StackCell}
Links(d) == [x \in Blocks \cup {0} |-> IF x = 0 THEN 0 ELSE d.md[x].next]

LEMMA HelloNumbers ==
    /\ NUM_BLOCKS \in Nat \ {0} /\ USABLE_SPACE \in Nat \ {0} /\ MAX_REQUEST_SIZE \in Nat
    /\ NoName \notin Names /\ LongNames \cap Names = {} /\ NoName \notin Seq(Units)
    /\ Requests \subseteq Seq(Cells) \ {<<>>} /\ Sizes \subseteq Nat
    /\ Blocks \subseteq Nat \ {0}
BY HelloAssumption DEF Units, Blocks

LEMMA ImageParts ==
    ASSUME NEW d \in Image
    PROVE  /\ d.bitmap \subseteq Blocks
           /\ d.md \in [Blocks -> metadata]
           /\ d.data \in [Blocks -> [1..USABLE_SPACE -> Units]]
           /\ \A b \in Blocks : /\ d.md[b].filename \in Names \cup {NoName}
                                /\ d.md[b].file_size \in Nat
                                /\ d.md[b].next \in Blocks \cup {0}
           /\ \A b \in Blocks : \A k \in 1..USABLE_SPACE : d.data[b][k] \in Units
           /\ Links(d) \in [Blocks \cup {0} -> Blocks \cup {0}]
<1>1. /\ d.bitmap \subseteq Blocks
      /\ d.md \in [Blocks -> metadata]
      /\ d.data \in [Blocks -> [1..USABLE_SPACE -> Units]]
      BY DEF Image, Units
<1>2. \A b \in Blocks : /\ d.md[b].filename \in Names \cup {NoName}
                        /\ d.md[b].file_size \in Nat
                        /\ d.md[b].next \in Blocks \cup {0}
      BY <1>1 DEF metadata
<1>3. ASSUME NEW b \in Blocks, NEW k \in 1..USABLE_SPACE PROVE d.data[b][k] \in Units
  <2>1. d.data[b] \in [1..USABLE_SPACE -> Units]
        BY <1>1
  <2>. QED  BY <2>1
<1>4. Links(d) \in [Blocks \cup {0} -> Blocks \cup {0}]
      BY <1>2 DEF Links
<1>. QED  BY <1>1, <1>2, <1>3, <1>4

IsWalk(w, d, b, n) == w = [k \in 1..n |-> IF k = 1 THEN b ELSE Links(d)[w[k - 1]]]

LEMMA WalksExist ==
    ASSUME NEW d, NEW b, NEW n \in Nat
    PROVE  \E w : IsWalk(w, d, b, n)
<1> DEFINE S == {i \in Nat : \E w : IsWalk(w, d, b, i)}
<1>1. 0 \in S
  <2> DEFINE w == [k \in 1..0 |-> b]
  <2>1. w = [k \in 1..0 |-> IF k = 1 THEN b ELSE Links(d)[w[k - 1]]]
        OBVIOUS
  <2>. QED  BY <2>1 DEF IsWalk
<1>2. ASSUME NEW i \in S PROVE i + 1 \in S
  <2>1. PICK w : IsWalk(w, d, b, i)
        OBVIOUS
  <2> DEFINE last == IF i = 0 THEN b ELSE Links(d)[w[i]]
             u == [k \in 1..i + 1 |-> IF k = i + 1 THEN last ELSE w[k]]
  <2>2. w = [k \in 1..i |-> IF k = 1 THEN b ELSE Links(d)[w[k - 1]]]
        BY <2>1 DEF IsWalk
  <2>3. \A k \in 1..i : u[k] = w[k]
        OBVIOUS
  <2>4. u[i + 1] = last
        OBVIOUS
  <2>5. ASSUME NEW k \in 1..i + 1
        PROVE  u[k] = IF k = 1 THEN b ELSE Links(d)[u[k - 1]]
    <3>1. CASE k = i + 1
          BY <2>3, <2>4, <3>1
    <3>2. CASE k \in 1..i
      <4>1. w[k] = IF k = 1 THEN b ELSE Links(d)[w[k - 1]]
            BY <2>2, <3>2
      <4>2. k # 1 => u[k - 1] = w[k - 1]
            BY <2>3, <3>2
      <4>. QED  BY <2>3, <3>2, <4>1, <4>2
    <3>. QED  BY <3>1, <3>2
  <2> DEFINE v == [k \in 1..i + 1 |-> IF k = 1 THEN b ELSE Links(d)[u[k - 1]]]
  <2>6. u = v
        BY <2>5
  <2>7. IsWalk(u, d, b, i + 1)
        BY <2>6 DEF IsWalk
  <2>. QED  BY <2>7
<1> HIDE DEF S
<1>3. S \in SUBSET Nat
      BY DEF S
<1>4. n \in S
      BY <1>1, <1>2, <1>3, EveryNumber
<1>. QED  BY <1>4 DEF S

LEMMA WalkFacts ==
    ASSUME NEW d \in Image, NEW b \in Blocks \cup {0}, NEW w, w = Walk(d, b)
    PROVE  /\ w \in [1..NUM_BLOCKS -> Blocks \cup {0}]
           /\ w[1] = b
           /\ \A k \in 2..NUM_BLOCKS : w[k] = Links(d)[w[k - 1]]
<1>1. w = CHOOSE f : IsWalk(f, d, b, NUM_BLOCKS)
      BY Zenon DEF Walk, IsWalk, Links
<1>2. IsWalk(w, d, b, NUM_BLOCKS)
      BY <1>1, WalksExist, HelloNumbers
<1>3. w = [k \in 1..NUM_BLOCKS |-> IF k = 1 THEN b ELSE Links(d)[w[k - 1]]]
      BY <1>2 DEF IsWalk
<1>4. w[1] = b /\ \A k \in 2..NUM_BLOCKS : w[k] = Links(d)[w[k - 1]]
  <2>1. NUM_BLOCKS \in Nat \ {0}
        BY HelloNumbers
  <2>2. 1 \in 1..NUM_BLOCKS /\ \A k \in 2..NUM_BLOCKS : k \in 1..NUM_BLOCKS /\ k # 1
        BY <2>1
  <2>3. \A k \in 1..NUM_BLOCKS : w[k] = IF k = 1 THEN b ELSE Links(d)[w[k - 1]]
        BY <1>3, Zenon
  <2>. QED  BY <2>2, <2>3
<1> DEFINE S == {i \in Nat : i + 1 \in 1..NUM_BLOCKS => w[i + 1] \in Blocks \cup {0}}
<1>5. 0 \in S
      BY <1>4
<1>6. ASSUME NEW i \in S PROVE i + 1 \in S
  <2>1. CASE i + 2 \in 1..NUM_BLOCKS
    <3>1. i + 1 \in 1..NUM_BLOCKS /\ i + 2 \in 2..NUM_BLOCKS /\ (i + 2) - 1 = i + 1
          BY <2>1, HelloNumbers
    <3>2. w[i + 2] = Links(d)[w[i + 1]]
          BY <1>4, <3>1
    <3>3. w[i + 1] \in Blocks \cup {0}
          BY <3>1
    <3>. QED  BY <3>2, <3>3, ImageParts
  <2>. QED  BY <2>1
<1> HIDE DEF S
<1>7. S \in SUBSET Nat
      BY DEF S
<1>8. \A i \in Nat : i \in S
      BY <1>5, <1>6, <1>7, EveryNumber
<1>9. ASSUME NEW k \in 1..NUM_BLOCKS PROVE w[k] \in Blocks \cup {0}
  <2>1. k - 1 \in Nat /\ (k - 1) + 1 = k
        BY HelloNumbers
  <2>2. k - 1 \in S
        BY <1>8, <2>1
  <2>. QED  BY <2>1, <2>2 DEF S
<1>. QED  BY <1>3, <1>4, <1>9

\* A chain begins at its block, follows md.next and ends where that is 0, unless
\* it is as long as the store.
LEMMA ChainFacts ==
    ASSUME NEW d \in Image, NEW b \in Blocks \cup {0}, NEW c, c = Chain(d, b)
    PROVE  /\ c \in Seq(Blocks) /\ Len(c) \in 0..NUM_BLOCKS
           /\ b = 0 => c = <<>>
           /\ b # 0 => Len(c) >= 1 /\ c[1] = b
           /\ \A k \in 1..Len(c) - 1 : c[k + 1] = d.md[c[k]].next
           /\ b # 0 /\ Len(c) < NUM_BLOCKS => d.md[c[Len(c)]].next = 0
<1> DEFINE w == Walk(d, b)
           N == NUM_BLOCKS
           T == {k \in 0..N : k = N \/ w[k + 1] = 0}
           L == Min(T)
           Reached == {n \in 1..N : w[n] # 0}
<1>1. /\ w \in [1..N -> Blocks \cup {0}] /\ w[1] = b
      /\ \A k \in 2..N : w[k] = Links(d)[w[k - 1]]
      BY WalkFacts
<1>2. N \in Nat \ {0}
      BY HelloNumbers
<1>3. c = [k \in 1..Cardinality(Reached) |-> w[k]]
      BY DEF Chain
<1> HIDE DEF w, N
<1>4. L \in T /\ \A k \in T : L <= k
  <2>1. N \in T /\ T \in SUBSET Nat
        BY <1>2
  <2> HIDE DEF T
  <2>. QED  BY <2>1, MinIsLeast
<1> HIDE DEF L
<1>5. L \in 0..N /\ (L = N \/ w[L + 1] = 0)
      BY <1>4
<1>6. ASSUME NEW n \in 1..L PROVE w[n] # 0
  <2>1. n - 1 \in 0..N /\ n - 1 < L /\ (n - 1) + 1 = n /\ n - 1 # N
        BY <1>2, <1>5
  <2>2. n - 1 \notin T
        BY <1>4, <1>5, <2>1
  <2>. QED  BY <2>1, <2>2
<1> DEFINE S == {i \in Nat : L + 1 + i <= N => w[L + 1 + i] = 0}
<1>7. 0 \in S
      BY <1>2, <1>5
<1>8. ASSUME NEW i \in S PROVE i + 1 \in S
  <2>1. CASE L + 2 + i <= N
    <3>1. L + 2 + i \in 2..N /\ L + 2 + i - 1 = L + 1 + i /\ w[L + 1 + i] = 0
          BY <1>2, <1>5, <2>1
    <3>2. w[L + 2 + i] = Links(d)[0]
      <4> DEFINE k == L + 2 + i
      <4>1. k \in 2..N /\ k - 1 = L + 1 + i
            BY <1>5, <3>1
      <4> HIDE DEF k
      <4>2. w[k] = Links(d)[0]
            BY <1>1, <3>1, <4>1
      <4>. QED  BY <4>2 DEF k
    <3>3. L + 2 + i = L + 1 + (i + 1)
          BY <1>5
    <3>. QED  BY <3>2, <3>3 DEF Links
  <2>. QED  BY <1>2, <1>5, <2>1
<1> HIDE DEF S
<1>9. S \in SUBSET Nat
      BY DEF S
<1>10. \A i \in Nat : i \in S
      BY <1>7, <1>8, <1>9, EveryNumber
<1>11. ASSUME NEW n \in L + 1..N PROVE w[n] = 0
  <2>1. n - L - 1 \in Nat /\ L + 1 + (n - L - 1) = n /\ n <= N
        BY <1>2, <1>5
  <2>2. n - L - 1 \in S
        BY <1>10, <2>1
  <2>. QED  BY <2>1, <2>2 DEF S
<1>12. Reached = 1..L
      BY <1>2, <1>5, <1>6, <1>11
<1> HIDE DEF Reached, T
<1>13. Cardinality(Reached) = L
  <2>1. 1 \in Int /\ L \in Int /\ (1 <= L \/ L = 0)
        BY <1>2, <1>5
  <2>2. Cardinality(1..L) = IF 1 > L THEN 0 ELSE L - 1 + 1
        BY <2>1, FS_Interval
  <2>. QED  BY <1>12, <2>1, <2>2
<1>14. c = [k \in 1..L |-> w[k]] /\ L \in Nat /\ L <= N
      BY <1>2, <1>3, <1>5, <1>13
<1>15. ASSUME NEW k \in 1..L PROVE w[k] \in Blocks
      BY <1>1, <1>2, <1>5, <1>6
<1>16. c \in Seq(Blocks) /\ Len(c) = L
      BY <1>14, <1>15
<1>17. \A k \in 1..Len(c) - 1 : c[k + 1] = d.md[c[k]].next
  <2> TAKE k \in 1..Len(c) - 1
  <2>1. k + 1 \in 2..N /\ (k + 1) - 1 = k /\ k \in 1..L /\ k + 1 \in 1..L
        BY <1>2, <1>14, <1>16
  <2>2. w[k + 1] = Links(d)[w[k]] /\ w[k] \in Blocks
        BY <1>1, <1>15, <2>1
  <2>3. w[k] # 0
        BY <1>6, <2>1
  <2>. QED  BY <1>14, <2>1, <2>2, <2>3 DEF Links
<1>18. b = 0 => c = <<>>
      BY <1>1, <1>6, <1>14
<1>19. b # 0 => L # 0
      BY <1>1, <1>2, <1>5
<1>20. b # 0 /\ L < N => d.md[c[L]].next = 0
  <2> SUFFICES ASSUME b # 0, L < N PROVE d.md[c[L]].next = 0
      OBVIOUS
  <2>1. L + 1 \in 2..N /\ (L + 1) - 1 = L /\ L \in 1..L
        BY <1>2, <1>5, <1>19
  <2>2. w[L + 1] = Links(d)[w[L]] /\ w[L + 1] = 0 /\ w[L] \in Blocks /\ w[L] # 0
        BY <1>1, <1>2, <1>5, <1>6, <1>15, <2>1
  <2>. QED  BY <1>14, <2>1, <2>2 DEF Links
<1>21. b # 0 => Len(c) >= 1 /\ c[1] = b
      BY <1>1, <1>14, <1>16, <1>19
<1>22. b # 0 /\ Len(c) < N => d.md[c[Len(c)]].next = 0
      BY <1>16, <1>20
<1>23. Len(c) \in 0..N
      BY <1>14, <1>16
<1>. QED  BY <1>16, <1>17, <1>18, <1>21, <1>22, <1>23, Zenon DEF N
-----------------------------------------------------------------------------
(* What the handlers write *)

LEMMA PutMetadataFacts ==
    ASSUME NEW d \in Image, NEW b \in Blocks, NEW md \in metadata, NEW e, e = PutMetadata(d, b, md)
    PROVE  /\ e \in Image /\ e.bitmap = d.bitmap /\ e.data = d.data
           /\ e.md[b] = md /\ \A c \in Blocks \ {b} : e.md[c] = d.md[c]
BY ImageParts DEF Image, PutMetadata, Units

LEMMA PutDataFacts ==
    ASSUME NEW d \in Image, NEW b \in Blocks, NEW cells \in Seq(Units), NEW e, e = PutData(d, b, cells)
    PROVE  /\ e \in Image /\ e.bitmap = d.bitmap /\ e.md = d.md
           /\ \A k \in 1..USABLE_SPACE :
                 e.data[b][k] = IF k <= Len(cells) THEN cells[k] ELSE d.data[b][k]
           /\ \A c \in Blocks \ {b} : e.data[c] = d.data[c]
<1> DEFINE row == [k \in 1..USABLE_SPACE |-> IF k <= Len(cells) THEN cells[k] ELSE d.data[b][k]]
<1>1. row \in [1..USABLE_SPACE -> Units]
  <2>1. ASSUME NEW k \in 1..USABLE_SPACE
        PROVE  (IF k <= Len(cells) THEN cells[k] ELSE d.data[b][k]) \in Units
    <3>1. k <= Len(cells) => cells[k] \in Units
      <4>1. k <= Len(cells) => k \in 1..Len(cells)
            BY HelloNumbers
      <4>. QED  BY <4>1, ElementOfSeq
    <3>2. d.data[b][k] \in Units
          BY ImageParts
    <3>. QED  BY <3>1, <3>2
  <2>. QED  BY <2>1
<1>2. e = [d EXCEPT !.data[b] = row]
      BY DEF PutData
<1>3. \A k \in 1..USABLE_SPACE :
         row[k] = IF k <= Len(cells) THEN cells[k] ELSE d.data[b][k]
      OBVIOUS
<1> HIDE DEF row
<1>4. e \in Image /\ e.bitmap = d.bitmap /\ e.md = d.md /\ e.data[b] = row
  <2> DEFINE all == [d.data EXCEPT ![b] = row]
  <2>1. all \in [Blocks -> [1..USABLE_SPACE -> Units]] /\ all[b] = row
        BY <1>1, ImageParts
  <2>2. e = [d EXCEPT !.data = all]
        BY <1>2
  <2> HIDE DEF all
  <2>. QED  BY <2>1, <2>2 DEF Image, Units
<1>5. \A c \in Blocks \ {b} : e.data[c] = d.data[c]
      BY <1>2, ImageParts
<1>. QED  BY <1>3, <1>4, <1>5

PutBitmap(d, used) == [d EXCEPT !.bitmap = used]

LEMMA PutBitmapFacts ==
    ASSUME NEW d \in Image, NEW used \in SUBSET Blocks, NEW e, e = PutBitmap(d, used)
    PROVE  e \in Image /\ e.bitmap = used /\ e.md = d.md /\ e.data = d.data
BY DEF Image, PutBitmap

LEMMA NextAvailable ==
    ASSUME NEW used \in SUBSET Blocks, used # Blocks
    PROVE  NextAvailableBlock(used) \in Blocks \ used
<1>1. Blocks \ used \in SUBSET Nat /\ Blocks \ used # {}
      BY HelloNumbers
<1>. QED  BY <1>1, MinIsLeast DEF NextAvailableBlock

LEMMA FileStartFacts ==
    ASSUME NEW d \in Image, NEW used \in SUBSET Blocks, NEW n, FileStart(d, used, n) # 0
    PROVE  FileStart(d, used, n) \in Entries(d, used, n) /\ FileStart(d, used, n) \in Blocks
<1>1. Entries(d, used, n) \in SUBSET Nat /\ Entries(d, used, n) \subseteq Blocks
      BY HelloNumbers DEF Entries
<1>2. Entries(d, used, n) # {} /\ FileStart(d, used, n) = Min(Entries(d, used, n))
      BY DEF FileStart
<1>. QED  BY <1>1, <1>2, MinIsLeast

\* Whole blocks are read, one after the other.
LEMMA ChainCellsType ==
    ASSUME NEW d \in Image, NEW chain \in Seq(Blocks), NEW cells, cells = ChainCells(d, chain)
    PROVE  /\ cells \in Seq(Units) /\ Len(cells) = Len(chain) * USABLE_SPACE
           /\ \A i \in 1..Len(cells) :
                 /\ ((i - 1) \div USABLE_SPACE) + 1 \in 1..Len(chain)
                 /\ ((i - 1) % USABLE_SPACE) + 1 \in 1..USABLE_SPACE
                 /\ cells[i] = d.data[chain[((i - 1) \div USABLE_SPACE) + 1]]
                                     [((i - 1) % USABLE_SPACE) + 1]
<1> DEFINE U == USABLE_SPACE
           n == Len(chain)
           size == n * U
<1>1. U \in Nat \ {0} /\ n \in Nat
      BY HelloNumbers
<1>2. size \in Nat
      BY <1>1
<1>3. ASSUME NEW i \in 1..size
      PROVE  ((i - 1) \div U) + 1 \in 1..n /\ ((i - 1) % U) + 1 \in 1..U
  <2> DEFINE q == (i - 1) \div U
             r == (i - 1) % U
  <2>1. i - 1 \in Nat /\ i - 1 < n * U
        BY <1>2
  <2>2. q \in Int /\ r \in 0..U - 1 /\ i - 1 = q * U + r
        BY <1>1, <2>1, Z3
  <2> HIDE DEF q, r
  <2> DEFINE a == q * U
             b == n * U
  <2>3. a \in Int /\ b \in Int /\ a < b /\ a > -U
        BY <1>1, <2>1, <2>2
  <2>4. q < n
    <3>1. SUFFICES ASSUME n <= q PROVE FALSE
          BY <1>1, <2>2
    <3>2. (q - n) * U >= 0 /\ (q - n) * U = a - b
          BY <1>1, <2>2, <3>1
    <3>. QED  BY <2>3, <3>2
  <2>5. q >= 0
    <3>1. SUFFICES ASSUME q <= -1 PROVE FALSE
          BY <2>2
    <3>2. (-1 - q) * U >= 0 /\ (-1 - q) * U = -U - a
          BY <1>1, <2>2, <3>1
    <3>. QED  BY <1>1, <2>3, <3>2
  <2>. QED  BY <1>1, <2>2, <2>4, <2>5 DEF q, r
<1>4. cells = [i \in 1..size |-> d.data[chain[((i - 1) \div U) + 1]][((i - 1) % U) + 1]]
      BY Zenon DEF ChainCells
<1> HIDE DEF U, n, size
<1>5. ASSUME NEW i \in 1..size
      PROVE  cells[i] = d.data[chain[((i - 1) \div U) + 1]][((i - 1) % U) + 1] /\ cells[i] \in Units
  <2> DEFINE q == ((i - 1) \div U) + 1
             r == ((i - 1) % U) + 1
  <2>1. cells[i] = d.data[chain[q]][r] /\ q \in 1..n /\ r \in 1..U
        BY <1>3, <1>4
  <2> HIDE DEF q, r
  <2>2. chain[q] \in Blocks
        BY <2>1, ElementOfSeq DEF n
  <2>3. d.data[chain[q]][r] \in Units
        BY <2>1, <2>2, ImageParts DEF U
  <2>. QED  BY <2>1, <2>3, Zenon DEF q, r
<1>6. cells \in Seq(Units) /\ Len(cells) = size
      BY <1>2, <1>4, <1>5
<1>. QED  BY <1>3, <1>5, <1>6, Zenon DEF U, n, size

LEMMA BufferType ==
    ASSUME NEW d \in Image, NEW b \in Blocks \cup {0}, NEW offset \in Nat, NEW buf \in Seq(Cells),
           NEW buffer, buffer = WriteBuffer(d, Chain(d, b), offset, buf)
    PROVE  buffer \in Seq(Units) /\ Len(buffer) = offset + Len(buf)
<1> DEFINE chain == Chain(d, b)
           old == ChainCells(d, chain)
<1>1. chain \in Seq(Blocks)
      BY ChainFacts
<1> HIDE DEF chain
<1>2. old \in Seq(Units)
      BY <1>1, ChainCellsType
<1>3. buffer = [k \in 1..(offset + Len(buf)) |->
            IF k > offset THEN buf[k - offset]
            ELSE IF k <= Len(old) THEN old[k] ELSE StackCell]
      BY DEF WriteBuffer, chain
<1> HIDE DEF old
<1>4. Len(buf) \in Nat /\ Len(old) \in Nat
      BY <1>2
<1>5. ASSUME NEW k \in 1..(offset + Len(buf))
      PROVE  (IF k > offset THEN buf[k - offset]
              ELSE IF k <= Len(old) THEN old[k] ELSE StackCell) \in Units
  <2>1. k > offset => buf[k - offset] \in Units
    <3>1. k > offset => k - offset \in 1..Len(buf)
          BY <1>4
    <3>. QED  BY <3>1, ElementOfSeq DEF Units
  <2>2. k <= Len(old) => old[k] \in Units
    <3>1. k <= Len(old) => k \in 1..Len(old)
          BY <1>4
    <3>. QED  BY <1>2, <3>1, ElementOfSeq
  <2>. QED  BY <2>1, <2>2 DEF Units
<1>. QED  BY <1>3, <1>4, <1>5
-----------------------------------------------------------------------------
(* No handler but hello_create gives a block a name or takes one from it *)

\* A named block is in use, and no other has its name.
NamesSound(d) ==
    \A b \in Blocks : d.md[b].filename # NoName =>
        b \in d.bitmap /\ \A c \in Blocks : d.md[c].filename = d.md[b].filename => c = b

\* An image a call passes through on its way from d.
SameNames(d, e) ==
    e \in Image /\ e.bitmap = d.bitmap /\ \A b \in Blocks : e.md[b].filename = d.md[b].filename

LoopStates ==
    [images : Seq(Image), bitmap : SUBSET Blocks, block : Blocks, md : metadata, failed : BOOLEAN]

NamedLoop(d, used, s) ==
    /\ s \in LoopStates /\ Len(s.images) >= 1
    /\ \A i \in 1..Len(s.images) : SameNames(d, s.images[i])
    /\ used \subseteq s.bitmap
    /\ s.md.filename = d.md[s.block].filename

LEMMA SameNamesPut ==
    ASSUME NEW d, NEW e, SameNames(d, e), NEW b \in Blocks
    PROVE  /\ \A md \in metadata : md.filename = d.md[b].filename =>
                 SameNames(d, PutMetadata(e, b, md))
           /\ \A cells \in Seq(Units) : SameNames(d, PutData(e, b, cells))
<1>1. e \in Image
      BY DEF SameNames
<1>2. ASSUME NEW md \in metadata, md.filename = d.md[b].filename
      PROVE  SameNames(d, PutMetadata(e, b, md))
  <2> DEFINE f == PutMetadata(e, b, md)
  <2>1. /\ f \in Image /\ f.bitmap = e.bitmap
        /\ f.md[b] = md /\ \A c \in Blocks \ {b} : f.md[c] = e.md[c]
        BY <1>1, PutMetadataFacts
  <2> HIDE DEF f
  <2>2. SameNames(d, f)
        BY <1>2, <2>1 DEF SameNames
  <2>. QED  BY <2>2 DEF f
<1>3. ASSUME NEW cells \in Seq(Units) PROVE SameNames(d, PutData(e, b, cells))
  <2> DEFINE f == PutData(e, b, cells)
  <2>1. f \in Image /\ f.bitmap = e.bitmap /\ f.md = e.md
        BY <1>1, PutDataFacts
  <2> HIDE DEF f
  <2>2. SameNames(d, f)
        BY <2>1 DEF SameNames
  <2>. QED  BY <2>2 DEF f
<1>. QED  BY <1>2, <1>3

LEMMA LastImage ==
    ASSUME NEW s \in LoopStates, Len(s.images) >= 1
    PROVE  Last(s.images) = s.images[Len(s.images)] /\ Len(s.images) \in 1..Len(s.images)
           /\ Last(s.images) \in Image /\ s.images \in Seq(Image)
<1>1. s.images \in Seq(Image)
      BY DEF LoopStates
<1>2. Len(s.images) \in 1..Len(s.images)
      BY <1>1
<1>. QED  BY <1>1, <1>2, ElementOfSeq DEF Last

\* The turns of the loop, each as one of four.
WithFailure(s) == [s EXCEPT !.failed = TRUE]
Advanced(s, images, block, md) == [s EXCEPT !.images = images, !.block = block, !.md = md]
Extended(s, images, used, block, md) ==
    [s EXCEPT !.images = images, !.bitmap = used, !.block = block, !.md = md]

LEMMA LoopFailed ==
    ASSUME NEW s \in LoopStates, NEW u, u = WithFailure(s)
    PROVE  /\ u \in LoopStates /\ u.images = s.images /\ u.bitmap = s.bitmap
           /\ u.block = s.block /\ u.md = s.md /\ u.failed
BY DEF LoopStates, WithFailure

LEMMA LoopAdvanced ==
    ASSUME NEW s \in LoopStates, NEW images \in Seq(Image), NEW block \in Blocks,
           NEW md \in metadata, NEW u, u = Advanced(s, images, block, md)
    PROVE  /\ u \in LoopStates /\ u.images = images /\ u.bitmap = s.bitmap
           /\ u.block = block /\ u.md = md /\ u.failed = s.failed
BY DEF LoopStates, Advanced

LEMMA LoopExtended ==
    ASSUME NEW s \in LoopStates, NEW images \in Seq(Image), NEW used \in SUBSET Blocks,
           NEW block \in Blocks, NEW md \in metadata,
           NEW u, u = Extended(s, images, used, block, md)
    PROVE  /\ u \in LoopStates /\ u.images = images /\ u.bitmap = used
           /\ u.block = block /\ u.md = md /\ u.failed = s.failed
BY DEF LoopStates, Extended

LEMMA LinkedType ==
    ASSUME NEW md \in metadata, NEW b \in Blocks
    PROVE  /\ Linked(md, b) \in metadata /\ Linked(md, b).filename = md.filename
           /\ Linked(md, b).next = b /\ Linked(md, b).file_size = md.file_size
           /\ ZeroMetadata \in metadata /\ ZeroMetadata.filename = NoName
           /\ ZeroMetadata.next = 0 /\ ZeroMetadata.file_size = 0
BY DEF metadata, Linked, ZeroMetadata

\* One or two more images.
LEMMA MoreImages ==
    ASSUME NEW images \in Seq(Image), NEW e \in Image, NEW f \in Image
    PROVE  LET one == Append(images, e)
               two == images \o <<e, f>>
           IN  /\ one \in Seq(Image) /\ Len(one) = Len(images) + 1 /\ one[Len(one)] = e
               /\ two \in Seq(Image) /\ Len(two) = Len(images) + 2 /\ two[Len(two)] = f
               /\ two[Len(two) - 1] = e
               /\ \A i \in 1..Len(one) : \/ i \in 1..Len(images) /\ one[i] = images[i]
                                         \/ i = Len(one) /\ one[i] = e
               /\ \A i \in 1..Len(two) : \/ i \in 1..Len(images) /\ two[i] = images[i]
                                         \/ i = Len(two) - 1 /\ two[i] = e
                                         \/ i = Len(two) /\ two[i] = f
<1> DEFINE one == Append(images, e)
           two == images \o <<e, f>>
<1>1. Len(images) \in Nat
      OBVIOUS
<1>2. one \in Seq(Image) /\ Len(one) = Len(images) + 1
      /\ \A i \in 1..Len(images) + 1 : one[i] = IF i <= Len(images) THEN images[i] ELSE e
      OBVIOUS
<1>3. two \in Seq(Image) /\ Len(two) = Len(images) + 2
      /\ \A i \in 1..Len(images) + 2 :
            two[i] = IF i <= Len(images) THEN images[i]
                     ELSE IF i = Len(images) + 1 THEN e ELSE f
      OBVIOUS
<1> HIDE DEF one, two
<1>4. one[Len(one)] = e /\ two[Len(two)] = f /\ two[Len(two) - 1] = e
      BY <1>1, <1>2, <1>3
<1>5. ASSUME NEW i \in 1..Len(one)
      PROVE  \/ i \in 1..Len(images) /\ one[i] = images[i]
             \/ i = Len(one) /\ one[i] = e
      BY <1>1, <1>2
<1>6. ASSUME NEW i \in 1..Len(two)
      PROVE  \/ i \in 1..Len(images) /\ two[i] = images[i]
             \/ i = Len(two) - 1 /\ two[i] = e
             \/ i = Len(two) /\ two[i] = f
      BY <1>1, <1>3
<1>. QED  BY <1>2, <1>3, <1>4, <1>5, <1>6 DEF one, two

LEMMA NamedTurn ==
    ASSUME NEW d \in Image, NamesSound(d), NEW used \in SUBSET Blocks, d.bitmap \subseteq used,
           NEW s, NamedLoop(d, used, s), NEW cells \in Seq(Units), NEW u, u = WriteBlock(s, cells)
    PROVE  NamedLoop(d, used, u)
<1> DEFINE e == Last(s.images)
           b == NextAvailableBlock(s.bitmap)
           linked == PutMetadata(e, s.block, Linked(s.md, b))
           data == PutData(e, s.block, cells)
           data2 == PutData(linked, s.block, cells)
           one == Append(s.images, data)
           two == s.images \o <<linked, data2>>
<1>1. /\ s \in LoopStates /\ Len(s.images) >= 1 /\ used \subseteq s.bitmap
      /\ \A i \in 1..Len(s.images) : SameNames(d, s.images[i])
      /\ s.md.filename = d.md[s.block].filename
      BY DEF NamedLoop
<1>2. /\ s.bitmap \in SUBSET Blocks /\ s.block \in Blocks /\ s.md \in metadata
      /\ s.images \in Seq(Image)
      BY <1>1 DEF LoopStates
<1>3. e \in Image /\ SameNames(d, e)
      BY <1>1, LastImage
<1>4. \/ s.failed /\ u = s
      \/ ~s.failed /\ s.md.next # 0 /\ u = Advanced(s, one, s.md.next, e.md[s.md.next])
      \/ ~s.failed /\ u = WithFailure(s)
      \/ ~s.failed /\ s.bitmap # Blocks /\ s.md.next = 0
         /\ u = Extended(s, two, s.bitmap \cup {b}, b, ZeroMetadata)
      BY Zenon DEF WriteBlock, WithFailure, Advanced, Extended, RecordAfterLink
<1> HIDE DEF e
<1>5. SameNames(d, data)
      BY <1>2, <1>3, SameNamesPut
<1> HIDE DEF data
<1>6. data \in Image
      BY <1>5 DEF SameNames
<1>7. CASE u = s
      BY <1>7
<1>8. CASE s.md.next # 0 /\ u = Advanced(s, one, s.md.next, e.md[s.md.next])
  <2> DEFINE c == s.md.next
  <2>1. c \in Blocks
        BY <1>2, <1>8 DEF metadata
  <2> HIDE DEF c
  <2>2. e.md[c] \in metadata /\ e.md[c].filename = d.md[c].filename
        BY <1>3, <2>1, ImageParts DEF SameNames
  <2>3. /\ one \in Seq(Image) /\ Len(one) = Len(s.images) + 1
        /\ \A i \in 1..Len(one) : \/ i \in 1..Len(s.images) /\ one[i] = s.images[i]
                                  \/ i = Len(one) /\ one[i] = data
        BY <1>2, <1>6, MoreImages
  <2> HIDE DEF one
  <2>4. u = Advanced(s, one, c, e.md[c])
        BY <1>8 DEF c
  <2>5. /\ u \in LoopStates /\ u.images = one /\ u.bitmap = s.bitmap
        /\ u.block = c /\ u.md = e.md[c]
        BY <1>1, <2>1, <2>2, <2>3, <2>4, LoopAdvanced
  <2>6. \A i \in 1..Len(one) : SameNames(d, one[i])
        BY <1>1, <1>5, <2>3
  <2>7. Len(one) >= 1
        BY <1>1, <1>2, <2>3
  <2>. QED  BY <1>1, <2>2, <2>5, <2>6, <2>7 DEF NamedLoop
<1>9. CASE u = WithFailure(s)
  <2>1. /\ u \in LoopStates /\ u.images = s.images /\ u.bitmap = s.bitmap
        /\ u.block = s.block /\ u.md = s.md
        BY <1>1, <1>9, LoopFailed
  <2>. QED  BY <1>1, <2>1 DEF NamedLoop
<1>10. CASE s.bitmap # Blocks /\ u = Extended(s, two, s.bitmap \cup {b}, b, ZeroMetadata)
  <2>1. b \in Blocks \ s.bitmap
        BY <1>2, <1>10, NextAvailable
  <2> HIDE DEF b
  <2>2. Linked(s.md, b) \in metadata /\ Linked(s.md, b).filename = s.md.filename
        BY <1>2, <2>1, LinkedType
  <2>3. SameNames(d, linked)
        BY <1>1, <1>2, <1>3, <2>2, SameNamesPut
  <2> HIDE DEF linked
  <2>4. SameNames(d, data2)
        BY <1>2, <2>3, SameNamesPut
  <2> HIDE DEF data2
  <2>5. linked \in Image /\ data2 \in Image
        BY <2>3, <2>4 DEF SameNames
  <2>6. /\ two \in Seq(Image) /\ Len(two) = Len(s.images) + 2
        /\ \A i \in 1..Len(two) : \/ i \in 1..Len(s.images) /\ two[i] = s.images[i]
                                  \/ i = Len(two) - 1 /\ two[i] = linked
                                  \/ i = Len(two) /\ two[i] = data2
        BY <1>2, <2>5, MoreImages
  <2> HIDE DEF two
  <2>7. ZeroMetadata \in metadata /\ ZeroMetadata.filename = NoName
        BY <2>1, <1>2, LinkedType
  <2>8. s.bitmap \cup {b} \in SUBSET Blocks /\ b \in Blocks
        BY <1>2, <2>1
  <2>9. /\ u \in LoopStates /\ u.images = two /\ u.bitmap = s.bitmap \cup {b}
        /\ u.block = b /\ u.md = ZeroMetadata
    <3> DEFINE more == s.bitmap \cup {b}
    <3>1. more \in SUBSET Blocks /\ u = Extended(s, two, more, b, ZeroMetadata)
          BY <1>10, <2>8
    <3> HIDE DEF more
    <3>2. /\ u \in LoopStates /\ u.images = two /\ u.bitmap = more
          /\ u.block = b /\ u.md = ZeroMetadata
          BY <1>1, <2>6, <2>7, <2>8, <3>1, LoopExtended
    <3>. QED  BY <3>2 DEF more
  <2>10. \A i \in 1..Len(two) : SameNames(d, two[i])
        BY <1>1, <2>3, <2>4, <2>6
  <2>11. d.md[b].filename = NoName
        BY <1>1, <2>1 DEF NamesSound
  <2>12. Len(two) >= 1
        BY <1>1, <1>2, <2>6
  <2>. QED  BY <1>1, <2>7, <2>9, <2>10, <2>11, <2>12 DEF NamedLoop
<1>. QED  BY <1>4, <1>7, <1>8, <1>9, <1>10

\* Where hello_write's loop begins.
Sized(md, size) == [md EXCEPT !.file_size = size]

LoopStart(d, used, start, size) ==
    [images |-> <<PutMetadata(d, start, Sized(d.md[start], size))>>, bitmap |-> used,
     block |-> start, md |-> Sized(d.md[start], size), failed |-> FALSE]

LEMMA SizedType ==
    ASSUME NEW md \in metadata, NEW size \in Nat
    PROVE  /\ Sized(md, size) \in metadata /\ Sized(md, size).filename = md.filename
           /\ Sized(md, size).next = md.next /\ Sized(md, size).file_size = size
BY DEF metadata, Sized

LEMMA LoopStartFacts ==
    ASSUME NEW d \in Image, NEW used \in SUBSET Blocks, NEW start \in Blocks, NEW size \in Nat,
           NEW s, s = LoopStart(d, used, start, size)
    PROVE  LET md == Sized(d.md[start], size)
               e == PutMetadata(d, start, md)
           IN  /\ s \in LoopStates /\ Len(s.images) = 1 /\ s.images[1] = e
               /\ s.bitmap = used /\ s.block = start /\ s.md = md /\ ~s.failed
<1> DEFINE md == Sized(d.md[start], size)
           e == PutMetadata(d, start, md)
<1>1. md \in metadata
      BY ImageParts, SizedType
<1>2. s = [images |-> <<e>>, bitmap |-> used, block |-> start, md |-> md, failed |-> FALSE]
      BY DEF LoopStart
<1>3. e \in Image
  <2> HIDE DEF md
  <2>. QED  BY <1>1, PutMetadataFacts
<1> HIDE DEF md, e
<1>4. <<e>> \in Seq(Image) /\ Len(<<e>>) = 1 /\ <<e>>[1] = e
      BY <1>3
<1>5. s \in LoopStates
      BY <1>1, <1>2, <1>4 DEF LoopStates
<1>6. /\ s.images = <<e>> /\ s.bitmap = used /\ s.block = start /\ s.md = md
      /\ ~s.failed
      BY <1>2
<1>. QED  BY <1>4, <1>5, <1>6 DEF md, e

LEMMA NamedStart ==
    ASSUME NEW d \in Image, NEW used \in SUBSET Blocks, NEW start \in Blocks, NEW size \in Nat
    PROVE  NamedLoop(d, used, LoopStart(d, used, start, size))
<1> DEFINE s == LoopStart(d, used, start, size)
           md == Sized(d.md[start], size)
           e == PutMetadata(d, start, md)
<1>1. /\ s \in LoopStates /\ Len(s.images) = 1 /\ s.images[1] = e
      /\ s.bitmap = used /\ s.block = start /\ s.md = md
      BY LoopStartFacts
<1>2. md \in metadata /\ md.filename = d.md[start].filename
      BY ImageParts, SizedType
<1> HIDE DEF s, md
<1>3. SameNames(d, d)
      BY DEF SameNames
<1>4. SameNames(d, e)
      BY <1>2, <1>3, SameNamesPut
<1> HIDE DEF e
<1>5. \A i \in 1..Len(s.images) : SameNames(d, s.images[i])
      BY <1>1, <1>4
<1>6. NamedLoop(d, used, s)
      BY <1>1, <1>2, <1>5 DEF NamedLoop
<1>. QED  BY <1>6 DEF s

LEMMA PartType ==
    ASSUME NEW buffer \in Seq(Units), NEW a \in Int, NEW b \in Int, a >= 1, b <= Len(buffer),
           NEW p, p = SubSeq(buffer, a, b)
    PROVE  /\ p \in Seq(Units)
           /\ a <= b + 1 => Len(p) = b - a + 1
           /\ \A k \in 1..b - a + 1 : p[k] = buffer[a + k - 1]
<1>1. Len(buffer) \in Nat /\ \A i \in 1..Len(buffer) : buffer[i] \in Units
      BY ElementOfSeq
<1>2. p = [k \in 1..b - a + 1 |-> buffer[k + a - 1]]
      OBVIOUS
<1>3. \A k \in 1..b - a + 1 : k + a - 1 \in 1..Len(buffer) /\ k + a - 1 = a + k - 1
      BY <1>1
<1>. QED  BY <1>1, <1>2, <1>3
\* hello_write, in the terms used here.
WriteEnd(d, used, start, offset, buf) ==
    WriteBlocks(LoopStart(d, used, start, offset + Len(buf)),
                WriteBuffer(d, Chain(d, start), offset, buf),
                ((offset + Len(buf)) - 1) \div USABLE_SPACE)

Rest(d, start, offset, buf) ==
    SubSeq(WriteBuffer(d, Chain(d, start), offset, buf),
           (((offset + Len(buf)) - 1) \div USABLE_SPACE) * USABLE_SPACE + 1, offset + Len(buf))

Outcome(d, start, offset, buf, s) ==
    [images |-> IF s.failed THEN s.images ELSE FinishWrite(s, Rest(d, start, offset, buf)),
     bitmap |-> s.bitmap,
     enomem |-> s.failed]

LEMMA HelloWriteIs ==
    ASSUME NEW d, NEW used, NEW n, NEW offset, NEW buf
    PROVE  hello_write(d, used, n, offset, buf) =
             Outcome(d, FileStart(d, used, n), offset, buf,
                     WriteEnd(d, used, FileStart(d, used, n), offset, buf))
BY Zenon DEF hello_write, WriteEnd, LoopStart, Sized, Rest, Outcome

\* A write that is all in the file: its size, its whole blocks, and the parts of
\* the buffer that go into each.
LEMMA WriteNumbers ==
    ASSUME NEW offset \in Nat, NEW buf \in Requests
    PROVE  LET size == offset + Len(buf)
               full == (size - 1) \div USABLE_SPACE
           IN  /\ size \in Nat \ {0} /\ full \in Nat
               /\ full * USABLE_SPACE \in Nat
               /\ full * USABLE_SPACE < size /\ size <= full * USABLE_SPACE + USABLE_SPACE
<1> DEFINE size == offset + Len(buf)
           full == (size - 1) \div USABLE_SPACE
           U == USABLE_SPACE
<1>1. buf \in Seq(Cells) \ {<<>>} /\ U \in Nat \ {0}
      BY HelloNumbers
<1>2. Len(buf) \in Nat \ {0}
      BY <1>1
<1>3. size \in Nat \ {0}
      BY <1>2
<1>4. full \in Int /\ full * U <= size - 1 /\ size - 1 < full * U + U
  <2> DEFINE n == size - 1
  <2>1. n \in Nat /\ full = n \div U
        BY <1>3
  <2> HIDE DEF n, U, full
  <2>2. full \in Nat /\ full * U <= n /\ n < full * U + U
        BY <1>1, <2>1, Quotient
  <2>. QED  BY <2>2 DEF n
<1> HIDE DEF full
<1>5. full >= 0
  <2>1. SUFFICES ASSUME full <= -1 PROVE FALSE
        BY <1>4
  <2>2. (-1 - full) * U >= 0 /\ (-1 - full) * U = -U - full * U
        BY <1>1, <1>4, <2>1
  <2> DEFINE a == full * U
  <2>3. a \in Int /\ size - 1 < a + U /\ -U - a >= 0
        BY <1>1, <1>4, <2>2
  <2> HIDE DEF a, U, size
  <2>. QED  BY <1>1, <1>3, <2>3
<1>6. full * U \in Nat
      BY <1>1, <1>4, <1>5
<1> HIDE DEF size, U
<1>7. full * U < size /\ size <= full * U + U
  <2> DEFINE a == full * U
  <2>1. a \in Nat /\ a <= size - 1 /\ size - 1 < a + U
        BY <1>4, <1>6
  <2> HIDE DEF a
  <2>2. a < size /\ size <= a + U
        BY <1>1, <1>3, <2>1
  <2>. QED  BY <2>2 DEF a
<1>. QED  BY <1>3, <1>4, <1>5, <1>6, <1>7 DEF size, U, full

\* A row of the image that holds the k-th part of buffer.
HoldsPart(row, buffer, k) ==
    \A j \in 1..USABLE_SPACE : row[j] = buffer[(k - 1) * USABLE_SPACE + j]

LEMMA TurnCells ==
    ASSUME NEW buffer \in Seq(Units), NEW n \in Nat, n * USABLE_SPACE <= Len(buffer),
           NEW k \in 1..n, NEW cells, cells = Part(buffer, k)
    PROVE  cells \in Seq(Units) /\ Len(cells) = USABLE_SPACE /\ HoldsPart(cells, buffer, k)
<1> DEFINE U == USABLE_SPACE
           a == (k - 1) * U
           b == k * U
           c == n * U
<1>1. U \in Nat \ {0}
      BY HelloNumbers
<1>2. a \in Nat /\ b \in Int /\ b = a + U
      BY <1>1
<1>3. b <= c /\ c \in Nat
  <2>1. (n - k) * U >= 0 /\ (n - k) * U = c - b
        BY <1>1
  <2>. QED  BY <1>1, <1>2, <2>1
<1>4. cells = SubSeq(buffer, a + 1, b) /\ c <= Len(buffer)
      BY DEF Part
<1> HIDE DEF U, a, b, c
<1>5. /\ cells \in Seq(Units) /\ (a + 1 <= b + 1 => Len(cells) = b - (a + 1) + 1)
      /\ \A j \in 1..b - (a + 1) + 1 : cells[j] = buffer[a + 1 + j - 1]
  <2>1. a + 1 \in Int /\ b \in Int /\ a + 1 >= 1 /\ b <= Len(buffer)
        BY <1>2, <1>3, <1>4
  <2> DEFINE f == a + 1
  <2>2. cells = SubSeq(buffer, f, b)
        BY <1>4
  <2>3. f = a + 1
        OBVIOUS
  <2> HIDE DEF f
  <2>4. f \in Int /\ f >= 1
        BY <2>1, <2>3
  <2>5. /\ cells \in Seq(Units) /\ (f <= b + 1 => Len(cells) = b - f + 1)
        /\ \A j \in 1..b - f + 1 : cells[j] = buffer[f + j - 1]
    <3>1. buffer \in Seq(Units)
          OBVIOUS
    <3>. QED  BY <2>1, <2>2, <2>4, <3>1, PartType
  <2>. QED  BY <2>5, <2>3
<1>6. Len(cells) = U
      BY <1>1, <1>2, <1>5
<1>7. \A j \in 1..U : cells[j] = buffer[a + j]
      BY <1>1, <1>2, <1>5
<1>. QED  BY <1>5, <1>6, <1>7 DEF U, a, HoldsPart

\* The cells of the blocks that the loop writes.
WholeBlocks(size) == ((size - 1) \div USABLE_SPACE) * USABLE_SPACE
HoldsFrom(cells, buffer, a) == \A j \in 1..Len(cells) : cells[j] = buffer[a + j]

LEMMA RestCells ==
    ASSUME NEW d \in Image, NEW start \in Blocks, NEW offset \in Nat, NEW buf \in Requests,
           NEW size, size = offset + Len(buf),
           NEW a, a = WholeBlocks(size),
           NEW buffer, buffer = WriteBuffer(d, Chain(d, start), offset, buf),
           NEW cells, cells = Rest(d, start, offset, buf)
    PROVE  cells \in Seq(Units) /\ Len(cells) = size - a /\ HoldsFrom(cells, buffer, a)
<1> DEFINE f == a + 1
<1>1. buffer \in Seq(Units) /\ Len(buffer) = size
      BY HelloNumbers, BufferType
<1>2. size \in Nat \ {0} /\ a \in Nat /\ a < size
      BY WriteNumbers DEF WholeBlocks
<1>3. cells = SubSeq(buffer, f, size) /\ f = a + 1
      BY Zenon DEF Rest, WholeBlocks
<1> HIDE DEF f
<1>4. /\ buffer \in Seq(Units) /\ Len(buffer) = size /\ size \in Nat /\ a \in Nat /\ a < size
      /\ f = a + 1 /\ f \in Int /\ f >= 1 /\ size \in Int /\ size <= Len(buffer)
      /\ f <= size + 1 /\ cells = SubSeq(buffer, f, size)
  <2>1. f = a + 1
        BY <1>3
  <2>2. f \in Int /\ f >= 1 /\ f <= size + 1 /\ size \in Int /\ size <= Len(buffer)
        BY ONLY <1>1, <1>2, <2>1
  <2>. QED  BY <1>1, <1>2, <1>3, <2>2
<1>5. /\ cells \in Seq(Units) /\ Len(cells) = size - f + 1
      /\ \A j \in 1..size - f + 1 : cells[j] = buffer[f + j - 1]
      BY ONLY <1>4, PartType
<1>6. Len(cells) = size - a
      BY ONLY <1>4, <1>5
<1>7. \A j \in 1..Len(cells) : cells[j] = buffer[a + j]
  <2>1. \A j \in 1..Len(cells) : j \in 1..size - f + 1 /\ f + j - 1 = a + j
        BY ONLY <1>4, <1>5
  <2>. QED  BY ONLY <1>5, <2>1
<1>. QED  BY <1>5, <1>6, <1>7 DEF HoldsFrom

LEMMA FinishWriteFacts ==
    ASSUME NEW s \in LoopStates, Len(s.images) >= 1, NEW cells \in Seq(Units),
           NEW images, images = FinishWrite(s, cells)
    PROVE  LET e == PutData(Last(s.images), s.block, cells)
               f == PutBitmap(e, s.bitmap)
           IN  /\ images \in Seq(Image) /\ Len(images) = Len(s.images) + 2
               /\ images[Len(images)] = f
               /\ e \in Image /\ f \in Image
               /\ \A i \in 1..Len(images) : \/ i \in 1..Len(s.images) /\ images[i] = s.images[i]
                                            \/ i = Len(images) - 1 /\ images[i] = e
                                            \/ i = Len(images) /\ images[i] = f
<1> DEFINE e == PutData(Last(s.images), s.block, cells)
           f == PutBitmap(e, s.bitmap)
<1>1. Last(s.images) \in Image /\ s.block \in Blocks /\ s.bitmap \in SUBSET Blocks
      /\ s.images \in Seq(Image)
      BY LastImage DEF LoopStates
<1>2. e \in Image
  <2> DEFINE l == Last(s.images)
  <2> HIDE DEF l
  <2>1. PutData(l, s.block, cells) \in Image
        BY <1>1, PutDataFacts DEF l
  <2>. QED  BY <2>1 DEF l
<1>3. images = s.images \o <<e, f>>
      BY Zenon DEF FinishWrite, PutBitmap
<1> HIDE DEF e
<1>4. f \in Image
      BY <1>1, <1>2, PutBitmapFacts
<1> HIDE DEF f
<1>5. /\ images \in Seq(Image) /\ Len(images) = Len(s.images) + 2
      /\ images[Len(images)] = f
      /\ \A i \in 1..Len(images) : \/ i \in 1..Len(s.images) /\ images[i] = s.images[i]
                                   \/ i = Len(images) - 1 /\ images[i] = e
                                   \/ i = Len(images) /\ images[i] = f
      BY <1>1, <1>2, <1>3, <1>4, MoreImages
<1>. QED  BY <1>2, <1>4, <1>5 DEF e, f

LEMMA NamedLoopEnds ==
    ASSUME NEW d \in Image, NamesSound(d), NEW used \in SUBSET Blocks, d.bitmap \subseteq used,
           NEW start \in Blocks, NEW offset \in Nat, NEW buf \in Requests,
           NEW s, s = WriteEnd(d, used, start, offset, buf)
    PROVE  NamedLoop(d, used, s)
<1> DEFINE buffer == WriteBuffer(d, Chain(d, start), offset, buf)
           size == offset + Len(buf)
           n == (size - 1) \div USABLE_SPACE
           s0 == LoopStart(d, used, start, size)
<1>1. /\ size \in Nat \ {0} /\ n \in Nat /\ n * USABLE_SPACE < size
      /\ n * USABLE_SPACE \in Nat
      BY WriteNumbers
<1>2. buffer \in Seq(Units) /\ Len(buffer) = size
      BY HelloNumbers, BufferType
<1>3. s = WriteBlocks(s0, buffer, n)
      BY Zenon DEF WriteEnd
<1>4. NamedLoop(d, used, s0)
      BY <1>1, NamedStart
<1> HIDE DEF buffer, s0, n, size
<1>12. PICK t : RunsThrough(t, s0, buffer, n)
      BY <1>1, WriteBlocksTurns
<1>5. /\ WriteBlocks(s0, buffer, n) = t[n] /\ t[0] = s0
      /\ \A k \in 1..n : t[k] = Turn(t[k - 1], buffer, k)
      BY <1>12 DEF RunsThrough
<1>6. n * USABLE_SPACE <= Len(buffer)
      BY <1>1, <1>2
<1> DEFINE S == {k \in Nat : k <= n => NamedLoop(d, used, t[k])}
<1>7. 0 \in S
      BY <1>4, <1>5
<1>8. ASSUME NEW k \in S PROVE k + 1 \in S
  <2>1. CASE k + 1 <= n
    <3> DEFINE l == k + 1
               cells == Part(buffer, l)
    <3>1. l \in 1..n /\ l - 1 = k /\ NamedLoop(d, used, t[k])
          BY <1>1, <2>1
    <3>2. t[l] = WriteBlock(t[k], cells)
          BY <1>5, <3>1 DEF Turn
    <3> HIDE DEF l
    <3>3. cells \in Seq(Units)
          BY <1>1, <1>2, <1>6, <3>1, TurnCells
    <3> HIDE DEF cells
    <3>4. NamedLoop(d, used, t[l])
          BY <3>1, <3>2, <3>3, NamedTurn
    <3>. QED  BY <3>4 DEF l
  <2>. QED  BY <1>1, <2>1
<1> HIDE DEF S
<1>9. S \in SUBSET Nat
      BY DEF S
<1>10. n \in S
      BY <1>1, <1>7, <1>8, <1>9, EveryNumber
<1>11. NamedLoop(d, used, t[n])
      BY <1>1, <1>10 DEF S
<1>. QED  BY <1>3, <1>5, <1>11

\* What a write leaves, whether it is finished, fails or is killed.
WriteNames(d, used, r) ==
    /\ r.images \in Seq(Image) /\ Len(r.images) >= 1
    /\ r.bitmap \subseteq Blocks /\ used \subseteq r.bitmap
    /\ \A i \in 1..Len(r.images) :
          /\ r.images[i] \in Image /\ r.images[i].bitmap \in {d.bitmap, r.bitmap}
          /\ \A b \in Blocks : r.images[i].md[b].filename = d.md[b].filename

LEMMA WriteKeepsNames ==
    ASSUME NEW d \in Image, NamesSound(d), NEW used \in SUBSET Blocks, d.bitmap \subseteq used,
           NEW n, FileStart(d, used, n) # 0, NEW offset \in Nat, NEW buf \in Requests,
           NEW r, r = hello_write(d, used, n, offset, buf)
    PROVE  WriteNames(d, used, r)
<1> DEFINE start == FileStart(d, used, n)
           s == WriteEnd(d, used, start, offset, buf)
           rest == Rest(d, start, offset, buf)
<1>1. start \in Blocks
      BY FileStartFacts
<1>2. r = Outcome(d, start, offset, buf, s)
      BY HelloWriteIs
<1> HIDE DEF start
<1>3. NamedLoop(d, used, s)
      BY <1>1, NamedLoopEnds
<1>4. rest \in Seq(Units)
      BY <1>1, RestCells
<1>5. r.images = (IF s.failed THEN s.images ELSE FinishWrite(s, rest)) /\ r.bitmap = s.bitmap
      BY <1>2 DEF Outcome
<1> HIDE DEF s, rest
<1>6. /\ s \in LoopStates /\ Len(s.images) >= 1 /\ used \subseteq s.bitmap
      /\ \A i \in 1..Len(s.images) : SameNames(d, s.images[i])
      BY <1>3 DEF NamedLoop
<1>7. s.images \in Seq(Image) /\ s.block \in Blocks /\ s.bitmap \subseteq Blocks
      BY <1>6 DEF LoopStates
<1>8. CASE s.failed
      BY <1>5, <1>6, <1>7, <1>8 DEF WriteNames, SameNames
<1>9. CASE ~s.failed
  <2> DEFINE l == Last(s.images)
             e == PutData(l, s.block, rest)
             f == PutBitmap(e, s.bitmap)
             images == FinishWrite(s, rest)
  <2>1. /\ images \in Seq(Image) /\ Len(images) = Len(s.images) + 2
        /\ e \in Image /\ f \in Image
        /\ \A i \in 1..Len(images) : \/ i \in 1..Len(s.images) /\ images[i] = s.images[i]
                                     \/ i = Len(images) - 1 /\ images[i] = e
                                     \/ i = Len(images) /\ images[i] = f
        BY <1>4, <1>6, FinishWriteFacts
  <2>2. r.images = images
        BY <1>5, <1>9
  <2> HIDE DEF images
  <2>3. SameNames(d, l)
        BY <1>6, LastImage
  <2> HIDE DEF l
  <2>4. SameNames(d, e)
        BY <1>4, <1>7, <2>3, SameNamesPut
  <2> HIDE DEF e
  <2>5. f.bitmap = s.bitmap /\ f.md = e.md
        BY <1>7, <2>1, PutBitmapFacts
  <2> HIDE DEF f
  <2>6. \A b \in Blocks : f.md[b].filename = d.md[b].filename
        BY <2>4, <2>5 DEF SameNames
  <2>7. ASSUME NEW i \in 1..Len(images)
        PROVE  /\ images[i] \in Image /\ images[i].bitmap \in {d.bitmap, s.bitmap}
               /\ \A b \in Blocks : images[i].md[b].filename = d.md[b].filename
    <3>1. CASE i \in 1..Len(s.images) /\ images[i] = s.images[i]
          BY <1>6, <3>1 DEF SameNames
    <3>2. CASE images[i] = e
          BY <2>4, <3>2 DEF SameNames
    <3>3. CASE images[i] = f
          BY <2>1, <2>5, <2>6, <3>3
    <3>. QED  BY <2>1, <3>1, <3>2, <3>3
  <2>8. Len(images) >= 1
        BY <1>6, <1>7, <2>1
  <2>. QED  BY <1>5, <1>6, <1>7, <2>1, <2>2, <2>7, <2>8 DEF WriteNames
<1>. QED  BY <1>8, <1>9
-----------------------------------------------------------------------------
(* Every call, and every daemon killed inside one, keeps the names *)

NamesInv ==
    /\ disk \in Image /\ disk.bitmap \subseteq bitmap /\ bitmap \subseteq Blocks
    /\ NamesSound(disk)

\* A name that a block has in d it has in e.
NamesKept(d, e) ==
    /\ e \in Image /\ d.bitmap \subseteq e.bitmap /\ NamesSound(e)
    /\ \A b \in Blocks : d.md[b].filename # NoName => e.md[b].filename = d.md[b].filename

LEMMA NamesKeptSame ==
    ASSUME NEW d, NamesSound(d), NEW e \in Image, d.bitmap \subseteq e.bitmap,
           \A b \in Blocks : e.md[b].filename = d.md[b].filename
    PROVE  NamesKept(d, e)
BY DEF NamesKept, NamesSound

\* The image a call that returns leaves.
LEMMA ReturnImage ==
    ASSUME NEW d \in Image, NEW images \in Seq(Image), NEW e, e = Last(<<d>> \o images)
    PROVE  e = IF Len(images) = 0 THEN d ELSE images[Len(images)]
<1> DEFINE all == <<d>> \o images
<1>1. Len(images) \in Nat /\ Len(all) = Len(images) + 1
      OBVIOUS
<1>2. \A i \in 1..Len(images) : all[i + 1] = images[i]
      OBVIOUS
<1>3. all[1] = d
      OBVIOUS
<1>4. e = all[Len(all)]
      BY DEF Last
<1> HIDE DEF all
<1>. QED  BY <1>1, <1>2, <1>3, <1>4

\* hello_create in the terms used here.
Fresh(n) == [filename |-> n, file_size |-> 0, next |-> 0]

LEMMA CreateCases ==
    ASSUME NEW d \in Image, NEW n \in Names \cup LongNames, NEW r, r = hello_create(d, n),
           NEW b, b = NextAvailableBlock(d.bitmap),
           NEW saved, saved = PutBitmap(d, d.bitmap \cup {b}),
           NEW e, e = PutMetadata(saved, b, Fresh(n))
    PROVE  \/ r.images = <<>> /\ r.bitmap = d.bitmap
           \/ /\ Entries(d, d.bitmap, n) = {} /\ b \in Blocks \ d.bitmap
              /\ saved \in Image /\ saved.bitmap = d.bitmap \cup {b}
              /\ saved.md = d.md /\ saved.data = d.data
              /\ r.bitmap = saved.bitmap
              /\ \/ n \in LongNames /\ r.images = <<saved>>
                 \/ n \in Names /\ n \notin LongNames /\ r.images = <<saved, e>> /\ e \in Image
                    /\ e.bitmap = saved.bitmap /\ e.data = d.data /\ e.md[b] = Fresh(n)
                    /\ \A c \in Blocks \ {b} : e.md[c] = d.md[c]
<1>1. r = IF Entries(d, d.bitmap, n) # {} \/ d.bitmap = Blocks
          THEN [images |-> <<>>, bitmap |-> d.bitmap]
          ELSE [images |-> IF n \in LongNames THEN <<saved>> ELSE <<saved, e>>,
                bitmap |-> saved.bitmap]
  <2>1. saved = [d EXCEPT !.bitmap = d.bitmap \cup {NextAvailableBlock(d.bitmap)}]
        BY DEF PutBitmap
  <2>2. e = PutMetadata(saved, NextAvailableBlock(d.bitmap), [filename |-> n, file_size |-> 0, next |-> 0])
        BY DEF Fresh
  <2>. QED  BY <2>1, <2>2, Zenon DEF hello_create
<1>2. CASE Entries(d, d.bitmap, n) # {} \/ d.bitmap = Blocks
      BY <1>1, <1>2
<1>3. CASE Entries(d, d.bitmap, n) = {} /\ d.bitmap # Blocks
  <2>1. d.bitmap \in SUBSET Blocks
        BY ImageParts
  <2>2. b \in Blocks \ d.bitmap
        BY <1>3, <2>1, NextAvailable
  <2> DEFINE used == d.bitmap \cup {b}
  <2>3. used \in SUBSET Blocks
        BY <2>1, <2>2
  <2> HIDE DEF used
  <2>4. saved \in Image /\ saved.bitmap = used /\ saved.md = d.md /\ saved.data = d.data
        BY <2>3, PutBitmapFacts DEF used
  <2>5. r.bitmap = saved.bitmap /\ r.images = IF n \in LongNames THEN <<saved>> ELSE <<saved, e>>
        BY <1>1, <1>3
  <2>6. CASE n \in LongNames
        BY <1>3, <2>2, <2>4, <2>5, <2>6 DEF used
  <2>7. CASE n \notin LongNames
    <3>1. n \in Names /\ Fresh(n) \in metadata
          BY <2>7 DEF Fresh, metadata
    <3>2. /\ e \in Image /\ e.bitmap = saved.bitmap /\ e.data = saved.data /\ e.md[b] = Fresh(n)
          /\ \A c \in Blocks \ {b} : e.md[c] = saved.md[c]
      <4>1. e = PutMetadata(saved, b, Fresh(n)) /\ b \in Blocks /\ saved \in Image
            BY <2>2, <2>4
      <4>2. SUFFICES ASSUME NEW x, x = saved, NEW md, md = Fresh(n), NEW f, f = e
                     PROVE  /\ f \in Image /\ f.bitmap = x.bitmap /\ f.data = x.data
                            /\ f.md[b] = md /\ \A c \in Blocks \ {b} : f.md[c] = x.md[c]
            OBVIOUS
      <4>3. x \in Image /\ md \in metadata /\ f = PutMetadata(x, b, md) /\ b \in Blocks
            BY <3>1, <4>1, <4>2
      <4>. QED  BY ONLY <4>3, PutMetadataFacts
    <3>3. \A c \in Blocks \ {b} : e.md[c] = d.md[c]
          BY <2>4, <3>2
    <3>. QED  BY <1>3, <2>2, <2>4, <2>5, <2>7, <3>1, <3>2, <3>3 DEF used
  <2>. QED  BY <2>6, <2>7
<1>. QED  BY <1>2, <1>3

LEMMA CreateKeepsNames ==
    ASSUME NEW d \in Image, NamesSound(d), NEW n \in Names \cup LongNames,
           NEW r, r = hello_create(d, n)
    PROVE  /\ r.images \in Seq(Image)
           /\ \A i \in 1..Len(r.images) : NamesKept(d, r.images[i])
           /\ r.bitmap \subseteq Blocks /\ d.bitmap \subseteq r.bitmap
           /\ \A i \in 1..Len(r.images) : r.images[i].bitmap = r.bitmap
<1> DEFINE b == NextAvailableBlock(d.bitmap)
           saved == PutBitmap(d, d.bitmap \cup {b})
           e == PutMetadata(saved, b, Fresh(n))
<1>1. \/ r.images = <<>> /\ r.bitmap = d.bitmap
      \/ /\ Entries(d, d.bitmap, n) = {} /\ b \in Blocks \ d.bitmap
         /\ saved \in Image /\ saved.bitmap = d.bitmap \cup {b}
         /\ saved.md = d.md /\ r.bitmap = saved.bitmap
         /\ \/ n \in LongNames /\ r.images = <<saved>>
            \/ n \in Names /\ r.images = <<saved, e>> /\ e \in Image
               /\ e.bitmap = saved.bitmap /\ e.md[b] = Fresh(n)
               /\ \A c \in Blocks \ {b} : e.md[c] = d.md[c]
  <2> HIDE DEF b, saved, e
  <2>1. /\ b = NextAvailableBlock(d.bitmap) /\ saved = PutBitmap(d, d.bitmap \cup {b})
        /\ e = PutMetadata(saved, b, Fresh(n))
        BY Zenon DEF b, saved, e
  <2>. QED  BY <2>1, CreateCases
<1> HIDE DEF b, saved, e
<1>2. CASE r.images = <<>> /\ r.bitmap = d.bitmap
      BY <1>2, ImageParts
<1>3. CASE /\ Entries(d, d.bitmap, n) = {} /\ b \in Blocks \ d.bitmap
           /\ saved \in Image /\ saved.bitmap = d.bitmap \cup {b}
           /\ saved.md = d.md /\ r.bitmap = saved.bitmap
  <2>1. NamesKept(d, saved)
        BY <1>3, NamesKeptSame
  <2>2. CASE r.images = <<saved>>
    <3>1. r.images \in Seq(Image) /\ Len(r.images) = 1 /\ r.images[1] = saved
          BY <1>3, <2>2
    <3>. QED  BY <1>3, <2>1, <3>1, ImageParts
  <2>3. CASE /\ n \in Names /\ r.images = <<saved, e>> /\ e \in Image
             /\ e.bitmap = saved.bitmap /\ e.md[b] = Fresh(n)
             /\ \A c \in Blocks \ {b} : e.md[c] = d.md[c]
    <3>1. d.md[b].filename = NoName
          BY <1>3 DEF NamesSound
    <3>2. e.md[b].filename = n /\ n # NoName
          BY <2>3, HelloNumbers DEF Fresh
    <3>3. \A c \in Blocks : d.md[c].filename # n
          BY <1>3, <3>2 DEF NamesSound, Entries
    <3>4. NamesSound(e)
          BY <1>3, <2>3, <3>1, <3>2, <3>3 DEF NamesSound
    <3>5. NamesKept(d, e)
          BY <1>3, <2>3, <3>1, <3>4 DEF NamesKept
    <3>6. /\ r.images \in Seq(Image) /\ Len(r.images) = 2
          /\ r.images[1] = saved /\ r.images[2] = e
          BY <1>3, <2>3
    <3>7. \A i \in 1..Len(r.images) : i = 1 \/ i = 2
          BY <3>6
    <3>8. r.bitmap \subseteq Blocks
          BY <1>3, ImageParts
    <3>. QED  BY <1>3, <2>1, <2>3, <3>5, <3>6, <3>7, <3>8
  <2>. QED  BY <1>1, <1>2, <2>2, <2>3
<1>. QED  BY <1>1, <1>2, <1>3
LEMMA NamesNext ==
    ASSUME NamesInv, NamesKept(disk, disk'), disk'.bitmap \subseteq bitmap', bitmap' \subseteq Blocks
    PROVE  NamesInv'
BY DEF NamesInv, NamesKept, NamesSound, Image, Blocks, metadata

LEMMA NamesStay ==
    ASSUME NamesInv PROVE NamesKept(disk, disk) /\ disk.bitmap \in SUBSET Blocks
BY NamesKeptSame, ImageParts DEF NamesInv

LEMMA CreateNames ==
    ASSUME NamesInv, NEW n \in Names \cup LongNames, Create(n)
    PROVE  NamesInv' /\ NamesKept(disk, disk')
<1> DEFINE r == hello_create(disk, n)
<1>1. disk \in Image /\ NamesSound(disk)
      BY DEF NamesInv
<1>2. /\ r.images \in Seq(Image)
      /\ \A i \in 1..Len(r.images) : NamesKept(disk, r.images[i])
      /\ r.bitmap \subseteq Blocks /\ disk.bitmap \subseteq r.bitmap
      /\ \A i \in 1..Len(r.images) : r.images[i].bitmap = r.bitmap
      BY <1>1, CreateKeepsNames
<1>3. disk' = Last(<<disk>> \o r.images) /\ bitmap' = r.bitmap
      BY DEF Create, Return
<1> HIDE DEF r
<1>4. disk' = IF Len(r.images) = 0 THEN disk ELSE r.images[Len(r.images)]
      BY <1>1, <1>2, <1>3, ReturnImage
<1>5. CASE disk' = disk
      BY <1>2, <1>3, <1>5, NamesStay, NamesNext
<1>6. CASE Len(r.images) # 0 /\ disk' = r.images[Len(r.images)]
  <2>1. Len(r.images) \in 1..Len(r.images)
        BY <1>2, <1>6
  <2>2. NamesKept(disk, disk') /\ disk'.bitmap = r.bitmap
        BY <1>2, <1>6, <2>1
  <2>. QED  BY <1>2, <1>3, <2>2, NamesNext
<1>. QED  BY <1>4, <1>5, <1>6

LEMMA WriteAnyNames ==
    ASSUME NamesInv, NEW n, NEW offset \in Offsets, NEW buf \in Requests, Writable(n, offset, buf)
    PROVE  WriteNames(disk, bitmap, hello_write(disk, bitmap, n, offset, buf))
<1>1. disk \in Image /\ NamesSound(disk) /\ bitmap \in SUBSET Blocks /\ disk.bitmap \subseteq bitmap
      BY DEF NamesInv
<1>2. FileStart(disk, bitmap, n) # 0
      BY DEF Writable
<1>3. offset \in Nat
      BY HelloNumbers DEF Offsets
<1>. QED  BY <1>1, <1>2, <1>3, WriteKeepsNames

\* An image a write goes through, with the bitmap it leaves in memory or its own.
LEMMA WrittenNames ==
    ASSUME NamesInv, NEW r, WriteNames(disk, bitmap, r), NEW i \in 1..Len(r.images)
    PROVE  /\ NamesKept(disk, r.images[i])
           /\ r.images[i].bitmap \subseteq r.bitmap /\ r.bitmap \subseteq Blocks
<1>1. /\ r.images[i] \in Image /\ r.images[i].bitmap \in {disk.bitmap, r.bitmap}
      /\ \A b \in Blocks : r.images[i].md[b].filename = disk.md[b].filename
      /\ r.bitmap \subseteq Blocks /\ bitmap \subseteq r.bitmap
      BY DEF WriteNames
<1>2. NamesSound(disk) /\ disk.bitmap \subseteq bitmap
      BY DEF NamesInv
<1>3. disk.bitmap \subseteq r.images[i].bitmap /\ r.images[i].bitmap \subseteq r.bitmap
      BY <1>1, <1>2
<1>. QED  BY <1>1, <1>2, <1>3, NamesKeptSame

LEMMA WriteReturnsNames ==
    ASSUME NamesInv, NEW n \in Names, WriteAny(n)
    PROVE  NamesInv' /\ NamesKept(disk, disk')
<1>1. PICK offset \in Offsets, buf \in Requests : Write(n, offset, buf)
      BY DEF WriteAny
<1> DEFINE r == hello_write(disk, bitmap, n, offset, buf)
<1>2. WriteNames(disk, bitmap, r) /\ disk' = Last(<<disk>> \o r.images) /\ bitmap' = r.bitmap
      BY <1>1, WriteAnyNames DEF Write, Return
<1> HIDE DEF r
<1>3. r.images \in Seq(Image) /\ Len(r.images) >= 1 /\ disk \in Image
      BY <1>2 DEF WriteNames, NamesInv
<1>4. disk' = r.images[Len(r.images)] /\ Len(r.images) \in 1..Len(r.images)
      BY <1>2, <1>3, ReturnImage
<1>. QED  BY <1>2, <1>4, WrittenNames, NamesNext

LEMMA KilledNames ==
    ASSUME NamesInv, NEW n \in Names, CreateKilled(n) \/ WriteKilled(n)
    PROVE  NamesInv' /\ NamesKept(disk, disk')
<1>1. CASE CreateKilled(n)
  <2> DEFINE r == hello_create(disk, n)
  <2>1. PICK k \in 1..(Len(r.images) - 1) : disk' = r.images[k] /\ bitmap' = r.images[k].bitmap
        BY <1>1 DEF CreateKilled, Killed
  <2>2. disk \in Image /\ NamesSound(disk)
        BY DEF NamesInv
  <2>3. /\ r.images \in Seq(Image)
        /\ \A i \in 1..Len(r.images) : NamesKept(disk, r.images[i])
        BY <2>2, CreateKeepsNames
  <2> HIDE DEF r
  <2>4. k \in 1..Len(r.images)
        BY <2>3
  <2>5. NamesKept(disk, disk')
        BY <2>1, <2>3, <2>4
  <2>6. disk'.bitmap \subseteq Blocks
        BY <2>5, ImageParts DEF NamesKept
  <2>. QED  BY <2>1, <2>5, <2>6, NamesNext
<1>2. CASE WriteKilled(n)
  <2>1. PICK offset \in Offsets, buf \in Requests :
            Writable(n, offset, buf) /\ Killed(hello_write(disk, bitmap, n, offset, buf))
        BY <1>2 DEF WriteKilled
  <2> DEFINE r == hello_write(disk, bitmap, n, offset, buf)
  <2>2. PICK k \in 1..(Len(r.images) - 1) : disk' = r.images[k] /\ bitmap' = r.images[k].bitmap
        BY <2>1 DEF Killed
  <2>3. WriteNames(disk, bitmap, r)
        BY <2>1, WriteAnyNames
  <2> HIDE DEF r
  <2>4. k \in 1..Len(r.images)
        BY <2>3 DEF WriteNames
  <2>5. NamesKept(disk, disk') /\ disk'.bitmap \subseteq Blocks
        BY <2>2, <2>3, <2>4, WrittenNames
  <2>. QED  BY <2>2, <2>5, NamesNext
<1>. QED  BY <1>1, <1>2

LEMMA ReadNames ==
    ASSUME NamesInv, Getattr \/ \E n \in Names : Truncate(n)
    PROVE  NamesInv' /\ NamesKept(disk, disk') /\ disk' = disk
<1>1. disk' = disk /\ disk.bitmap \subseteq bitmap' /\ bitmap' \subseteq Blocks
  <2>1. CASE Getattr
        BY <2>1, NamesStay DEF Getattr
  <2>2. ASSUME NEW n \in Names, Truncate(n)
        PROVE  disk' = disk /\ disk.bitmap \subseteq bitmap' /\ bitmap' \subseteq Blocks
    <3>1. PICK size \in Sizes : Return(hello_truncate(disk, bitmap, n, size))
          BY <2>2 DEF Truncate
    <3> DEFINE r == hello_truncate(disk, bitmap, n, size)
    <3>2. r.images = <<>> /\ r.bitmap \in {bitmap, disk.bitmap, Blocks}
          BY DEF hello_truncate
    <3>3. disk' = Last(<<disk>> \o r.images) /\ bitmap' = r.bitmap
          BY <3>1 DEF Return
    <3> HIDE DEF r
    <3>4. <<>> \in Seq(Image) /\ Len(<<>>) = 0 /\ disk \in Image
          BY DEF NamesInv
    <3>5. disk' = disk
          BY <3>2, <3>3, <3>4, ReturnImage
    <3>6. disk.bitmap \subseteq bitmap /\ bitmap \subseteq Blocks
          BY DEF NamesInv
    <3>. QED  BY <3>2, <3>3, <3>5, <3>6
  <2>. QED  BY <2>1, <2>2
<1>. QED  BY <1>1, NamesStay, NamesNext

LEMMA NamesStep ==
    ASSUME NamesInv, [Keep \/ Kill]_vars
    PROVE  NamesInv' /\ NamesKept(disk, disk')
<1>1. CASE \E n \in Names \cup LongNames : Create(n)
      BY <1>1, CreateNames
<1>2. CASE \E n \in Names : WriteAny(n)
      BY <1>2, WriteReturnsNames
<1>3. CASE Getattr \/ \E n \in Names : Truncate(n)
      BY <1>3, ReadNames
<1>4. CASE Kill
      BY <1>4, KilledNames DEF Kill
<1>5. CASE UNCHANGED vars
  <2>1. disk' = disk /\ bitmap' = bitmap
        BY <1>5 DEF vars
  <2>2. disk.bitmap \subseteq bitmap /\ bitmap \subseteq Blocks
        BY DEF NamesInv
  <2>. QED  BY <2>1, <2>2, NamesStay, NamesNext
<1>. QED  BY <1>1, <1>2, <1>3, <1>4, <1>5 DEF Keep

LEMMA NamesInit ==
    ASSUME Init PROVE NamesInv
<1>1. NewImage \in Image
  <2>1. ZeroMetadata \in metadata
        BY DEF ZeroMetadata, metadata
  <2>. QED  BY <2>1 DEF NewImage, Image
<1>2. NamesSound(NewImage)
      BY DEF NamesSound, NewImage, ZeroMetadata
<1>3. NewImage.bitmap = {}
      BY DEF NewImage
<1>. QED  BY <1>1, <1>2, <1>3 DEF Init, NamesInv

THEOREM NamesAlwaysSound == KillSpec => []NamesInv
<1>1. NamesInv /\ [Keep \/ Kill]_vars => NamesInv'
      BY NamesStep
<1>. QED  BY <1>1, NamesInit, PTL DEF KillSpec

LEMMA NamedEntries ==
    ASSUME NEW d \in Image, NamesSound(d), NEW n \in Names
    PROVE  \/ Entries(d, d.bitmap, n) = {}
           \/ \E b \in Blocks : /\ b \in d.bitmap /\ d.md[b].filename = n
                                /\ Entries(d, d.bitmap, n) = {b}
                                /\ FileStart(d, d.bitmap, n) = b
<1> SUFFICES ASSUME NEW b \in Entries(d, d.bitmap, n)
             PROVE  /\ b \in Blocks /\ b \in d.bitmap /\ d.md[b].filename = n
                    /\ Entries(d, d.bitmap, n) = {b} /\ FileStart(d, d.bitmap, n) = b
    OBVIOUS
<1>1. b \in d.bitmap /\ b \in Blocks /\ d.md[b].filename = n /\ n # NoName
      BY ImageParts, HelloNumbers DEF Entries
<1>2. \A c \in d.bitmap : d.md[c].filename = n => c = b
      BY <1>1, ImageParts DEF NamesSound
<1>3. Entries(d, d.bitmap, n) = {b}
      BY <1>1, <1>2 DEF Entries
<1>4. Min({b}) = b
      BY <1>1, HelloNumbers, MinIsLeast
<1>. QED  BY <1>1, <1>3, <1>4 DEF FileStart

\* Whatever is interrupted, no two blocks in use carry one name, so what the
\* handlers stop at is the file: hello_create gives a name only to a block it
\* takes, after no block in use was found to carry it, and hello_write's
\* continuation records carry none.
THEOREM NamesStayApart == KillSpec => []OneEntryPerName
<1>1. NamesInv => OneEntryPerName
  <2> SUFFICES ASSUME NamesInv, NEW n \in Names
               PROVE  Cardinality(Entries(disk, disk.bitmap, n)) <= 1
      BY DEF OneEntryPerName
  <2>1. \/ Entries(disk, disk.bitmap, n) = {}
        \/ \E b \in Blocks : Entries(disk, disk.bitmap, n) = {b}
        BY NamedEntries DEF NamesInv
  <2>2. CASE Entries(disk, disk.bitmap, n) = {}
        BY <2>2, FS_EmptySet
  <2>3. ASSUME NEW b \in Blocks, Entries(disk, disk.bitmap, n) = {b}
        PROVE  Cardinality(Entries(disk, disk.bitmap, n)) <= 1
        BY <2>3, FS_Singleton
  <2>. QED  BY <2>1, <2>2, <2>3
<1>. QED  BY <1>1, NamesAlwaysSound, PTL

\* A file that exists keeps existing at its block through every call, returned
\* or killed: the bitmap is written with all that was in it, and the name of a
\* block in use is written only by hello_write, which keeps it.
THEOREM EntriesAlwaysStay == KillSpec => EntriesStay
<1>1. NamesInv /\ [Keep \/ Kill]_vars
        => [\A n \in Names : Exists(n) =>
              FileStart(disk', disk'.bitmap, n) = FileStart(disk, disk.bitmap, n)]_vars
  <2> SUFFICES ASSUME NamesInv, [Keep \/ Kill]_vars, NEW n \in Names, Exists(n)
               PROVE  FileStart(disk', disk'.bitmap, n) = FileStart(disk, disk.bitmap, n)
      OBVIOUS
  <2>1. NamesKept(disk, disk') /\ disk \in Image /\ NamesSound(disk)
        BY NamesStep DEF NamesInv
  <2>2. PICK b \in Blocks : b \in disk.bitmap /\ disk.md[b].filename = n
                            /\ FileStart(disk, disk.bitmap, n) = b
        BY <2>1, NamedEntries DEF Exists
  <2>3. b \in disk'.bitmap /\ disk'.md[b].filename = n
        BY <2>1, <2>2, HelloNumbers DEF NamesKept
  <2>4. disk' \in Image /\ NamesSound(disk')
        BY <2>1 DEF NamesKept
  <2> DEFINE e == disk'
  <2>5. PICK c \in Blocks : Entries(e, e.bitmap, n) = {c} /\ FileStart(e, e.bitmap, n) = c
    <3>1. b \in Entries(e, e.bitmap, n)
          BY <2>3 DEF Entries
    <3>. QED  BY <2>4, <3>1, NamedEntries
  <2>6. b = c
        BY <2>3, <2>5 DEF Entries
  <2>. QED  BY <2>2, <2>5, <2>6
<1>. QED  BY <1>1, NamesAlwaysSound, PTL DEF KillSpec, EntriesStay
-----------------------------------------------------------------------------
(* The links between blocks *)

\* A block that is linked from or to is in use; one that is linked to begins no
\* file and is linked to once.
LinksSound(d, used) ==
    \A b \in Blocks : d.md[b].next # 0 =>
        /\ b \in used /\ d.md[b].next \in used
        /\ d.md[d.md[b].next].filename = NoName
        /\ \A c \in Blocks : d.md[c].next = d.md[b].next => c = b

LEMMA LinkedTo ==
    ASSUME NEW d, NEW used, LinksSound(d, used), NEW x \in Blocks, NEW y \in Blocks,
           y = d.md[x].next
    PROVE  x \in used /\ y \in used /\ d.md[y].filename = NoName
<1>1. d.md[x].next # 0
      BY HelloNumbers
<1>. QED  BY <1>1 DEF LinksSound

LEMMA LinkedOnce ==
    ASSUME NEW d, NEW used, LinksSound(d, used), NEW x \in Blocks, NEW z \in Blocks,
           NEW y \in Blocks, y = d.md[x].next, y = d.md[z].next
    PROVE  z = x
<1>1. d.md[x].next # 0
      BY HelloNumbers
<1>. QED  BY <1>1 DEF LinksSound

\* c leads from block s as far as it goes.
IsChain(d, s, c) ==
    /\ c \in Seq(Blocks) /\ Len(c) \in 1..NUM_BLOCKS /\ c[1] = s
    /\ \A k \in 1..Len(c) - 1 : c[k + 1] = d.md[c[k]].next
    /\ Len(c) < NUM_BLOCKS => d.md[c[Len(c)]].next = 0

LEMMA FileChain ==
    ASSUME NEW d \in Image, NEW s \in Blocks
    PROVE  IsChain(d, s, Chain(d, s))
<1> DEFINE c == Chain(d, s)
<1>1. s # 0 /\ s \in Blocks \cup {0} /\ NUM_BLOCKS \in Nat
      BY HelloNumbers
<1>2. /\ c \in Seq(Blocks) /\ Len(c) \in 0..NUM_BLOCKS /\ Len(c) >= 1 /\ c[1] = s
      /\ \A k \in 1..Len(c) - 1 : c[k + 1] = d.md[c[k]].next
      /\ Len(c) < NUM_BLOCKS => d.md[c[Len(c)]].next = 0
      BY <1>1, ChainFacts
<1> HIDE DEF c
<1>3. IsChain(d, s, c)
      BY <1>1, <1>2 DEF IsChain
<1>. QED  BY <1>3 DEF c

\* Two chains that begin at files meet only if they are one.
LEMMA ChainsMeet ==
    ASSUME NEW d \in Image, NEW used, LinksSound(d, used),
           NEW s \in Blocks, d.md[s].filename # NoName, NEW c, c = Chain(d, s),
           NEW t \in Blocks, d.md[t].filename # NoName, NEW e, e = Chain(d, t),
           NEW i \in 1..Len(c), NEW j \in 1..Len(e), c[i] = e[j]
    PROVE  i = j /\ s = t
<1>1. /\ c \in Seq(Blocks) /\ c[1] = s /\ \A k \in 1..Len(c) - 1 : c[k + 1] = d.md[c[k]].next
      /\ e \in Seq(Blocks) /\ e[1] = t /\ \A k \in 1..Len(e) - 1 : e[k + 1] = d.md[e[k]].next
      /\ Len(c) \in Nat /\ Len(e) \in Nat /\ 0 \notin Blocks
  <2>1. 0 \notin Blocks
        BY HelloNumbers
  <2>2. c \in Seq(Blocks) /\ c[1] = s /\ \A k \in 1..Len(c) - 1 : c[k + 1] = d.md[c[k]].next
    <3>1. IsChain(d, s, c)
          BY FileChain
    <3>. QED  BY <3>1 DEF IsChain
  <2>3. e \in Seq(Blocks) /\ e[1] = t /\ \A k \in 1..Len(e) - 1 : e[k + 1] = d.md[e[k]].next
    <3>1. IsChain(d, t, e)
          BY FileChain
    <3>. QED  BY <3>1 DEF IsChain
  <2>. QED  BY <2>1, <2>2, <2>3
<1>2. /\ \A k \in 1..Len(c) : c[k] \in Blocks
      /\ \A k \in 1..Len(e) : e[k] \in Blocks
      BY <1>1, ElementOfSeq
<1>3. ASSUME NEW k \in 1..Len(c) - 1
      PROVE  d.md[c[k + 1]].filename = NoName
  <2>1. k \in 1..Len(c) /\ k + 1 \in 1..Len(c)
        BY <1>1
  <2>2. c[k] \in Blocks /\ c[k + 1] \in Blocks /\ c[k + 1] = d.md[c[k]].next
        BY <1>1, <1>2, <2>1
  <2>. QED  BY <2>2, LinkedTo
<1>4. ASSUME NEW k \in 1..Len(e) - 1
      PROVE  d.md[e[k + 1]].filename = NoName
  <2>1. k \in 1..Len(e) /\ k + 1 \in 1..Len(e)
        BY <1>1
  <2>2. e[k] \in Blocks /\ e[k + 1] \in Blocks /\ e[k + 1] = d.md[e[k]].next
        BY <1>1, <1>2, <2>1
  <2>. QED  BY <2>2, LinkedTo
<1>5. ASSUME NEW k \in 1..Len(c) - 1, NEW l \in 1..Len(e) - 1, c[k + 1] = e[l + 1]
      PROVE  c[k] = e[l]
  <2>1. k \in 1..Len(c) /\ k + 1 \in 1..Len(c) /\ l \in 1..Len(e)
        BY <1>1
  <2>2. /\ c[k] \in Blocks /\ c[k + 1] \in Blocks /\ c[k + 1] = d.md[c[k]].next
        /\ e[l] \in Blocks /\ e[l + 1] = d.md[e[l]].next
        BY <1>1, <1>2, <2>1
  <2> DEFINE x == c[k]
             y == c[k + 1]
             z == e[l]
  <2>3. x \in Blocks /\ y \in Blocks /\ z \in Blocks /\ y = d.md[x].next /\ y = d.md[z].next
        BY <1>5, <2>2
  <2> HIDE DEF x, y, z
  <2>4. z = x
        BY <2>3, LinkedOnce
  <2>. QED  BY <2>4 DEF x, z
<1> DEFINE S == {n \in Nat : n + 1 <= Len(c) =>
                   \A k \in 1..Len(e) : c[n + 1] = e[k] => k = n + 1 /\ s = t}
<1>6. 0 \in S
  <2> SUFFICES ASSUME NEW k \in 1..Len(e), c[1] = e[k] PROVE k = 1 /\ s = t
      OBVIOUS
  <2>1. CASE k = 1
        BY <1>1, <2>1
  <2>2. CASE k # 1
    <3> DEFINE l == k - 1
    <3>1. l \in 1..Len(e) - 1 /\ k = l + 1
          BY <1>1, <2>2
    <3> HIDE DEF l
    <3>. QED  BY <1>1, <1>4, <3>1
  <2>. QED  BY <2>1, <2>2
<1>7. ASSUME NEW n \in S PROVE n + 1 \in S
  <2> SUFFICES ASSUME n + 2 <= Len(c), NEW k \in 1..Len(e), c[n + 2] = e[k]
               PROVE  k = n + 2 /\ s = t
      OBVIOUS
  <2> DEFINE m == n + 1
  <2>1. m \in 1..Len(c) - 1 /\ n + 2 = m + 1 /\ m <= Len(c)
        BY <1>1
  <2>2. \A x \in 1..Len(e) : c[m] = e[x] => x = m /\ s = t
        BY <2>1
  <2> HIDE DEF m
  <2>3. CASE k = 1
        BY <1>1, <1>3, <2>1, <2>3
  <2>4. CASE k # 1
    <3> DEFINE l == k - 1
    <3>1. l \in 1..Len(e) - 1 /\ k = l + 1 /\ l \in 1..Len(e)
          BY <1>1, <2>4
    <3> HIDE DEF l
    <3>2. c[m] = e[l]
          BY <1>5, <2>1, <3>1
    <3>3. l = m /\ s = t
          BY <2>2, <3>1, <3>2
    <3>. QED  BY <2>1, <3>1, <3>3
  <2>. QED  BY <2>3, <2>4
<1> HIDE DEF S
<1>8. S \in SUBSET Nat
      BY DEF S
<1>9. i - 1 \in Nat /\ (i - 1) + 1 = i /\ i <= Len(c)
      BY <1>1
<1>10. i - 1 \in S
      BY <1>6, <1>7, <1>8, <1>9, EveryNumber
<1>. QED  BY <1>9, <1>10 DEF S

LEMMA ChainMarked ==
    ASSUME NEW d \in Image, NEW used, LinksSound(d, used), NEW s \in Blocks, s \in used,
           NEW c, c = Chain(d, s), NEW i \in 1..Len(c)
    PROVE  c[i] \in used
<1>1. /\ c \in Seq(Blocks) /\ c[1] = s /\ \A k \in 1..Len(c) - 1 : c[k + 1] = d.md[c[k]].next
      /\ Len(c) \in Nat /\ 0 \notin Blocks
      BY ChainFacts, HelloNumbers
<1>2. CASE i = 1
      BY <1>1, <1>2
<1>3. CASE i # 1
  <2> DEFINE k == i - 1
  <2>1. k \in 1..Len(c) - 1 /\ i = k + 1 /\ k \in 1..Len(c)
        BY <1>1, <1>3
  <2> HIDE DEF k
  <2>2. c[k] \in Blocks /\ c[i] \in Blocks /\ c[i] = d.md[c[k]].next
        BY <1>1, <2>1, ElementOfSeq
  <2>. QED  BY <2>2, LinkedTo
<1>. QED  BY <1>2, <1>3

LinksInv == NamesInv /\ LinksSound(disk, disk.bitmap)

LEMMA ChainOf ==
    ASSUME LinksInv, NEW n \in Names, Exists(n)
    PROVE  LET s == FileStart(disk, disk.bitmap, n)
           IN  s \in Blocks /\ s \in disk.bitmap /\ disk.md[s].filename = n /\ n # NoName
<1>1. disk \in Image /\ NamesSound(disk)
      BY DEF LinksInv, NamesInv
<1>2. n # NoName /\ Entries(disk, disk.bitmap, n) # {}
      BY HelloNumbers DEF Exists
<1>3. PICK b \in Blocks : b \in disk.bitmap /\ disk.md[b].filename = n
                          /\ FileStart(disk, disk.bitmap, n) = b
      BY <1>1, <1>2, NamedEntries
<1>. QED  BY <1>2, <1>3

LEMMA LinksApart ==
    ASSUME LinksInv PROVE StoreSound
<1> DEFINE Of(n) == IF Exists(n) THEN Chain(disk, FileStart(disk, disk.bitmap, n)) ELSE <<>>
<1>1. disk \in Image /\ LinksSound(disk, disk.bitmap) /\ TypeOK
      BY DEF LinksInv, NamesInv, TypeOK
<1>2. ASSUME NEW n \in Names PROVE Of(n) \in Seq(Blocks)
  <2>1. CASE Exists(n)
    <3>1. FileStart(disk, disk.bitmap, n) \in Blocks
          BY <2>1, ChainOf
    <3>. QED  BY <1>1, <2>1, <3>1, ChainFacts
  <2>. QED  BY <2>1
<1>3. ASSUME NEW n \in Names, NEW m \in Names, NEW i \in DOMAIN Of(n), NEW j \in DOMAIN Of(m),
             Of(n)[i] = Of(m)[j]
      PROVE  i = j /\ m = n
  <2>1. Exists(n) /\ Exists(m)
        BY <1>3
  <2> DEFINE s == FileStart(disk, disk.bitmap, n)
             t == FileStart(disk, disk.bitmap, m)
             c == Chain(disk, s)
             e == Chain(disk, t)
  <2>2. /\ s \in Blocks /\ disk.md[s].filename = n /\ n # NoName
        /\ t \in Blocks /\ disk.md[t].filename = m /\ m # NoName
        BY <2>1, ChainOf
  <2>3. Of(n) = c /\ Of(m) = e
        BY <2>1
  <2> HIDE DEF s, t
  <2>4. c \in Seq(Blocks) /\ e \in Seq(Blocks)
        BY <1>1, <2>2, ChainFacts
  <2> HIDE DEF c, e, Of
  <2>5. i \in 1..Len(c) /\ j \in 1..Len(e) /\ c[i] = e[j]
        BY <1>3, <2>3, <2>4
  <2>6. c = Chain(disk, s) /\ e = Chain(disk, t)
        BY DEF c, e
  <2>7. i = j /\ s = t
        BY <1>1, <2>2, <2>5, <2>6, ChainsMeet
  <2>. QED  BY <2>2, <2>7
<1>4. ASSUME NEW n \in Names, NEW i \in DOMAIN Of(n) PROVE Of(n)[i] \in disk.bitmap
  <2>1. Exists(n)
        BY <1>4
  <2> DEFINE s == FileStart(disk, disk.bitmap, n)
             c == Chain(disk, s)
  <2>2. s \in Blocks /\ s \in disk.bitmap
        BY <2>1, ChainOf
  <2>3. Of(n) = c
        BY <2>1
  <2> HIDE DEF s, Of
  <2>4. c \in Seq(Blocks)
        BY <1>1, <2>2, ChainFacts
  <2>5. i \in 1..Len(c)
        BY <1>4, <2>3, <2>4
  <2>. QED  BY <1>1, <2>2, <2>3, <2>5, ChainMarked
<1> HIDE DEF Of
<1>5. \A n \in Names : IsInjective(Of(n)) /\ ToSet(Of(n)) \subseteq disk.bitmap
      BY <1>3, <1>4 DEF IsInjective, ToSet
<1>6. \A m, n \in Names : m # n => ToSet(Of(m)) \cap ToSet(Of(n)) = {}
      BY <1>3 DEF ToSet
<1>7. ChainsApart
      BY <1>5, <1>6 DEF ChainsApart, Of
<1>. QED  BY <1>1, <1>7 DEF StoreSound

\* What keeps the links: the metadata of a block written again with its link,
\* a longer bitmap, and a new link to a block that was free.
LEMMA LinksSame ==
    ASSUME NEW d, NEW used, LinksSound(d, used), NEW e, e.md = d.md, NEW more, used \subseteq more
    PROVE  LinksSound(e, more)
BY DEF LinksSound

LEMMA LinksPut ==
    ASSUME NEW d \in Image, NEW used, LinksSound(d, used), NEW b \in Blocks, NEW md \in metadata,
           md.next = d.md[b].next, d.md[b].filename = NoName => md.filename = NoName,
           NEW e, e = PutMetadata(d, b, md)
    PROVE  LinksSound(e, used)
<1>1. e.md[b] = md /\ \A c \in Blocks \ {b} : e.md[c] = d.md[c]
      BY PutMetadataFacts
<1>2. /\ \A c \in Blocks : e.md[c].next = d.md[c].next
      /\ \A c \in Blocks : d.md[c].filename = NoName => e.md[c].filename = NoName
      BY <1>1
<1>3. \A c \in Blocks : d.md[c].next \in Blocks \cup {0}
      BY ImageParts
<1>. QED  BY <1>2, <1>3 DEF LinksSound

LEMMA LinksExtend ==
    ASSUME NEW d \in Image, NEW used \in SUBSET Blocks, LinksSound(d, used),
           NEW b \in used, d.md[b].next = 0, NEW c \in Blocks \ used, d.md[c].filename = NoName,
           NEW md \in metadata, md.next = c, md.filename = d.md[b].filename,
           NEW e, e = PutMetadata(d, b, md), NEW more, more = used \cup {c}
    PROVE  LinksSound(e, more)
<1>1. b \in Blocks /\ b # c /\ c # 0
      BY HelloNumbers
<1>2. e.md[b] = md /\ \A x \in Blocks \ {b} : e.md[x] = d.md[x]
      BY <1>1, PutMetadataFacts
<1>3. \A x \in Blocks : e.md[x].filename = d.md[x].filename
      BY <1>2
<1>4. e.md[b].next = c /\ \A x \in Blocks \ {b} : e.md[x].next = d.md[x].next
      BY <1>2
<1>5. \A x \in Blocks : d.md[x].next \in Blocks \cup {0}
      BY ImageParts
<1>6. \A x \in Blocks : d.md[x].next # c
      BY <1>1 DEF LinksSound
<1> SUFFICES ASSUME NEW x \in Blocks, e.md[x].next # 0
             PROVE  /\ x \in more /\ e.md[x].next \in more
                    /\ e.md[e.md[x].next].filename = NoName
                    /\ \A z \in Blocks : e.md[z].next = e.md[x].next => z = x
    BY DEF LinksSound
<1>7. CASE x = b
      BY <1>1, <1>3, <1>4, <1>6, <1>7
<1>8. CASE x # b
  <2> DEFINE y == d.md[x].next
  <2>1. e.md[x].next = y /\ y # 0 /\ y \in Blocks /\ y # c
        BY <1>4, <1>5, <1>6, <1>8
  <2>2. x \in used /\ y \in used /\ d.md[y].filename = NoName
        /\ \A z \in Blocks : d.md[z].next = y => z = x
        BY <2>1 DEF LinksSound
  <2> HIDE DEF y
  <2>. QED  BY <1>3, <1>4, <2>1, <2>2
<1>. QED  BY <1>7, <1>8

\* The loop keeps the links of the last image, for the bitmap in memory, and has
\* in memory the link of the block it is at.
LinkedLoop(s) ==
    /\ LinksSound(Last(s.images), s.bitmap)
    /\ s.block \in s.bitmap
    /\ s.md.next = Last(s.images).md[s.block].next

LEMMA LinkedTurn ==
    ASSUME NEW d \in Image, NamesSound(d), NEW used \in SUBSET Blocks, d.bitmap \subseteq used,
           NEW s, NamedLoop(d, used, s), LinkedLoop(s),
           NEW cells \in Seq(Units), NEW u, u = WriteBlock(s, cells)
    PROVE  LinkedLoop(u)
<1> DEFINE e == Last(s.images)
           b == NextAvailableBlock(s.bitmap)
           linked == PutMetadata(e, s.block, Linked(s.md, b))
           data == PutData(e, s.block, cells)
           data2 == PutData(linked, s.block, cells)
           one == Append(s.images, data)
           two == s.images \o <<linked, data2>>
<1>1. /\ s \in LoopStates /\ Len(s.images) >= 1 /\ used \subseteq s.bitmap
      /\ \A i \in 1..Len(s.images) : SameNames(d, s.images[i])
      /\ s.md.filename = d.md[s.block].filename
      BY DEF NamedLoop
<1>2. /\ s.bitmap \in SUBSET Blocks /\ s.block \in Blocks /\ s.md \in metadata
      /\ s.images \in Seq(Image)
      BY <1>1 DEF LoopStates
<1>3. e \in Image /\ SameNames(d, e)
      BY <1>1, LastImage
<1>4. \/ s.failed /\ u = s
      \/ ~s.failed /\ s.md.next # 0 /\ u = Advanced(s, one, s.md.next, e.md[s.md.next])
      \/ ~s.failed /\ u = WithFailure(s)
      \/ ~s.failed /\ s.bitmap # Blocks /\ s.md.next = 0
         /\ u = Extended(s, two, s.bitmap \cup {b}, b, ZeroMetadata)
      BY Zenon DEF WriteBlock, WithFailure, Advanced, Extended, RecordAfterLink
<1>5. LinksSound(e, s.bitmap) /\ s.block \in s.bitmap /\ s.md.next = e.md[s.block].next
      BY DEF LinkedLoop
<1> HIDE DEF e
<1>6. data \in Image /\ data.md = e.md
      BY <1>2, <1>3, PutDataFacts
<1> HIDE DEF data
<1>7. CASE u = s
      BY <1>7
<1>8. CASE s.md.next # 0 /\ u = Advanced(s, one, s.md.next, e.md[s.md.next])
  <2> DEFINE c == s.md.next
  <2>1. c \in Blocks /\ c \in s.bitmap
    <3>1. c \in Blocks
          BY <1>2, <1>8 DEF metadata
    <3>2. c = e.md[s.block].next
          BY <1>5
    <3> HIDE DEF c
    <3>. QED  BY <1>2, <1>5, <3>1, <3>2, LinkedTo
  <2>2. u = Advanced(s, one, c, e.md[c])
        BY <1>8
  <2> HIDE DEF c
  <2>3. e.md[c] \in metadata
        BY <1>3, <2>1, ImageParts
  <2>4. one \in Seq(Image) /\ Len(one) = Len(s.images) + 1 /\ one[Len(one)] = data
        BY <1>2, <1>6, MoreImages
  <2> HIDE DEF one
  <2>5. u.images = one /\ u.bitmap = s.bitmap /\ u.block = c /\ u.md = e.md[c]
        BY <1>1, <2>1, <2>2, <2>3, <2>4, LoopAdvanced
  <2>6. Last(u.images) = data
        BY <2>4, <2>5 DEF Last
  <2>7. LinksSound(data, s.bitmap)
        BY <1>5, <1>6, LinksSame
  <2>. QED  BY <1>6, <2>1, <2>5, <2>6, <2>7 DEF LinkedLoop
<1>9. CASE u = WithFailure(s)
  <2>1. u.images = s.images /\ u.bitmap = s.bitmap /\ u.block = s.block /\ u.md = s.md
        BY <1>1, <1>9, LoopFailed
  <2>. QED  BY <2>1 DEF LinkedLoop
<1>10. CASE s.bitmap # Blocks /\ s.md.next = 0
            /\ u = Extended(s, two, s.bitmap \cup {b}, b, ZeroMetadata)
  <2>1. b \in Blocks \ s.bitmap
        BY <1>2, <1>10, NextAvailable
  <2> HIDE DEF b
  <2> DEFINE md == Linked(s.md, b)
             more == s.bitmap \cup {b}
  <2>2. md \in metadata /\ md.filename = s.md.filename /\ md.next = b
        BY <1>2, <2>1, LinkedType
  <2>3. e.md[b].filename = NoName /\ e.md[s.block].filename = s.md.filename
        /\ e.md[b].next = 0 /\ e.md[s.block].next = 0
    <3>1. d.md[b].filename = NoName
          BY <1>1, <2>1 DEF NamesSound
    <3>2. e.md[b].next = 0
          BY <1>5, <2>1 DEF LinksSound
    <3>. QED  BY <1>1, <1>2, <1>3, <1>5, <1>10, <2>1, <3>1, <3>2 DEF SameNames
  <2>4. linked = PutMetadata(e, s.block, md) /\ more = s.bitmap \cup {b} /\ more \in SUBSET Blocks
        BY <1>2, <2>1
  <2> HIDE DEF md, linked
  <2>5. u = Extended(s, two, more, b, ZeroMetadata)
        BY <1>10
  <2> HIDE DEF more
  <2>6. LinksSound(linked, more)
        BY <1>2, <1>3, <1>5, <2>1, <2>2, <2>3, <2>4, LinksExtend
  <2>7. linked \in Image /\ \A x \in Blocks \ {s.block} : linked.md[x] = e.md[x]
    <3>1. /\ e \in Image /\ s.block \in Blocks /\ md \in metadata
          /\ linked = PutMetadata(e, s.block, md)
          BY <1>2, <1>3, <2>2, <2>4
    <3>. QED  BY ONLY <3>1, PutMetadataFacts
  <2>8. data2 \in Image /\ data2.md = linked.md
        BY <1>2, <2>7, PutDataFacts
  <2> HIDE DEF data2
  <2>9. two \in Seq(Image) /\ Len(two) = Len(s.images) + 2 /\ two[Len(two)] = data2
        BY <1>2, <2>7, <2>8, MoreImages
  <2> HIDE DEF two
  <2>10. ZeroMetadata \in metadata /\ ZeroMetadata.next = 0
        BY <2>1, <1>2, LinkedType
  <2>11. u.images = two /\ u.bitmap = more /\ u.block = b /\ u.md = ZeroMetadata
        BY <1>1, <2>1, <2>4, <2>5, <2>9, <2>10, LoopExtended
  <2>12. Last(u.images) = data2
        BY <2>9, <2>11 DEF Last
  <2>13. LinksSound(data2, more)
        BY <2>6, <2>8, LinksSame
  <2>14. data2.md[b].next = 0
        BY <1>5, <2>1, <2>3, <2>7, <2>8
  <2>15. b \in more
        BY <2>4
  <2>. QED  BY <2>10, <2>11, <2>12, <2>13, <2>14, <2>15 DEF LinkedLoop
<1>. QED  BY <1>4, <1>7, <1>8, <1>9, <1>10

\* What holds at the start of the loop, and after a turn if before it, holds at
\* its end.
TurnsKeep(S, buffer, n) ==
    \A k \in 1..n : \A s : <<k - 1, s>> \in S => <<k, Turn(s, buffer, k)>> \in S

LEMMA LoopInduction ==
    ASSUME NEW s0, NEW buffer, NEW n \in Nat, NEW S, <<0, s0>> \in S, TurnsKeep(S, buffer, n),
           NEW r, r = WriteBlocks(s0, buffer, n)
    PROVE  <<n, r>> \in S
<1>0. \A k \in 1..n : \A s : <<k - 1, s>> \in S => <<k, Turn(s, buffer, k)>> \in S
      BY DEF TurnsKeep
<1>1. PICK t : RunsThrough(t, s0, buffer, n)
      BY WriteBlocksTurns
<1>2. /\ WriteBlocks(s0, buffer, n) = t[n] /\ t[0] = s0
      /\ \A k \in 1..n : t[k] = Turn(t[k - 1], buffer, k)
      BY <1>1 DEF RunsThrough
<1> DEFINE T == {k \in Nat : k <= n => <<k, t[k]>> \in S}
<1>3. 0 \in T
      BY <1>2
<1>4. ASSUME NEW k \in T PROVE k + 1 \in T
  <2> SUFFICES ASSUME k + 1 <= n PROVE <<k + 1, t[k + 1]>> \in S
      OBVIOUS
  <2> DEFINE l == k + 1
  <2>1. l \in 1..n /\ l - 1 = k /\ <<k, t[k]>> \in S
        OBVIOUS
  <2> HIDE DEF l
  <2>2. t[l] = Turn(t[k], buffer, l)
        BY <1>2, <2>1
  <2>3. <<l, t[l]>> \in S
        BY <1>0, <2>1, <2>2
  <2>. QED  BY <2>3 DEF l
<1> HIDE DEF T
<1>5. T \in SUBSET Nat
      BY DEF T
<1>6. n \in T
      BY <1>3, <1>4, <1>5, EveryNumber
<1>. QED  BY <1>2, <1>6 DEF T

LEMMA LinkedStart ==
    ASSUME NEW d \in Image, NEW used \in SUBSET Blocks, LinksSound(d, used),
           NEW start \in used, NEW size \in Nat
    PROVE  LinkedLoop(LoopStart(d, used, start, size))
<1> DEFINE s == LoopStart(d, used, start, size)
           md == Sized(d.md[start], size)
           e == PutMetadata(d, start, md)
<1>0. start \in Blocks
      OBVIOUS
<1>1. /\ Len(s.images) = 1 /\ s.images[1] = e
      /\ s.bitmap = used /\ s.block = start /\ s.md = md
      BY <1>0, LoopStartFacts
<1>2. md \in metadata /\ md.filename = d.md[start].filename /\ md.next = d.md[start].next
      BY <1>0, ImageParts, SizedType
<1> HIDE DEF md
<1>3. LinksSound(e, used)
      BY <1>0, <1>2, LinksPut
<1>4. e.md[start] = md
      BY <1>0, <1>2, PutMetadataFacts
<1> HIDE DEF s, e
<1>5. Last(s.images) = e
      BY <1>1 DEF Last
<1>6. LinkedLoop(s)
      BY <1>1, <1>3, <1>4, <1>5 DEF LinkedLoop
<1>. QED  BY <1>6 DEF s

LEMMA LinkedLoopEnds ==
    ASSUME NEW d \in Image, NamesSound(d), NEW used \in SUBSET Blocks, d.bitmap \subseteq used,
           LinksSound(d, used), NEW start \in used, NEW offset \in Nat, NEW buf \in Requests,
           NEW s, s = WriteEnd(d, used, start, offset, buf)
    PROVE  NamedLoop(d, used, s) /\ LinkedLoop(s)
<1> DEFINE buffer == WriteBuffer(d, Chain(d, start), offset, buf)
           size == offset + Len(buf)
           n == (size - 1) \div USABLE_SPACE
           s0 == LoopStart(d, used, start, size)
           S == {p \in Nat \X LoopStates : NamedLoop(d, used, p[2]) /\ LinkedLoop(p[2])}
<1>1. /\ size \in Nat \ {0} /\ n \in Nat /\ n * USABLE_SPACE < size
      /\ n * USABLE_SPACE \in Nat /\ start \in Blocks
      BY WriteNumbers
<1>2. buffer \in Seq(Units) /\ Len(buffer) = size
      BY <1>1, HelloNumbers, BufferType
<1>3. s = WriteBlocks(s0, buffer, n)
      BY Zenon DEF WriteEnd
<1>4. NamedLoop(d, used, s0) /\ LinkedLoop(s0)
      BY <1>1, NamedStart, LinkedStart
<1> HIDE DEF buffer, s0, n, size
<1>5. n * USABLE_SPACE <= Len(buffer)
      BY <1>1, <1>2
<1>6. <<0, s0>> \in S
      BY <1>4 DEF NamedLoop
<1>7. ASSUME NEW k \in 1..n, NEW u, <<k - 1, u>> \in S
      PROVE  <<k, Turn(u, buffer, k)>> \in S
  <2> DEFINE cells == Part(buffer, k)
             v == WriteBlock(u, cells)
  <2>1. NamedLoop(d, used, u) /\ LinkedLoop(u)
        BY <1>7
  <2>2. cells \in Seq(Units)
        BY <1>1, <1>2, <1>5, TurnCells
  <2> HIDE DEF cells
  <2>3. NamedLoop(d, used, v) /\ LinkedLoop(v)
        BY <2>1, <2>2, NamedTurn, LinkedTurn
  <2>4. Turn(u, buffer, k) = v
        BY DEF Turn, cells
  <2> HIDE DEF v
  <2>5. v \in LoopStates /\ k \in Nat
        BY <1>1, <2>3 DEF NamedLoop
  <2>. QED  BY <2>3, <2>4, <2>5
<1> HIDE DEF S
<1>8. <<n, s>> \in S
  <2>1. TurnsKeep(S, buffer, n)
        BY <1>7, Zenon DEF TurnsKeep
  <2>2. n \in Nat /\ <<0, s0>> \in S /\ s = WriteBlocks(s0, buffer, n)
        BY <1>1, <1>3, <1>6
  <2>. QED  BY ONLY <2>1, <2>2, LoopInduction
<1>. QED  BY <1>8 DEF S

\* A write that finds its blocks saves the bitmap after the links.
LEMMA WriteKeepsLinks ==
    ASSUME NEW d \in Image, NamesSound(d), NEW used \in SUBSET Blocks, d.bitmap \subseteq used,
           LinksSound(d, used), NEW n, FileStart(d, used, n) # 0,
           NEW offset \in Nat, NEW buf \in Requests,
           NEW r, r = hello_write(d, used, n, offset, buf), ~r.enomem,
           NEW e, e = r.images[Len(r.images)]
    PROVE  LinksSound(e, e.bitmap)
<1> DEFINE start == FileStart(d, used, n)
           s == WriteEnd(d, used, start, offset, buf)
           rest == Rest(d, start, offset, buf)
<1>1. start \in Blocks /\ start \in used
      BY FileStartFacts DEF Entries
<1>2. r = Outcome(d, start, offset, buf, s)
      BY HelloWriteIs
<1> HIDE DEF start
<1>3. NamedLoop(d, used, s) /\ LinkedLoop(s)
      BY <1>1, LinkedLoopEnds
<1>4. rest \in Seq(Units)
      BY <1>1, RestCells
<1>5. r.images = FinishWrite(s, rest)
      BY <1>2 DEF Outcome
<1> HIDE DEF s, rest
<1>6. s \in LoopStates /\ Len(s.images) >= 1
      BY <1>3 DEF NamedLoop
<1>7. s.block \in Blocks /\ s.bitmap \in SUBSET Blocks
      BY <1>6 DEF LoopStates
<1> DEFINE l == Last(s.images)
           f == PutData(l, s.block, rest)
           g == PutBitmap(f, s.bitmap)
           images == FinishWrite(s, rest)
<1>8. l \in Image /\ LinksSound(l, s.bitmap)
      BY <1>3, <1>6, LastImage DEF LinkedLoop
<1>9. images[Len(images)] = g
      BY <1>4, <1>6, FinishWriteFacts
<1>10. r.images = images
      BY <1>5
<1> HIDE DEF images, l
<1>11. f \in Image /\ f.md = l.md
      BY <1>4, <1>7, <1>8, PutDataFacts
<1> HIDE DEF f
<1>12. g.md = f.md /\ g.bitmap = s.bitmap
      BY <1>7, <1>11, PutBitmapFacts
<1> HIDE DEF g
<1>13. LinksSound(g, s.bitmap)
      BY <1>8, <1>11, <1>12, LinksSame
<1>. QED  BY <1>9, <1>10, <1>12, <1>13

LEMMA CreateKeepsLinks ==
    ASSUME NEW d \in Image, NamesSound(d), LinksSound(d, d.bitmap), NEW n \in Names \cup LongNames,
           NEW r, r = hello_create(d, n), NEW i \in 1..Len(r.images)
    PROVE  LinksSound(r.images[i], r.bitmap)
<1> DEFINE b == NextAvailableBlock(d.bitmap)
           saved == PutBitmap(d, d.bitmap \cup {b})
           e == PutMetadata(saved, b, Fresh(n))
<1>1. \/ r.images = <<>> /\ r.bitmap = d.bitmap
      \/ /\ b \in Blocks \ d.bitmap
         /\ saved \in Image /\ saved.bitmap = d.bitmap \cup {b}
         /\ saved.md = d.md /\ r.bitmap = saved.bitmap
         /\ \/ r.images = <<saved>>
            \/ n \in Names /\ r.images = <<saved, e>>
  <2> HIDE DEF b, saved, e
  <2>1. /\ b = NextAvailableBlock(d.bitmap) /\ saved = PutBitmap(d, d.bitmap \cup {b})
        /\ e = PutMetadata(saved, b, Fresh(n))
        BY Zenon DEF b, saved, e
  <2>. QED  BY <2>1, CreateCases
<1> HIDE DEF b, saved
<1>2. r.images # <<>>
      OBVIOUS
<1>3. LinksSound(saved, saved.bitmap)
      BY <1>1, <1>2, LinksSame
<1>4. CASE r.images = <<saved>>
      BY <1>1, <1>2, <1>3, <1>4
<1>5. CASE n \in Names /\ r.images = <<saved, e>>
  <2> DEFINE md == Fresh(n)
  <2>1. md \in metadata /\ md.next = 0
        BY <1>5 DEF Fresh, metadata
  <2>2. saved.md[b].next = 0
        BY <1>1, <1>2 DEF LinksSound
  <2> HIDE DEF md
  <2>3. e = PutMetadata(saved, b, md)
        BY DEF md
  <2> HIDE DEF e
  <2>4. e.md[b] = md /\ \A c \in Blocks \ {b} : e.md[c] = saved.md[c]
        BY <1>1, <1>2, <2>1, <2>3, PutMetadataFacts
  <2>5. \A c \in Blocks : e.md[c].next = saved.md[c].next
        BY <2>1, <2>2, <2>4
  <2>6. \A c \in Blocks : saved.md[c].next # b
        BY <1>1, <1>2, HelloNumbers DEF LinksSound
  <2>7. \A c \in Blocks : saved.md[c].next \in Blocks \cup {0}
        BY <1>1, <1>2, ImageParts
  <2>8. LinksSound(e, saved.bitmap)
    <3> SUFFICES ASSUME NEW x \in Blocks, e.md[x].next # 0
                 PROVE  /\ x \in saved.bitmap /\ e.md[x].next \in saved.bitmap
                        /\ e.md[e.md[x].next].filename = NoName
                        /\ \A z \in Blocks : e.md[z].next = e.md[x].next => z = x
        BY DEF LinksSound
    <3> DEFINE y == saved.md[x].next
    <3>1. e.md[x].next = y /\ y # 0 /\ y \in Blocks /\ y # b
          BY <2>5, <2>6, <2>7
    <3>2. x \in saved.bitmap /\ y \in saved.bitmap /\ saved.md[y].filename = NoName
          /\ \A z \in Blocks : saved.md[z].next = y => z = x
          BY <1>3, <3>1 DEF LinksSound
    <3> HIDE DEF y
    <3>. QED  BY <2>4, <2>5, <3>1, <3>2
  <2>9. r.images[i] \in {saved, e}
        BY <1>5
  <2>. QED  BY <1>1, <1>2, <1>3, <2>8, <2>9
<1>. QED  BY <1>1, <1>2, <1>4, <1>5

LEMMA LinksStep ==
    ASSUME LinksInv, [KeepStored]_vars
    PROVE  LinksInv'
<1>1. NamesInv /\ LinksSound(disk, disk.bitmap) /\ disk \in Image /\ NamesSound(disk)
      /\ bitmap \in SUBSET Blocks /\ disk.bitmap \subseteq bitmap
      BY DEF LinksInv, NamesInv
<1>2. NamesInv'
  <2>1. \A n \in Names : WriteStored(n) => WriteAny(n)
        BY DEF WriteStored, WriteAny
  <2>2. [Keep \/ Kill]_vars
        BY <2>1 DEF KeepStored, Keep
  <2>. QED  BY <1>1, <2>2, NamesStep
<1>3. LinksSound(disk', disk'.bitmap)
  <2>1. CASE disk' = disk
        BY <1>1, <2>1
  <2>2. ASSUME disk' # disk, NEW n \in Names \cup LongNames, Create(n)
        PROVE  LinksSound(disk', disk'.bitmap)
    <3> DEFINE r == hello_create(disk, n)
    <3>1. r.images \in Seq(Image) /\ \A i \in 1..Len(r.images) : r.images[i].bitmap = r.bitmap
          BY <1>1, CreateKeepsNames
    <3>2. disk' = Last(<<disk>> \o r.images)
          BY <2>2 DEF Create, Return
    <3>3. \A i \in 1..Len(r.images) : LinksSound(r.images[i], r.bitmap)
          BY <1>1, CreateKeepsLinks
    <3> HIDE DEF r
    <3>4. disk' = r.images[Len(r.images)] /\ Len(r.images) # 0
          BY <1>1, <2>2, <3>1, <3>2, ReturnImage
    <3>5. Len(r.images) \in 1..Len(r.images)
          BY <3>1, <3>4
    <3>. QED  BY <3>1, <3>3, <3>4, <3>5
  <2>3. ASSUME NEW n \in Names, WriteStored(n)
        PROVE  LinksSound(disk', disk'.bitmap)
    <3>1. PICK offset \in Offsets, buf \in Requests :
              Write(n, offset, buf) /\ ~hello_write(disk, bitmap, n, offset, buf).enomem
          BY <2>3 DEF WriteStored
    <3> DEFINE r == hello_write(disk, bitmap, n, offset, buf)
    <3>2. WriteNames(disk, bitmap, r) /\ disk' = Last(<<disk>> \o r.images)
          BY <1>1, <3>1, WriteAnyNames DEF Write, Return
    <3>3. LinksSound(disk, bitmap)
          BY <1>1, LinksSame
    <3>4. FileStart(disk, bitmap, n) # 0 /\ offset \in Nat
          BY <3>1, HelloNumbers DEF Write, Writable, Offsets
    <3> DEFINE e == r.images[Len(r.images)]
    <3>5. LinksSound(e, e.bitmap)
          BY <1>1, <3>1, <3>3, <3>4, WriteKeepsLinks
    <3> HIDE DEF r
    <3>6. r.images \in Seq(Image) /\ Len(r.images) >= 1
          BY <3>2 DEF WriteNames
    <3>7. disk' = e
          BY <1>1, <3>2, <3>6, ReturnImage
    <3>. QED  BY <3>5, <3>7
  <2>4. CASE Getattr \/ \E n \in Names : Truncate(n)
        BY <1>1, <2>1, <2>4, ReadNames
  <2>5. CASE UNCHANGED vars
        BY <2>1, <2>5 DEF vars
  <2>. QED  BY <2>1, <2>2, <2>3, <2>4, <2>5 DEF KeepStored
<1>. QED  BY <1>2, <1>3 DEF LinksInv

\* The chains stay apart and marked, for every store and every client whose
\* writes find the blocks they need: a block is linked to once, when it is taken
\* from the bitmap in memory, and the bitmap that marks it goes to the image
\* after it.
THEOREM StoreAlwaysSound == StoredSpec => []StoreSound
<1>1. Init => LinksInv
  <2> SUFFICES ASSUME Init PROVE LinksInv
      OBVIOUS
  <2>1. LinksSound(NewImage, NewImage.bitmap)
        BY DEF LinksSound, NewImage, ZeroMetadata
  <2>. QED  BY <2>1, NamesInit DEF LinksInv, Init
<1>2. LinksInv /\ [KeepStored]_vars => LinksInv'
      BY LinksStep
<1>3. LinksInv => StoreSound
      BY LinksApart
<1>. QED  BY <1>1, <1>2, <1>3, PTL DEF StoredSpec
-----------------------------------------------------------------------------
(* What a file's chain holds *)

LEMMA SameSeq ==
    ASSUME NEW T, NEW c \in Seq(T), NEW e \in Seq(T), Len(c) = Len(e),
           \A k \in 1..Len(c) : c[k] = e[k]
    PROVE  c = e
OBVIOUS

LEMMA ChainNotShorter ==
    ASSUME NEW d \in Image, NEW s \in Blocks, NEW c, IsChain(d, s, c), NEW e, IsChain(d, s, e),
           \A k \in 1..Len(c) : k <= Len(e) => c[k] = e[k]
    PROVE  ~(Len(c) < Len(e))
<1> SUFFICES ASSUME Len(c) < Len(e) PROVE FALSE
    OBVIOUS
<1>1. /\ Len(c) \in 1..NUM_BLOCKS
      /\ Len(c) < NUM_BLOCKS => d.md[c[Len(c)]].next = 0
      /\ Len(e) \in 1..NUM_BLOCKS /\ e \in Seq(Blocks)
      /\ \A k \in 1..Len(e) - 1 : e[k + 1] = d.md[e[k]].next
      /\ NUM_BLOCKS \in Nat /\ 0 \notin Blocks
      BY HelloNumbers DEF IsChain
<1> DEFINE n == Len(c)
<1>2. n \in 1..Len(e) - 1 /\ n + 1 \in 1..Len(e) /\ n < NUM_BLOCKS /\ c[n] = e[n]
      BY <1>1
<1>3. e[n + 1] = 0
      BY <1>1, <1>2
<1>. QED  BY <1>1, <1>2, <1>3, ElementOfSeq

\* There is one chain from a block.
LEMMA ChainIs ==
    ASSUME NEW d \in Image, NEW s \in Blocks, NEW c, IsChain(d, s, c)
    PROVE  Chain(d, s) = c
<1> DEFINE e == Chain(d, s)
<1>1. IsChain(d, s, e)
      BY FileChain
<1> HIDE DEF e
<1>2. /\ c \in Seq(Blocks) /\ Len(c) \in Nat /\ c[1] = s
      /\ \A k \in 1..Len(c) - 1 : c[k + 1] = d.md[c[k]].next
      BY DEF IsChain
<1>3. /\ e \in Seq(Blocks) /\ Len(e) \in Nat /\ e[1] = s
      /\ \A k \in 1..Len(e) - 1 : e[k + 1] = d.md[e[k]].next
      BY <1>1 DEF IsChain
<1> DEFINE S == {n \in Nat : n + 1 <= Len(c) /\ n + 1 <= Len(e) => c[n + 1] = e[n + 1]}
<1>4. 0 \in S
      BY <1>2, <1>3
<1>5. ASSUME NEW n \in S PROVE n + 1 \in S
  <2> SUFFICES ASSUME n + 2 <= Len(c), n + 2 <= Len(e) PROVE c[n + 2] = e[n + 2]
      OBVIOUS
  <2> DEFINE m == n + 1
  <2>1. m \in 1..Len(c) - 1 /\ m \in 1..Len(e) - 1 /\ n + 2 = m + 1 /\ c[m] = e[m]
        BY <1>2, <1>3
  <2> HIDE DEF m
  <2>. QED  BY <1>2, <1>3, <2>1
<1> HIDE DEF S
<1>6. S \in SUBSET Nat
      BY DEF S
<1>7. \A n \in Nat : n \in S
      BY <1>4, <1>5, <1>6, EveryNumber
<1>8. ASSUME NEW k \in 1..Len(c), k <= Len(e) PROVE c[k] = e[k]
  <2>1. k - 1 \in Nat /\ (k - 1) + 1 = k
        BY <1>2
  <2>2. k - 1 \in S
        BY <1>7, <2>1
  <2>. QED  BY <1>8, <2>1, <2>2 DEF S
<1>9. \A k \in 1..Len(e) : k <= Len(c) => e[k] = c[k]
      BY <1>2, <1>3, <1>8
<1>10. ~(Len(c) < Len(e)) /\ ~(Len(e) < Len(c))
      BY <1>1, <1>8, <1>9, ChainNotShorter
<1>11. Len(c) = Len(e)
      BY <1>2, <1>3, <1>10
<1>12. c = e
      BY <1>2, <1>3, <1>8, <1>11, SameSeq
<1>. QED  BY <1>12 DEF e

\* What hello_read returns of the file that begins at block s.
Contents(d, s) ==
    SubSeq(ChainCells(d, Chain(d, s)), 1,
           Min({d.md[s].file_size, Len(ChainCells(d, Chain(d, s)))}))

\* It has no more than its chain holds.
FileFits(d, s) == d.md[s].file_size <= Len(ChainCells(d, Chain(d, s)))

\* A file whose blocks are as they were is as it was.
LEMMA SameFile ==
    ASSUME NEW d \in Image, NEW e \in Image, NEW s \in Blocks, NEW c, c = Chain(d, s),
           \A i \in 1..Len(c) : e.md[c[i]] = d.md[c[i]] /\ e.data[c[i]] = d.data[c[i]]
    PROVE  /\ Chain(e, s) = c /\ Contents(e, s) = Contents(d, s)
           /\ (FileFits(d, s) => FileFits(e, s))
<1>1. IsChain(d, s, c)
      BY FileChain
<1>2. c \in Seq(Blocks) /\ Len(c) \in 1..NUM_BLOCKS /\ c[1] = s /\ NUM_BLOCKS \in Nat
      BY <1>1, HelloNumbers DEF IsChain
<1>3. IsChain(e, s, c)
  <2>1. \A k \in 1..Len(c) - 1 : c[k + 1] = e.md[c[k]].next
    <3> TAKE k \in 1..Len(c) - 1
    <3>1. k \in 1..Len(c)
          BY <1>2
    <3>2. c[k + 1] = d.md[c[k]].next
          BY <1>1 DEF IsChain
    <3>. QED  BY <3>1, <3>2
  <2>2. Len(c) < NUM_BLOCKS => e.md[c[Len(c)]].next = 0
    <3>1. Len(c) \in 1..Len(c)
          BY <1>2
    <3>2. Len(c) < NUM_BLOCKS => d.md[c[Len(c)]].next = 0
          BY <1>1 DEF IsChain
    <3>. QED  BY <3>1, <3>2
  <2>. QED  BY <1>2, <2>1, <2>2 DEF IsChain
<1>4. Chain(e, s) = c
      BY <1>3, ChainIs
<1>5. e.md[s] = d.md[s]
      BY <1>2
<1> DEFINE x == ChainCells(d, c)
           y == ChainCells(e, c)
<1>6. /\ x \in Seq(Units) /\ Len(x) = Len(c) * USABLE_SPACE
      /\ y \in Seq(Units) /\ Len(y) = Len(c) * USABLE_SPACE
      BY <1>2, ChainCellsType
<1>7. ASSUME NEW i \in 1..Len(x) PROVE x[i] = y[i]
  <2> DEFINE q == ((i - 1) \div USABLE_SPACE) + 1
             r == ((i - 1) % USABLE_SPACE) + 1
  <2>1. q \in 1..Len(c) /\ x[i] = d.data[c[q]][r]
        BY <1>2, ChainCellsType
  <2>2. i \in 1..Len(y)
        BY <1>6
  <2>3. y[i] = e.data[c[q]][r]
        BY <1>2, <2>2, ChainCellsType
  <2> HIDE DEF q, r, x, y
  <2>. QED  BY <2>1, <2>3
<1> HIDE DEF x, y
<1>8. x = y
      BY <1>6, <1>7, SameSeq
<1>9. /\ Contents(d, s) = SubSeq(x, 1, Min({d.md[s].file_size, Len(x)}))
      /\ Contents(e, s) = SubSeq(y, 1, Min({e.md[s].file_size, Len(y)}))
      BY <1>4, Zenon DEF Contents, x, y
<1>10. /\ FileFits(d, s) <=> d.md[s].file_size <= Len(x)
       /\ FileFits(e, s) <=> e.md[s].file_size <= Len(y)
      BY <1>4, Zenon DEF FileFits, x, y
<1>. QED  BY <1>4, <1>5, <1>8, <1>9, <1>10

LEMMA ChainShort ==
    ASSUME NEW d \in Image, NEW used, LinksSound(d, used),
           NEW s \in Blocks, d.md[s].filename # NoName, NEW c, c = Chain(d, s)
    PROVE  /\ Len(c) < NUM_BLOCKS
           /\ \A i, j \in 1..Len(c) : c[i] = c[j] => i = j
<1>1. c \in Seq(Blocks) /\ Len(c) \in 1..NUM_BLOCKS
  <2>1. IsChain(d, s, c)
        BY FileChain
  <2>. QED  BY <2>1 DEF IsChain
<1>2. ASSUME NEW i \in 1..Len(c), NEW j \in 1..Len(c), c[i] = c[j] PROVE i = j
      BY <1>2, ChainsMeet
<1> DEFINE T == 1..Len(c)
           image == {c[i] : i \in T}
<1>3. IsFiniteSet(T) /\ Cardinality(T) = Len(c)
  <2>1. 1 \in Int /\ Len(c) \in Int /\ 1 <= Len(c) /\ Len(c) - 1 + 1 = Len(c)
        BY <1>1, HelloNumbers
  <2>. QED  BY <2>1, FS_Interval
<1>4. IsFiniteSet(Blocks) /\ Cardinality(Blocks) = NUM_BLOCKS - 1
  <2> DEFINE m == NUM_BLOCKS - 1
  <2>1. 1 \in Int /\ m \in Nat /\ (m = 0 \/ 1 <= m) /\ m - 1 + 1 = m /\ (1 > m <=> m = 0)
        BY HelloNumbers
  <2> HIDE DEF m
  <2>2. IsFiniteSet(1..m) /\ Cardinality(1..m) = m
        BY <2>1, FS_Interval
  <2>. QED  BY <2>2 DEF Blocks, m
<1>5. Cardinality(T) <= Cardinality(Blocks)
  <2> DEFINE f == [i \in T |-> c[i]]
  <2>1. f \in Injection(T, Blocks)
    <3>1. \A i \in T : c[i] \in Blocks
          BY <1>1, ElementOfSeq
    <3>. QED  BY <1>2, <3>1 DEF Injection, IsInjective
  <2>. QED  BY <1>3, <1>4, <2>1, FS_Injection
<1>. QED  BY <1>1, <1>2, <1>3, <1>4, <1>5, HelloNumbers

\* What a turn that does not fail does to the last image, l: the block it was at
\* holds the cells, and either the next one is where it led or it leads to a
\* block that was free.
Moves(s, l, u, v, cells) ==
    /\ v \in Image
    /\ \A j \in 1..USABLE_SPACE : v.data[s.block][j] = cells[j]
    /\ \A x \in Blocks \ {s.block} : v.data[x] = l.data[x]
    /\ \/ /\ s.md.next = u.block /\ u.block \in Blocks
          /\ v.md = l.md /\ u.md = l.md[u.block]
       \/ /\ s.md.next = 0 /\ u.block \in Blocks \ s.bitmap
          /\ v.md[s.block] = Linked(s.md, u.block)
          /\ \A x \in Blocks \ {s.block} : v.md[x] = l.md[x]
          /\ u.md = ZeroMetadata

LEMMA TurnMoves ==
    ASSUME NEW s \in LoopStates, Len(s.images) >= 1, NEW cells \in Seq(Units),
           Len(cells) = USABLE_SPACE, NEW u, u = WriteBlock(s, cells), ~u.failed
    PROVE  ~s.failed /\ Moves(s, Last(s.images), u, Last(u.images), cells)
<1> DEFINE e == Last(s.images)
           b == NextAvailableBlock(s.bitmap)
           linked == PutMetadata(e, s.block, Linked(s.md, b))
           data == PutData(e, s.block, cells)
           data2 == PutData(linked, s.block, cells)
           one == Append(s.images, data)
           two == s.images \o <<linked, data2>>
<1>2. /\ s.bitmap \in SUBSET Blocks /\ s.block \in Blocks /\ s.md \in metadata
      /\ s.images \in Seq(Image) /\ \A j \in 1..USABLE_SPACE : j <= Len(cells)
      BY HelloNumbers DEF LoopStates
<1>3. e \in Image
      BY LastImage
<1>4. \/ s.failed /\ u = s
      \/ ~s.failed /\ s.md.next # 0 /\ u = Advanced(s, one, s.md.next, e.md[s.md.next])
      \/ ~s.failed /\ u = WithFailure(s)
      \/ ~s.failed /\ s.bitmap # Blocks /\ s.md.next = 0
         /\ u = Extended(s, two, s.bitmap \cup {b}, b, ZeroMetadata)
      BY Zenon DEF WriteBlock, WithFailure, Advanced, Extended, RecordAfterLink
<1>5. u # WithFailure(s) /\ ~(s.failed /\ u = s)
      BY LoopFailed
<1> HIDE DEF e
<1>6. /\ data \in Image /\ data.md = e.md
      /\ \A j \in 1..USABLE_SPACE : data.data[s.block][j] = cells[j]
      /\ \A x \in Blocks \ {s.block} : data.data[x] = e.data[x]
      BY <1>2, <1>3, PutDataFacts
<1> HIDE DEF data
<1>8. CASE ~s.failed /\ s.md.next # 0 /\ u = Advanced(s, one, s.md.next, e.md[s.md.next])
  <2> DEFINE c == s.md.next
  <2>1. c \in Blocks
        BY <1>2, <1>8 DEF metadata
  <2>2. u = Advanced(s, one, c, e.md[c]) /\ c = s.md.next
        BY <1>8
  <2> HIDE DEF c
  <2>3. e.md[c] \in metadata
        BY <1>3, <2>1, ImageParts
  <2>4. one \in Seq(Image) /\ one[Len(one)] = data
        BY <1>2, <1>6, MoreImages
  <2> HIDE DEF one
  <2>5. u.images = one /\ u.block = c /\ u.md = e.md[c]
        BY <2>1, <2>2, <2>3, <2>4, LoopAdvanced
  <2>6. Last(u.images) = data
        BY <2>4, <2>5 DEF Last
  <2>7. Moves(s, e, u, data, cells)
        BY <1>6, <2>1, <2>2, <2>5 DEF Moves
  <2>. QED  BY <1>8, <2>6, <2>7 DEF e
<1>10. CASE ~s.failed /\ s.bitmap # Blocks /\ s.md.next = 0
            /\ u = Extended(s, two, s.bitmap \cup {b}, b, ZeroMetadata)
  <2>1. b \in Blocks \ s.bitmap
        BY <1>2, <1>10, NextAvailable
  <2> HIDE DEF b
  <2> DEFINE md == Linked(s.md, b)
             more == s.bitmap \cup {b}
  <2>2. md \in metadata
        BY <1>2, <2>1, LinkedType
  <2>4. linked = PutMetadata(e, s.block, md) /\ more \in SUBSET Blocks
        BY <1>2, <2>1
  <2> HIDE DEF md, linked
  <2>5. u = Extended(s, two, more, b, ZeroMetadata)
        BY <1>10
  <2> HIDE DEF more
  <2>7. /\ linked \in Image /\ linked.md[s.block] = md /\ linked.data = e.data
        /\ \A x \in Blocks \ {s.block} : linked.md[x] = e.md[x]
        BY <1>2, <1>3, <2>2, <2>4, PutMetadataFacts
  <2>8. /\ data2 \in Image /\ data2.md = linked.md
        /\ \A j \in 1..USABLE_SPACE : data2.data[s.block][j] = cells[j]
        /\ \A x \in Blocks \ {s.block} : data2.data[x] = linked.data[x]
        BY <1>2, <2>7, PutDataFacts
  <2> HIDE DEF data2
  <2>9. two \in Seq(Image) /\ Len(two) = Len(s.images) + 2 /\ two[Len(two)] = data2
        BY <1>2, <2>7, <2>8, MoreImages
  <2> HIDE DEF two
  <2>10. ZeroMetadata \in metadata
        BY <2>1, <1>2, LinkedType
  <2>11. u.images = two /\ u.block = b /\ u.md = ZeroMetadata
        BY <2>1, <2>4, <2>5, <2>9, <2>10, LoopExtended
  <2>12. Last(u.images) = data2
        BY <2>9, <2>11 DEF Last
  <2>13. data2.md[s.block] = Linked(s.md, u.block) /\ u.block \in Blocks \ s.bitmap
        BY <2>1, <2>7, <2>8, <2>11 DEF md
  <2>14. /\ \A x \in Blocks \ {s.block} : data2.md[x] = e.md[x]
         /\ \A x \in Blocks \ {s.block} : data2.data[x] = e.data[x]
        BY <2>7, <2>8
  <2>15. Moves(s, e, u, data2, cells)
        BY <1>10, <2>8, <2>11, <2>13, <2>14 DEF Moves
  <2>. QED  BY <1>10, <2>12, <2>15 DEF e
<1>. QED  BY <1>4, <1>5, <1>8, <1>10

\* The blocks of another file, which nothing leads to from outside.
KeptLoop(d, K, s) ==
    LET l == Last(s.images)
    IN  /\ s.block \notin K
        /\ \A x \in K : l.md[x] = d.md[x] /\ l.data[x] = d.data[x]
        /\ \A x \in Blocks \ K : l.md[x].next \notin K

LEMMA KeptTurn ==
    ASSUME NEW d, NEW K \in SUBSET Blocks, NEW s \in LoopStates, Len(s.images) >= 1,
           K \subseteq s.bitmap, LinkedLoop(s), KeptLoop(d, K, s),
           NEW cells, NEW u, Moves(s, Last(s.images), u, Last(u.images), cells)
    PROVE  KeptLoop(d, K, u)
<1> DEFINE l == Last(s.images)
           v == Last(u.images)
<1>1. /\ s.block \notin K /\ s.block \in Blocks /\ s.md.next = l.md[s.block].next
      /\ \A x \in K : l.md[x] = d.md[x] /\ l.data[x] = d.data[x]
      /\ \A x \in Blocks \ K : l.md[x].next \notin K
      BY DEF KeptLoop, LinkedLoop, LoopStates
<1>2. \A x \in Blocks \ {s.block} : v.data[x] = l.data[x]
      BY DEF Moves
<1>3. \/ s.md.next = u.block /\ u.block \in Blocks /\ v.md = l.md
      \/ /\ u.block \in Blocks \ s.bitmap /\ v.md[s.block] = Linked(s.md, u.block)
         /\ \A x \in Blocks \ {s.block} : v.md[x] = l.md[x]
      BY DEF Moves
<1> HIDE DEF l, v
<1>4. u.block \notin K
      BY <1>1, <1>3
<1>5. \A x \in K : v.md[x] = d.md[x] /\ v.data[x] = d.data[x]
      BY <1>1, <1>2, <1>3
<1>6. ASSUME NEW x \in Blocks \ K PROVE v.md[x].next \notin K
  <2>1. CASE v.md[x] = l.md[x]
        BY <1>1, <2>1
  <2>2. CASE x = s.block /\ u.block \in Blocks \ s.bitmap /\ v.md[x] = Linked(s.md, u.block)
    <3>1. s.md \in metadata
          BY DEF LoopStates
    <3>2. v.md[x].next = u.block
          BY <2>2, <3>1, LinkedType
    <3>. QED  BY <1>4, <3>2
  <2>. QED  BY <1>3, <2>1, <2>2
<1>. QED  BY <1>4, <1>5, <1>6 DEF KeptLoop, v

\* After k turns the loop is at block k + 1 of the file's chain, and the k blocks
\* before it are written.
FilledLoop(start, size, buffer, k, s) ==
    LET l == Last(s.images)
        c == Chain(l, start)
    IN  /\ Len(c) >= k + 1 /\ c[k + 1] = s.block
        /\ \A i \in 1..k : HoldsPart(l.data[c[i]], buffer, i)
        /\ l.md[start].file_size = size
        /\ s.block = start => s.md.file_size = size

\* The chain grows by a block, or is the same.
LEMMA MovedChain ==
    ASSUME NEW s \in LoopStates, NEW l \in Image, LinksSound(l, s.bitmap), s.block \in s.bitmap,
           NEW start \in s.bitmap, l.md[start].filename # NoName,
           NEW c, c = Chain(l, start), s.md.next = l.md[s.block].next,
           NEW k \in Nat \ {0}, Len(c) >= k, c[k] = s.block,
           NEW u, NEW v, NEW cells, Moves(s, l, u, v, cells)
    PROVE  LET e == Chain(v, start)
           IN  /\ Len(e) >= k + 1 /\ e[k + 1] = u.block /\ e \in Seq(Blocks)
               /\ \A i \in 1..k : e[i] = c[i]
<1>1. /\ start \in Blocks /\ s.block \in Blocks /\ s.bitmap \subseteq Blocks /\ s.md \in metadata
      /\ v \in Image /\ 0 \notin Blocks /\ NUM_BLOCKS \in Nat
      BY HelloNumbers DEF LoopStates, Moves
<1>2. IsChain(l, start, c)
      BY <1>1, FileChain
<1>3. /\ c \in Seq(Blocks) /\ Len(c) \in Nat /\ c[1] = start
      /\ \A i \in 1..Len(c) - 1 : c[i + 1] = l.md[c[i]].next
      /\ (Len(c) < NUM_BLOCKS => l.md[c[Len(c)]].next = 0)
      BY <1>2 DEF IsChain
<1>4. Len(c) < NUM_BLOCKS /\ \A i, j \in 1..Len(c) : c[i] = c[j] => i = j
      BY <1>1, ChainShort
<1>5. k \in 1..Len(c) /\ Len(c) \in 1..Len(c) /\ \A i \in 1..Len(c) : c[i] \in Blocks
      BY <1>3, ElementOfSeq
<1>6. CASE s.md.next = u.block /\ u.block \in Blocks /\ v.md = l.md
  <2>1. IsChain(v, start, c)
        BY <1>2, <1>6 DEF IsChain
  <2>2. Chain(v, start) = c
        BY <1>1, <2>1, ChainIs
  <2>3. Len(c) # k
    <3>1. SUFFICES ASSUME Len(c) = k PROVE FALSE
          OBVIOUS
    <3>2. l.md[s.block].next = 0
          BY <1>3, <1>4, <3>1
    <3>. QED  BY <1>1, <1>6, <3>2
  <2>4. k \in 1..Len(c) - 1
        BY <1>3, <1>5, <2>3
  <2>5. c[k + 1] = u.block
        BY <1>3, <1>6, <2>4
  <2>. QED  BY <1>3, <2>2, <2>4, <2>5
<1>7. CASE /\ s.md.next = 0 /\ u.block \in Blocks \ s.bitmap
           /\ v.md[s.block] = Linked(s.md, u.block)
           /\ \A x \in Blocks \ {s.block} : v.md[x] = l.md[x]
  <2> DEFINE b == u.block
             e == Append(c, b)
  <2>1. Len(c) = k
    <3>1. SUFFICES ASSUME Len(c) # k PROVE FALSE
          OBVIOUS
    <3>2. k \in 1..Len(c) - 1 /\ k + 1 \in 1..Len(c)
          BY <1>3, <1>5, <3>1
    <3>3. c[k + 1] = 0 /\ c[k + 1] \in Blocks
          BY <1>3, <1>5, <1>7, <3>2
    <3>. QED  BY <1>1, <3>3
  <2>2. b \in Blocks /\ b # s.block
        BY <1>7
  <2>3. v.md[s.block].next = b
    <3>1. s.md \in metadata /\ u.block \in Blocks
          BY <1>7 DEF LoopStates
    <3>2. Linked(s.md, u.block).next = u.block
          BY ONLY <3>1, LinkedType
    <3>. QED  BY <1>7, <3>2
  <2> HIDE DEF b
  <2>4. /\ e \in Seq(Blocks) /\ Len(e) = k + 1 /\ e[k + 1] = b
        /\ \A i \in 1..k : e[i] = c[i]
        BY <1>3, <2>1, <2>2
  <2> HIDE DEF e
  <2>5. \A i \in 1..k : v.md[e[i]].next = e[i + 1]
    <3> TAKE i \in 1..k
    <3>1. CASE i = k
          BY <2>3, <2>4, <3>1
    <3>2. CASE i # k
      <4>1. i \in 1..Len(c) - 1 /\ i + 1 \in 1..k
            BY <2>1, <3>2
      <4>2. c[i] # s.block /\ c[i] \in Blocks
            BY <1>4, <1>5, <2>1, <3>2
      <4>3. v.md[c[i]] = l.md[c[i]] /\ c[i + 1] = l.md[c[i]].next
            BY <1>3, <1>7, <4>1, <4>2
      <4>. QED  BY <2>4, <4>1, <4>3
    <3>. QED  BY <3>1, <3>2
  <2>6. v.md[b].next = 0
    <3>1. b \notin s.bitmap
          BY <1>7 DEF b
    <3>2. l.md[b].next = 0
          BY <2>2, <3>1 DEF LinksSound
    <3>. QED  BY <1>7, <2>2, <3>2
  <2>7. IsChain(v, start, e)
    <3>1. Len(e) \in 1..NUM_BLOCKS
          BY <1>1, <1>4, <2>1, <2>4
    <3>2. e[1] = start
          BY <1>3, <2>4
    <3>3. \A i \in 1..Len(e) - 1 : e[i + 1] = v.md[e[i]].next
          BY <2>4, <2>5
    <3>4. v.md[e[Len(e)]].next = 0
          BY <2>4, <2>6
    <3>. QED  BY <2>4, <3>1, <3>2, <3>3, <3>4 DEF IsChain
  <2>8. Chain(v, start) = e
        BY <1>1, <2>7, ChainIs
  <2>. QED  BY <2>4, <2>8 DEF b
<1>. QED  BY <1>6, <1>7 DEF Moves

LEMMA FilledTurn ==
    ASSUME NEW s \in LoopStates, Len(s.images) >= 1, LinkedLoop(s),
           NEW start \in s.bitmap, Last(s.images).md[start].filename # NoName,
           NEW size, NEW buffer, NEW k \in Nat \ {0}, FilledLoop(start, size, buffer, k - 1, s),
           NEW cells, HoldsPart(cells, buffer, k),
           NEW u, Moves(s, Last(s.images), u, Last(u.images), cells)
    PROVE  FilledLoop(start, size, buffer, k, u)
<1> DEFINE l == Last(s.images)
           v == Last(u.images)
           c == Chain(l, start)
           e == Chain(v, start)
<1>1. /\ LinksSound(l, s.bitmap) /\ s.block \in s.bitmap /\ s.md.next = l.md[s.block].next
      /\ l \in Image /\ l.md[start].filename # NoName
      BY LastImage DEF LinkedLoop
<1>2. /\ Len(c) >= k /\ c[k] = s.block /\ k - 1 + 1 = k
      /\ \A i \in 1..k - 1 : HoldsPart(l.data[c[i]], buffer, i)
      /\ l.md[start].file_size = size
      /\ (s.block = start => s.md.file_size = size)
      BY DEF FilledLoop
<1>3. Moves(s, l, u, v, cells)
      OBVIOUS
<1>4. start \in Blocks /\ s.block \in Blocks /\ s.md \in metadata
      BY DEF LoopStates
<1> HIDE DEF l, v
<1>5. /\ Len(e) >= k + 1 /\ e[k + 1] = u.block /\ e \in Seq(Blocks)
      /\ \A i \in 1..k : e[i] = c[i]
      BY <1>1, <1>2, <1>3, MovedChain
<1>6. c \in Seq(Blocks) /\ \A i, j \in 1..Len(c) : c[i] = c[j] => i = j
  <2>1. IsChain(l, start, c)
        BY <1>1, <1>4, FileChain
  <2>2. \A i, j \in 1..Len(c) : c[i] = c[j] => i = j
        BY <1>1, <1>4, ChainShort
  <2>. QED  BY <2>1, <2>2 DEF IsChain
<1> HIDE DEF c, e
<1>7. \A i \in 1..k : i \in 1..Len(c) /\ c[i] \in Blocks
      BY <1>2, <1>6, ElementOfSeq
<1>8. \A i \in 1..k - 1 : c[i] # s.block
      BY <1>2, <1>6, <1>7
<1>9. /\ \A j \in 1..USABLE_SPACE : v.data[s.block][j] = cells[j]
      /\ \A x \in Blocks \ {s.block} : v.data[x] = l.data[x]
      BY <1>3 DEF Moves
<1>10. ASSUME NEW i \in 1..k PROVE HoldsPart(v.data[e[i]], buffer, i)
  <2>1. CASE i = k
    <3>1. HoldsPart(v.data[s.block], buffer, k)
          BY <1>9 DEF HoldsPart
    <3>. QED  BY <1>2, <1>5, <2>1, <3>1
  <2>2. CASE i # k
    <3>1. i \in 1..k - 1
          BY <2>2
    <3>2. v.data[c[i]] = l.data[c[i]]
          BY <1>7, <1>8, <1>9, <3>1
    <3>. QED  BY <1>2, <1>5, <3>1, <3>2
  <2>. QED  BY <2>1, <2>2
<1>11. v.md[start].file_size = size /\ (u.block = start => u.md.file_size = size)
  <2>1. CASE v.md = l.md /\ u.md = l.md[u.block]
        BY <1>2, <2>1
  <2>2. CASE /\ u.block \in Blocks \ s.bitmap
             /\ v.md[s.block] = Linked(s.md, u.block)
             /\ \A x \in Blocks \ {s.block} : v.md[x] = l.md[x]
    <3>1. u.block # start
          BY <2>2
    <3>2. v.md[s.block].file_size = s.md.file_size
      <4>1. s.md \in metadata /\ u.block \in Blocks
            BY <1>4, <2>2
      <4>2. Linked(s.md, u.block).file_size = s.md.file_size
            BY ONLY <4>1, LinkedType
      <4>. QED  BY <2>2, <4>2
    <3>. QED  BY <1>2, <1>4, <2>2, <3>1, <3>2
  <2>. QED  BY <1>3, <2>1, <2>2 DEF Moves
<1>. QED  BY <1>5, <1>10, <1>11 DEF FilledLoop, v, e

\* Blocks in use that nothing leads to from outside, and that are not the file
\* that begins at start.
Elsewhere(d, used, start, K) ==
    K \subseteq used /\ start \notin K /\ \A x \in Blocks \ K : d.md[x].next \notin K

LEMMA FilledStart ==
    ASSUME NEW d \in Image, NEW used \in SUBSET Blocks, NEW start \in used, NEW size \in Nat,
           NEW K \in SUBSET Blocks, Elsewhere(d, used, start, K), NEW buffer,
           NEW s, s = LoopStart(d, used, start, size)
    PROVE  KeptLoop(d, K, s) /\ FilledLoop(start, size, buffer, 0, s)
<1> DEFINE md == Sized(d.md[start], size)
           e == PutMetadata(d, start, md)
           c == Chain(e, start)
<1>0. start \in Blocks
      OBVIOUS
<1>1. Len(s.images) = 1 /\ s.images[1] = e /\ s.block = start /\ s.md = md
      BY <1>0, LoopStartFacts
<1>2. md \in metadata /\ md.file_size = size /\ md.next = d.md[start].next
      BY <1>0, ImageParts, SizedType
<1> HIDE DEF md
<1>3. /\ e \in Image /\ e.md[start] = md /\ e.data = d.data
      /\ \A x \in Blocks \ {start} : e.md[x] = d.md[x]
      BY <1>0, <1>2, PutMetadataFacts
<1> HIDE DEF e
<1>4. Last(s.images) = e
      BY <1>1 DEF Last
<1>5. KeptLoop(d, K, s)
  <2>1. start \notin K /\ \A x \in Blocks \ K : d.md[x].next \notin K
        BY DEF Elsewhere
  <2>2. \A x \in K : e.md[x] = d.md[x] /\ e.data[x] = d.data[x]
        BY <1>3, <2>1
  <2>3. \A x \in Blocks : e.md[x].next = d.md[x].next
        BY <1>2, <1>3
  <2>. QED  BY <1>1, <1>4, <2>1, <2>2, <2>3 DEF KeptLoop
<1>6. Len(c) >= 1 /\ c[1] = start
  <2>1. IsChain(e, start, c)
        BY <1>0, <1>3, FileChain
  <2> HIDE DEF c
  <2>. QED  BY <2>1, HelloNumbers DEF IsChain
<1>7. FilledLoop(start, size, buffer, 0, s)
      BY <1>1, <1>2, <1>3, <1>4, <1>6 DEF FilledLoop
<1>. QED  BY <1>5, <1>7

LEMMA FilledLoopEnds ==
    ASSUME NEW d \in Image, NamesSound(d), NEW used \in SUBSET Blocks, d.bitmap \subseteq used,
           LinksSound(d, used), NEW start \in used, d.md[start].filename # NoName,
           NEW offset \in Nat, NEW buf \in Requests,
           NEW size, size = offset + Len(buf), NEW n, n = (size - 1) \div USABLE_SPACE,
           NEW buffer, buffer = WriteBuffer(d, Chain(d, start), offset, buf),
           NEW K \in SUBSET Blocks, Elsewhere(d, used, start, K),
           NEW s, s = WriteEnd(d, used, start, offset, buf), ~s.failed
    PROVE  /\ NamedLoop(d, used, s) /\ LinkedLoop(s)
           /\ KeptLoop(d, K, s) /\ FilledLoop(start, size, buffer, n, s)
<1> DEFINE s0 == LoopStart(d, used, start, size)
           S == {p \in Nat \X LoopStates :
                    /\ NamedLoop(d, used, p[2]) /\ LinkedLoop(p[2])
                    /\ ~p[2].failed => /\ KeptLoop(d, K, p[2])
                                       /\ FilledLoop(start, size, buffer, p[1], p[2])}
<1>1. /\ size \in Nat \ {0} /\ n \in Nat /\ n * USABLE_SPACE < size
      /\ n * USABLE_SPACE \in Nat /\ start \in Blocks
      BY WriteNumbers
<1>2. buffer \in Seq(Units) /\ Len(buffer) = size
      BY <1>1, HelloNumbers, BufferType
<1>3. s = WriteBlocks(s0, buffer, n)
      BY Zenon DEF WriteEnd
<1>4. /\ NamedLoop(d, used, s0) /\ LinkedLoop(s0)
      /\ KeptLoop(d, K, s0) /\ FilledLoop(start, size, buffer, 0, s0)
      BY <1>1, NamedStart, LinkedStart, FilledStart
<1> HIDE DEF s0
<1>5. n * USABLE_SPACE <= Len(buffer)
      BY <1>1, <1>2
<1>6. <<0, s0>> \in S
      BY <1>4 DEF NamedLoop
<1>7. ASSUME NEW k \in 1..n, NEW u, <<k - 1, u>> \in S
      PROVE  <<k, Turn(u, buffer, k)>> \in S
  <2> DEFINE cells == Part(buffer, k)
             v == WriteBlock(u, cells)
  <2>1. /\ NamedLoop(d, used, u) /\ LinkedLoop(u)
        /\ ~u.failed => KeptLoop(d, K, u) /\ FilledLoop(start, size, buffer, k - 1, u)
        BY <1>7
  <2>2. cells \in Seq(Units) /\ Len(cells) = USABLE_SPACE /\ HoldsPart(cells, buffer, k)
    <3>1. /\ buffer \in Seq(Units) /\ n \in Nat /\ n * USABLE_SPACE <= Len(buffer)
          /\ k \in 1..n /\ cells = Part(buffer, k)
          BY <1>1, <1>2, <1>5
    <3>. QED  BY ONLY <3>1, TurnCells
  <2> HIDE DEF cells
  <2>4. NamedLoop(d, used, v) /\ LinkedLoop(v)
        BY <2>1, <2>2, NamedTurn, LinkedTurn
  <2>5. Turn(u, buffer, k) = v
        BY DEF Turn, cells
  <2>6. v \in LoopStates /\ k \in Nat \ {0}
        BY <1>1, <2>4 DEF NamedLoop
  <2>7. /\ u \in LoopStates /\ Len(u.images) >= 1 /\ used \subseteq u.bitmap
        /\ \A i \in 1..Len(u.images) : SameNames(d, u.images[i])
        BY <2>1 DEF NamedLoop
  <2>8. ASSUME ~v.failed
        PROVE  KeptLoop(d, K, v) /\ FilledLoop(start, size, buffer, k, v)
    <3>1. ~u.failed /\ Moves(u, Last(u.images), v, Last(v.images), cells)
          BY <2>2, <2>7, <2>8, TurnMoves
    <3>2. K \subseteq u.bitmap /\ start \in u.bitmap
          BY <2>7 DEF Elsewhere
    <3>3. Last(u.images).md[start].filename # NoName
      <4>1. SameNames(d, Last(u.images))
            BY <2>7, LastImage
      <4>. QED  BY <1>1, <4>1 DEF SameNames
    <3> HIDE DEF v
    <3>4. KeptLoop(d, K, v)
          BY <2>1, <2>7, <3>1, <3>2, KeptTurn
    <3>5. FilledLoop(start, size, buffer, k, v)
          BY <2>1, <2>2, <2>6, <2>7, <3>1, <3>2, <3>3, FilledTurn
    <3>. QED  BY <3>4, <3>5
  <2> HIDE DEF v
  <2>. QED  BY <2>4, <2>5, <2>6, <2>8
<1> HIDE DEF S
<1>8. <<n, s>> \in S
  <2>1. TurnsKeep(S, buffer, n)
        BY <1>7, Zenon DEF TurnsKeep
  <2>2. n \in Nat /\ <<0, s0>> \in S /\ s = WriteBlocks(s0, buffer, n)
        BY <1>1, <1>3, <1>6
  <2>. QED  BY ONLY <2>1, <2>2, LoopInduction
<1>. QED  BY <1>8 DEF S

\* Where the i-th cell of a file is: which part, and where in it.
LEMMA CellPlace ==
    ASSUME NEW i \in Nat \ {0}, NEW q, q = ((i - 1) \div USABLE_SPACE) + 1,
           NEW r, r = ((i - 1) % USABLE_SPACE) + 1
    PROVE  q \in Nat \ {0} /\ r \in 1..USABLE_SPACE /\ i = (q - 1) * USABLE_SPACE + r
<1> DEFINE U == USABLE_SPACE
           a == i - 1
           k == a \div U
           m == a % U
           p == k * U
<1>1. U \in Nat \ {0} /\ a \in Nat /\ i = a + 1
      BY HelloNumbers
<1>2. q = k + 1 /\ r = m + 1
      OBVIOUS
<1> HIDE DEF U, a
<1>3. k \in Nat
      BY <1>1, Quotient
<1>4. m \in 0..U - 1 /\ a = p + m
      BY <1>1, Remainder
<1>5. p \in Int
      BY <1>1, <1>3
<1>6. (q - 1) * U = p
  <2>1. q - 1 = k
        BY <1>2, <1>3
  <2>. QED  BY <2>1
<1> HIDE DEF k, m, p
<1>7. i = p + r /\ r \in 1..U /\ q \in Nat \ {0}
      BY <1>1, <1>2, <1>3, <1>4, <1>5
<1>. QED  BY <1>6, <1>7 DEF U

\* Blocks that hold the parts of buffer, n whole ones and the rest.
PartsHeld(f, c, n, a, size, buffer) ==
    /\ \A k \in 1..n : HoldsPart(f.data[c[k]], buffer, k)
    /\ \A j \in 1..size - a : f.data[c[n + 1]][j] = buffer[a + j]

\* Read one after the other, they give buffer.
LEMMA ChainHolds ==
    ASSUME NEW f \in Image, NEW c \in Seq(Blocks), NEW n \in Nat, Len(c) >= n + 1,
           NEW a, a = n * USABLE_SPACE, NEW size \in Nat, a < size, size <= a + USABLE_SPACE,
           NEW buffer, PartsHeld(f, c, n, a, size, buffer),
           NEW cells, cells = ChainCells(f, c)
    PROVE  size <= Len(cells) /\ \A i \in 1..size : cells[i] = buffer[i]
<1> DEFINE U == USABLE_SPACE
           L == Len(c)
<1>1. U \in Nat \ {0} /\ L \in Nat /\ a \in Nat
      BY HelloNumbers
<1>2. size <= L * U
  <2>1. (n + 1) * U <= L * U
        BY <1>1, TimesGrows
  <2>2. (n + 1) * U = a + U /\ L * U \in Int
        BY <1>1
  <2> HIDE DEF U, L
  <2>. QED  BY <1>1, <2>1, <2>2 DEF U
<1>3. /\ Len(cells) = L * U
      /\ \A i \in 1..Len(cells) :
            cells[i] = f.data[c[((i - 1) \div USABLE_SPACE) + 1]][((i - 1) % USABLE_SPACE) + 1]
      BY ChainCellsType
<1>4. size <= Len(cells)
      BY <1>2, <1>3
<1>5. ASSUME NEW i \in 1..size PROVE cells[i] = buffer[i]
  <2> DEFINE q == ((i - 1) \div USABLE_SPACE) + 1
             r == ((i - 1) % USABLE_SPACE) + 1
             p == (q - 1) * U
  <2>1. i \in Nat \ {0} /\ i \in 1..Len(cells)
    <3>1. Len(cells) \in Int
          BY <1>1, <1>3
    <3>. QED  BY <1>4, <3>1
  <2>2. q \in Nat \ {0} /\ r \in 1..U /\ i = p + r
        BY <2>1, CellPlace
  <2>3. cells[i] = f.data[c[q]][r]
        BY <1>3, <2>1
  <2> HIDE DEF q, r
  <2>4. CASE q <= n
    <3>1. HoldsPart(f.data[c[q]], buffer, q)
          BY <2>2, <2>4 DEF PartsHeld
    <3>2. f.data[c[q]][r] = buffer[p + r]
          BY <2>2, <3>1 DEF HoldsPart
    <3>. QED  BY <2>2, <2>3, <3>2
  <2>5. CASE q = n + 1
    <3>1. q - 1 = n
          BY <2>5
    <3>2. p = a
          BY <3>1
    <3> HIDE DEF p, U
    <3>3. r \in 1..size - a
          BY <1>1, <2>2, <3>2
    <3>. QED  BY <2>2, <2>3, <2>5, <3>2, <3>3 DEF PartsHeld
  <2>6. CASE q > n + 1
    <3>1. (n + 1) * U <= p
          BY <1>1, <2>2, <2>6, TimesGrows
    <3>2. (n + 1) * U = a + U /\ p \in Int
          BY <1>1, <2>2
    <3> HIDE DEF p, U
    <3>3. i > size
          BY <1>1, <2>2, <3>1, <3>2 DEF U
    <3>. QED  BY <3>3
  <2>. QED  BY <2>2, <2>4, <2>5, <2>6
<1>. QED  BY <1>4, <1>5

\* What follows the loop: the last block is filled, and the bitmap saved.
LEMMA FinishedImage ==
    ASSUME NEW s \in LoopStates, Len(s.images) >= 1, NEW cells \in Seq(Units),
           NEW l, l = Last(s.images),
           NEW images, images = FinishWrite(s, cells), NEW g, g = images[Len(images)]
    PROVE  /\ g \in Image /\ g.bitmap = s.bitmap /\ g.md = l.md
           /\ \A k \in 1..USABLE_SPACE : k <= Len(cells) => g.data[s.block][k] = cells[k]
           /\ \A x \in Blocks \ {s.block} : g.data[x] = l.data[x]
<1> DEFINE f == PutData(l, s.block, cells)
           h == PutBitmap(f, s.bitmap)
<1>1. g = h
      BY FinishWriteFacts
<1>2. l \in Image /\ s.block \in Blocks /\ s.bitmap \in SUBSET Blocks
      BY LastImage DEF LoopStates
<1>3. /\ f \in Image /\ f.md = l.md
      /\ \A k \in 1..USABLE_SPACE :
            f.data[s.block][k] = IF k <= Len(cells) THEN cells[k] ELSE l.data[s.block][k]
      /\ \A c \in Blocks \ {s.block} : f.data[c] = l.data[c]
  <2>1. l \in Image /\ s.block \in Blocks /\ cells \in Seq(Units) /\ f = PutData(l, s.block, cells)
        BY <1>2
  <2>2. SUFFICES ASSUME NEW b, b = s.block
        PROVE  /\ f \in Image /\ f.md = l.md
               /\ \A k \in 1..USABLE_SPACE :
                     f.data[b][k] = IF k <= Len(cells) THEN cells[k] ELSE l.data[b][k]
               /\ \A c \in Blocks \ {b} : f.data[c] = l.data[c]
        OBVIOUS
  <2>3. l \in Image /\ b \in Blocks /\ cells \in Seq(Units) /\ f = PutData(l, b, cells)
        BY <2>1, <2>2
  <2>. QED  BY ONLY <2>3, PutDataFacts
<1> HIDE DEF f
<1>4. h \in Image /\ h.bitmap = s.bitmap /\ h.md = f.md /\ h.data = f.data
      BY <1>2, <1>3, PutBitmapFacts
<1>. QED  BY <1>1, <1>3, <1>4

\* A write that finds its blocks: the file holds what the write computed, all of
\* it in its chain, and the blocks elsewhere hold what they held.
LEMMA WriteEffect ==
    ASSUME NEW d \in Image, NamesSound(d), NEW used \in SUBSET Blocks, d.bitmap \subseteq used,
           LinksSound(d, used), NEW start \in used, d.md[start].filename # NoName,
           NEW offset \in Nat, NEW buf \in Requests, NEW size, size = offset + Len(buf),
           NEW buffer, buffer = WriteBuffer(d, Chain(d, start), offset, buf),
           NEW K \in SUBSET Blocks, Elsewhere(d, used, start, K),
           NEW s, s = WriteEnd(d, used, start, offset, buf), ~s.failed,
           NEW images, images = FinishWrite(s, Rest(d, start, offset, buf)),
           NEW g, g = images[Len(images)]
    PROVE  /\ g \in Image
           /\ \A x \in K : g.md[x] = d.md[x] /\ g.data[x] = d.data[x]
           /\ g.md[start].file_size = size
           /\ size <= Len(ChainCells(g, Chain(g, start)))
           /\ \A i \in 1..size : ChainCells(g, Chain(g, start))[i] = buffer[i]
<1> DEFINE n == (size - 1) \div USABLE_SPACE
           a == n * USABLE_SPACE
           rest == Rest(d, start, offset, buf)
           l == Last(s.images)
           c == Chain(l, start)
<1>0. start \in Blocks
      OBVIOUS
<1>1. /\ size \in Nat \ {0} /\ n \in Nat /\ a \in Nat
      /\ a < size /\ size <= a + USABLE_SPACE
      BY WriteNumbers
<1>2. rest \in Seq(Units) /\ Len(rest) = size - a /\ HoldsFrom(rest, buffer, a)
  <2>1. /\ d \in Image /\ start \in Blocks /\ offset \in Nat /\ buf \in Requests
        /\ size = offset + Len(buf) /\ a = WholeBlocks(size)
        /\ buffer = WriteBuffer(d, Chain(d, start), offset, buf)
        /\ rest = Rest(d, start, offset, buf)
        BY <1>0 DEF WholeBlocks
  <2> HIDE DEF a, rest
  <2>. QED  BY <2>1, RestCells
<1>3. /\ NamedLoop(d, used, s) /\ LinkedLoop(s)
      /\ KeptLoop(d, K, s) /\ FilledLoop(start, size, buffer, n, s)
      BY FilledLoopEnds
<1>4. /\ Len(c) >= n + 1 /\ c[n + 1] = s.block
      /\ \A i \in 1..n : HoldsPart(l.data[c[i]], buffer, i)
      /\ l.md[start].file_size = size
      BY <1>3 DEF FilledLoop
<1>5. images = FinishWrite(s, rest)
      OBVIOUS
<1>6. /\ s \in LoopStates /\ Len(s.images) >= 1 /\ used \subseteq s.bitmap
      /\ \A i \in 1..Len(s.images) : SameNames(d, s.images[i])
      BY <1>3 DEF NamedLoop
<1>7. s.block \in Blocks /\ l \in Image /\ SameNames(d, l) /\ LinksSound(l, s.bitmap)
      BY <1>3, <1>6, LastImage DEF LoopStates, LinkedLoop
<1>8. /\ s.block \notin K
      /\ \A x \in K : l.md[x] = d.md[x] /\ l.data[x] = d.data[x]
      BY <1>3 DEF KeptLoop
<1> HIDE DEF n, a, rest, l
<1>9. /\ g \in Image /\ g.md = l.md
      /\ \A k \in 1..USABLE_SPACE : k <= Len(rest) => g.data[s.block][k] = rest[k]
      /\ \A x \in Blocks \ {s.block} : g.data[x] = l.data[x]
  <2>1. l = Last(s.images)
        BY DEF l
  <2>. QED  BY <1>2, <1>5, <1>6, <2>1, FinishedImage
<1>10. /\ IsChain(l, start, c) /\ Len(c) < NUM_BLOCKS
       /\ \A i, j \in 1..Len(c) : c[i] = c[j] => i = j
  <2>1. l.md[start].filename # NoName
        BY <1>0, <1>7 DEF SameNames
  <2>. QED  BY <1>0, <1>7, <2>1, FileChain, ChainShort
<1> HIDE DEF c
<1>11. Chain(g, start) = c
  <2>1. IsChain(g, start, c)
        BY <1>9, <1>10 DEF IsChain
  <2>. QED  BY <1>0, <1>9, <2>1, ChainIs
<1>12. c \in Seq(Blocks)
      BY <1>10 DEF IsChain
<1>13. ASSUME NEW k \in 1..n PROVE HoldsPart(g.data[c[k]], buffer, k)
  <2>1. k \in 1..Len(c) /\ n + 1 \in 1..Len(c) /\ k # n + 1
        BY <1>1, <1>4, <1>12
  <2>2. c[k] \in Blocks \ {s.block}
        BY <1>4, <1>10, <1>12, <2>1, ElementOfSeq
  <2>. QED  BY <1>4, <1>9, <2>2
<1>14. ASSUME NEW j \in 1..size - a PROVE g.data[c[n + 1]][j] = buffer[a + j]
  <2>1. j \in 1..Len(rest) /\ j \in 1..USABLE_SPACE /\ j <= Len(rest)
        BY <1>1, <1>2, HelloNumbers
  <2>. QED  BY <1>2, <1>4, <1>9, <2>1 DEF HoldsFrom
<1> DEFINE cells == ChainCells(g, c)
<1>15. size <= Len(cells) /\ \A i \in 1..size : cells[i] = buffer[i]
  <2>1. a = n * USABLE_SPACE /\ size \in Nat
        BY <1>1 DEF a
  <2>2. cells = ChainCells(g, c)
        OBVIOUS
  <2> HIDE DEF cells
  <2>3. /\ g \in Image /\ c \in Seq(Blocks) /\ n \in Nat /\ Len(c) >= n + 1
        /\ a = n * USABLE_SPACE /\ size \in Nat /\ a < size /\ size <= a + USABLE_SPACE
        /\ PartsHeld(g, c, n, a, size, buffer) /\ cells = ChainCells(g, c)
        BY <1>1, <1>4, <1>9, <1>12, <1>13, <1>14, <2>1, <2>2 DEF PartsHeld
  <2>. QED  BY ONLY <2>3, ChainHolds
<1>16. \A x \in K : g.md[x] = d.md[x] /\ g.data[x] = d.data[x]
      BY <1>8, <1>9
<1>. QED  BY <1>4, <1>9, <1>11, <1>15, <1>16

LEMMA ContentsAre ==
    ASSUME NEW d \in Image, NEW b \in Blocks, FileFits(d, b),
           NEW size, size = d.md[b].file_size,
           NEW cells, cells = ChainCells(d, Chain(d, b)), NEW x, x = Contents(d, b)
    PROVE  /\ size \in Nat /\ cells \in Seq(Units) /\ size <= Len(cells)
           /\ x \in Seq(Units) /\ Len(x) = size /\ \A i \in 1..size : x[i] = cells[i]
<1>1. size \in Nat /\ size <= Len(cells)
      BY ImageParts DEF FileFits
<1>2. cells \in Seq(Units)
  <2> DEFINE c == Chain(d, b)
  <2>1. IsChain(d, b, c)
        BY FileChain
  <2> HIDE DEF c
  <2>2. c \in Seq(Blocks)
        BY <2>1 DEF IsChain
  <2>. QED  BY <2>2, ChainCellsType DEF c
<1>3. x = SubSeq(cells, 1, Min({size, Len(cells)}))
      BY Zenon DEF Contents
<1>4. Min({size, Len(cells)}) = size
  <2> DEFINE n == Len(cells)
  <2>1. n \in Int /\ size \in Int /\ size <= n
        BY <1>1, <1>2
  <2> HIDE DEF n
  <2>2. Min({size, n}) = size
        BY <2>1, MinOfTwo
  <2>. QED  BY <2>2 DEF n
<1>5. x = SubSeq(cells, 1, size)
      BY <1>3, <1>4
<1>6. /\ x \in Seq(Units) /\ (1 <= size + 1 => Len(x) = size - 1 + 1)
      /\ \A k \in 1..size - 1 + 1 : x[k] = cells[1 + k - 1]
  <2>1. cells \in Seq(Units) /\ 1 \in Int /\ size \in Int /\ 1 >= 1 /\ size <= Len(cells)
        BY <1>1, <1>2
  <2>. QED  BY <1>5, <2>1, PartType
<1>7. /\ 1 <= size + 1 /\ size - 1 + 1 = size
      /\ \A k \in 1..size : k \in 1..size - 1 + 1 /\ 1 + k - 1 = k
      BY <1>1
<1>. QED  BY <1>1, <1>2, <1>6, <1>7

\* hello_write computes the file as it was up to offset, and buf after it.
LEMMA BufferIs ==
    ASSUME NEW d \in Image, NEW b \in Blocks, FileFits(d, b),
           NEW offset \in Nat, offset <= d.md[b].file_size, NEW buf \in Seq(Cells),
           NEW buffer, buffer = WriteBuffer(d, Chain(d, b), offset, buf)
    PROVE  buffer = SubSeq(Contents(d, b), 1, offset) \o buf
<1> DEFINE old == ChainCells(d, Chain(d, b))
           size == d.md[b].file_size
           x == Contents(d, b)
           head == SubSeq(x, 1, offset)
           whole == head \o buf
<1>1. /\ size \in Nat /\ old \in Seq(Units) /\ size <= Len(old) /\ offset <= size
      /\ x \in Seq(Units) /\ Len(x) = size /\ \A i \in 1..size : x[i] = old[i]
      BY ContentsAre
<1>2. buffer \in Seq(Units) /\ Len(buffer) = offset + Len(buf)
      BY BufferType
<1>3. buffer = [k \in 1..(offset + Len(buf)) |->
            IF k > offset THEN buf[k - offset]
            ELSE IF k <= Len(old) THEN old[k] ELSE StackCell]
      BY Zenon DEF WriteBuffer
<1> HIDE DEF old, size, x
<1>4. head \in Seq(Units) /\ Len(head) = offset /\ \A k \in 1..offset : head[k] = x[k]
  <2>1. x \in Seq(Units) /\ offset \in Nat /\ offset <= Len(x)
        BY <1>1
  <2>2. /\ head \in Seq(Units) /\ (1 <= offset + 1 => Len(head) = offset - 1 + 1)
        /\ \A k \in 1..offset - 1 + 1 : head[k] = x[1 + k - 1]
    <3>1. x \in Seq(Units) /\ 1 \in Int /\ offset \in Int /\ 1 >= 1 /\ offset <= Len(x)
          BY <2>1
    <3>2. head = SubSeq(x, 1, offset)
          OBVIOUS
    <3> HIDE DEF head
    <3>. QED  BY <3>1, <3>2, PartType
  <2> HIDE DEF head
  <2>3. /\ 1 <= offset + 1 /\ offset - 1 + 1 = offset
        /\ \A k \in 1..offset : k \in 1..offset - 1 + 1 /\ 1 + k - 1 = k
        OBVIOUS
  <2>. QED  BY <2>2, <2>3
<1> HIDE DEF head
<1>5. buf \in Seq(Units) /\ Len(buf) \in Nat
      BY DEF Units
<1>6. /\ whole \in Seq(Units) /\ Len(whole) = offset + Len(buf)
      /\ \A k \in 1..offset + Len(buf) :
            whole[k] = IF k <= offset THEN head[k] ELSE buf[k - offset]
      BY <1>4, <1>5
<1> HIDE DEF whole
<1>7. ASSUME NEW k \in 1..Len(buffer) PROVE buffer[k] = whole[k]
  <2>0. k \in 1..offset + Len(buf) /\ k \in Nat
        BY <1>2, <1>5
  <2>1. CASE k > offset
    <3>1. buffer[k] = buf[k - offset]
          BY <1>3, <2>0, <2>1
    <3>2. ~(k <= offset)
          BY <2>0, <2>1
    <3>. QED  BY <1>6, <2>0, <3>1, <3>2
  <2>2. CASE ~(k > offset)
    <3>1. k \in 1..offset /\ k \in 1..size /\ k <= Len(old) /\ k <= offset
          BY <1>1, <2>0, <2>2
    <3>2. buffer[k] = old[k]
          BY <1>3, <2>0, <2>2, <3>1
    <3>3. whole[k] = head[k]
          BY <1>6, <2>0, <3>1
    <3>4. head[k] = x[k] /\ x[k] = old[k]
          BY <1>1, <1>4, <3>1
    <3>. QED  BY <3>2, <3>3, <3>4
  <2>. QED  BY <2>1, <2>2
<1>8. buffer = whole
      BY <1>2, <1>6, <1>7, SameSeq
<1>. QED  BY <1>8 DEF whole, head, x

SizesFit(d) == \A b \in Blocks : d.md[b].filename # NoName => FileFits(d, b)

\* The blocks of another file are elsewhere.
LEMMA OtherFile ==
    ASSUME NEW d \in Image, NamesSound(d), NEW used \in SUBSET Blocks, d.bitmap \subseteq used,
           LinksSound(d, used), NEW start \in Blocks, d.md[start].filename # NoName,
           NEW b \in Blocks, d.md[b].filename # NoName, b # start,
           NEW c, c = Chain(d, b), NEW K, K = {c[i] : i \in 1..Len(c)}
    PROVE  K \in SUBSET Blocks /\ Elsewhere(d, used, start, K)
<1>1. /\ c \in Seq(Blocks) /\ Len(c) \in Nat /\ c[1] = b
      /\ \A k \in 1..Len(c) - 1 : c[k + 1] = d.md[c[k]].next
  <2>1. IsChain(d, b, c)
        BY FileChain
  <2>. QED  BY <2>1 DEF IsChain
<1>2. \A i \in 1..Len(c) : c[i] \in Blocks
      BY <1>1, ElementOfSeq
<1>3. b \in used
      BY DEF NamesSound
<1>4. \A i \in 1..Len(c) : c[i] \in used
      BY <1>3, ChainMarked
<1>5. start \notin K
  <2> DEFINE e == Chain(d, start)
  <2>1. IsChain(d, start, e)
        BY FileChain
  <2>2. e = Chain(d, start)
        OBVIOUS
  <2> HIDE DEF e
  <2>3. 1 \in 1..Len(e) /\ e[1] = start
        BY <2>1, HelloNumbers DEF IsChain
  <2>4. \A i \in 1..Len(c) : c[i] = e[1] => b = start
        BY <2>2, <2>3, ChainsMeet
  <2>. QED  BY <2>3, <2>4
<1>6. ASSUME NEW x \in Blocks \ K PROVE d.md[x].next \notin K
  <2> SUFFICES ASSUME NEW i \in 1..Len(c), d.md[x].next = c[i] PROVE FALSE
      OBVIOUS
  <2> DEFINE y == c[i]
  <2>1. y \in Blocks /\ y = d.md[x].next
        BY <1>2
  <2>2. d.md[y].filename = NoName
    <3> HIDE DEF y
    <3>. QED  BY <2>1, LinkedTo
  <2>3. i # 1
        BY <1>1, <2>2
  <2> DEFINE k == i - 1
  <2>4. k \in 1..Len(c) - 1 /\ k \in 1..Len(c) /\ k + 1 = i
        BY <1>1, <2>3
  <2>5. y = d.md[c[k]].next
        BY <1>1, <2>4
  <2> DEFINE z == c[k]
  <2>6. z \in Blocks /\ z \in K
        BY <1>2, <2>4
  <2>7. y = d.md[z].next
        BY <2>5
  <2> HIDE DEF y, z
  <2>8. z = x
        BY <2>1, <2>6, <2>7, LinkedOnce
  <2>. QED  BY <2>6, <2>8
<1>. QED  BY <1>2, <1>4, <1>5, <1>6 DEF Elsewhere

\* One call of hello_write that finds its blocks, on the whole store.
LEMMA WriteFiles ==
    ASSUME NEW d \in Image, NamesSound(d), NEW used \in SUBSET Blocks, d.bitmap \subseteq used,
           LinksSound(d, used), SizesFit(d),
           NEW start \in used, d.md[start].filename # NoName,
           NEW offset \in Nat, offset <= d.md[start].file_size, NEW buf \in Requests,
           NEW s, s = WriteEnd(d, used, start, offset, buf), ~s.failed,
           NEW images, images = FinishWrite(s, Rest(d, start, offset, buf)),
           NEW g, g = images[Len(images)]
    PROVE  /\ FileFits(g, start)
           /\ Contents(g, start) = SubSeq(Contents(d, start), 1, offset) \o buf
           /\ \A b \in Blocks : d.md[b].filename # NoName /\ b # start =>
                 FileFits(g, b) /\ Contents(g, b) = Contents(d, b)
<1> DEFINE size == offset + Len(buf)
           buffer == WriteBuffer(d, Chain(d, start), offset, buf)
<1>0. start \in Blocks /\ buf \in Seq(Cells)
      BY HelloNumbers
<1>1. ASSUME NEW K \in SUBSET Blocks, Elsewhere(d, used, start, K)
      PROVE  /\ g \in Image
             /\ \A x \in K : g.md[x] = d.md[x] /\ g.data[x] = d.data[x]
             /\ g.md[start].file_size = size
             /\ size <= Len(ChainCells(g, Chain(g, start)))
             /\ \A i \in 1..size : ChainCells(g, Chain(g, start))[i] = buffer[i]
  <2>1. size = offset + Len(buf) /\ buffer = WriteBuffer(d, Chain(d, start), offset, buf)
        OBVIOUS
  <2> HIDE DEF size, buffer
  <2>. QED  BY <1>1, <2>1, WriteEffect
<1>2. /\ g \in Image /\ g.md[start].file_size = size
      /\ size <= Len(ChainCells(g, Chain(g, start)))
      /\ \A i \in 1..size : ChainCells(g, Chain(g, start))[i] = buffer[i]
  <2>1. {} \in SUBSET Blocks /\ Elsewhere(d, used, start, {})
        BY DEF Elsewhere
  <2>. QED  BY <1>1, <2>1
<1>3. FileFits(g, start)
      BY <1>2 DEF FileFits
<1>4. buffer \in Seq(Units) /\ Len(buffer) = size
      BY <1>0, BufferType
<1>5. buffer = SubSeq(Contents(d, start), 1, offset) \o buf
  <2>1. FileFits(d, start)
        BY <1>0 DEF SizesFit
  <2>. QED  BY <1>0, <2>1, BufferIs
<1> DEFINE x == Contents(g, start)
<1>6. x = buffer
  <2> HIDE DEF buffer, size
  <2> DEFINE cells == ChainCells(g, Chain(g, start))
  <2>1. /\ x \in Seq(Units) /\ Len(x) = size /\ \A i \in 1..size : x[i] = cells[i]
        BY <1>0, <1>2, <1>3, ContentsAre
  <2>2. \A i \in 1..size : cells[i] = buffer[i]
        BY <1>2
  <2> HIDE DEF x, cells
  <2>3. Len(x) = Len(buffer) /\ \A i \in 1..Len(x) : x[i] = buffer[i]
        BY <1>4, <2>1, <2>2
  <2>. QED  BY <1>4, <2>1, <2>3, SameSeq
<1>7. ASSUME NEW b \in Blocks, d.md[b].filename # NoName, b # start
      PROVE  FileFits(g, b) /\ Contents(g, b) = Contents(d, b)
  <2> DEFINE c == Chain(d, b)
             K == {c[i] : i \in 1..Len(c)}
  <2>1. c = Chain(d, b) /\ K = {c[i] : i \in 1..Len(c)}
        OBVIOUS
  <2> HIDE DEF c, K
  <2>2. K \in SUBSET Blocks /\ Elsewhere(d, used, start, K)
        BY <1>0, <1>7, <2>1, OtherFile
  <2>3. \A i \in 1..Len(c) : g.md[c[i]] = d.md[c[i]] /\ g.data[c[i]] = d.data[c[i]]
        BY <1>1, <2>1, <2>2
  <2>4. Contents(g, b) = Contents(d, b) /\ (FileFits(d, b) => FileFits(g, b))
    <3>1. d \in Image /\ g \in Image /\ b \in Blocks /\ c = Chain(d, b)
          BY <1>2, <2>1
    <3>. QED  BY ONLY <2>3, <3>1, SameFile
  <2>. QED  BY <1>7, <2>4 DEF SizesFit
<1>. QED  BY <1>3, <1>5, <1>6, <1>7

\* One call of hello_create on the whole store: the files it finds stay, and a
\* new one is empty.
Kept(d, e) ==
    \A b \in Blocks : d.md[b].filename # NoName =>
        /\ e.md[b].filename = d.md[b].filename
        /\ FileFits(e, b) /\ Contents(e, b) = Contents(d, b)

LEMMA KeptSame ==
    ASSUME NEW d, SizesFit(d) PROVE Kept(d, d)
BY DEF Kept, SizesFit

\* A block that is not in use is not of a file.
LEMMA FileInUse ==
    ASSUME NEW d \in Image, NamesSound(d), LinksSound(d, d.bitmap), SizesFit(d),
           NEW e \in Image,
           \A x \in d.bitmap : e.md[x] = d.md[x] /\ e.data[x] = d.data[x]
    PROVE  Kept(d, e)
<1> SUFFICES ASSUME NEW b \in Blocks, d.md[b].filename # NoName
             PROVE  /\ e.md[b].filename = d.md[b].filename
                    /\ FileFits(e, b) /\ Contents(e, b) = Contents(d, b)
    BY DEF Kept
<1>1. b \in d.bitmap /\ d.bitmap \in SUBSET Blocks
      BY ImageParts DEF NamesSound
<1> DEFINE c == Chain(d, b)
<1>2. c = Chain(d, b)
      OBVIOUS
<1> HIDE DEF c
<1>3. \A i \in 1..Len(c) : c[i] \in d.bitmap
      BY <1>1, <1>2, ChainMarked
<1>4. \A i \in 1..Len(c) : e.md[c[i]] = d.md[c[i]] /\ e.data[c[i]] = d.data[c[i]]
      BY <1>3
<1>5. Contents(e, b) = Contents(d, b) /\ (FileFits(d, b) => FileFits(e, b))
  <2>1. d \in Image /\ e \in Image /\ b \in Blocks
        OBVIOUS
  <2>. QED  BY ONLY <1>2, <1>4, <2>1, SameFile
<1>. QED  BY <1>1, <1>5 DEF SizesFit

EmptyFile(e, b) == FileFits(e, b) /\ Contents(e, b) = <<>>

LEMMA NothingInIt ==
    ASSUME NEW e \in Image, NEW b \in Blocks, e.md[b].file_size = 0
    PROVE  EmptyFile(e, b)
<1> DEFINE c == Chain(e, b)
           cells == ChainCells(e, c)
           x == Contents(e, b)
<1>1. IsChain(e, b, c)
      BY FileChain
<1>2. Len(cells) \in Nat
  <2> HIDE DEF c
  <2>1. c \in Seq(Blocks)
        BY <1>1 DEF IsChain
  <2>2. cells \in Seq(Units)
        BY <2>1, ChainCellsType
  <2>. QED  BY <2>2
<1>3. FileFits(e, b)
      BY <1>2 DEF FileFits
<1>4. x \in Seq(Units) /\ Len(x) = 0
      BY <1>3, ContentsAre
<1> HIDE DEF x
<1>5. x = <<>>
      BY <1>4
<1>. QED  BY <1>3, <1>5 DEF EmptyFile, x

\* What hello_create of name n did, if anything.
Created(d, e, n, b) ==
    /\ Entries(d, d.bitmap, n) = {} /\ n \in Names /\ d.md[b].filename = NoName
    /\ e.md[b].filename = n /\ EmptyFile(e, b)
    /\ \A x \in Blocks \ {b} : e.md[x].filename = d.md[x].filename

LEMMA CreateFiles ==
    ASSUME NEW d \in Image, NamesSound(d), LinksSound(d, d.bitmap), SizesFit(d),
           NEW n \in Names \cup LongNames, NEW r, r = hello_create(d, n),
           NEW e, e = IF Len(r.images) = 0 THEN d ELSE r.images[Len(r.images)]
    PROVE  /\ Kept(d, e)
           /\ \/ \A b \in Blocks : e.md[b].filename = d.md[b].filename
              \/ \E b \in Blocks : Created(d, e, n, b)
<1> DEFINE b == NextAvailableBlock(d.bitmap)
           saved == PutBitmap(d, d.bitmap \cup {b})
           put == PutMetadata(saved, b, Fresh(n))
<1>1. \/ r.images = <<>> /\ r.bitmap = d.bitmap
      \/ /\ Entries(d, d.bitmap, n) = {} /\ b \in Blocks \ d.bitmap
         /\ saved \in Image /\ saved.md = d.md /\ saved.data = d.data
         /\ \/ r.images = <<saved>>
            \/ n \in Names /\ r.images = <<saved, put>> /\ put \in Image
               /\ put.data = d.data /\ put.md[b] = Fresh(n)
               /\ \A c \in Blocks \ {b} : put.md[c] = d.md[c]
  <2> HIDE DEF b, saved, put
  <2>1. /\ b = NextAvailableBlock(d.bitmap) /\ saved = PutBitmap(d, d.bitmap \cup {b})
        /\ put = PutMetadata(saved, b, Fresh(n))
        BY Zenon DEF b, saved, put
  <2>. QED  BY <2>1, CreateCases
<1> HIDE DEF b, saved, put
<1>2. CASE r.images = <<>>
  <2>1. e = d
        BY <1>2
  <2>. QED  BY <2>1, KeptSame
<1>3. CASE saved \in Image /\ saved.md = d.md /\ saved.data = d.data /\ r.images = <<saved>>
  <2>1. e = saved
        BY <1>3
  <2>2. Kept(d, e)
        BY <1>3, <2>1, FileInUse
  <2>. QED  BY <1>3, <2>1, <2>2
<1>4. CASE /\ Entries(d, d.bitmap, n) = {} /\ b \in Blocks \ d.bitmap
           /\ n \in Names /\ r.images = <<saved, put>> /\ put \in Image
           /\ put.data = d.data /\ put.md[b] = Fresh(n)
           /\ \A c \in Blocks \ {b} : put.md[c] = d.md[c]
  <2>1. e = put
        BY <1>4
  <2>2. d.bitmap \subseteq Blocks
        BY ImageParts
  <2>3. Kept(d, e)
        BY <1>4, <2>1, <2>2, FileInUse
  <2>4. e.md[b].filename = n /\ e.md[b].file_size = 0
        BY <1>4, <2>1 DEF Fresh
  <2>5. EmptyFile(e, b)
        BY <1>4, <2>1, <2>4, NothingInIt
  <2>6. d.md[b].filename = NoName
        BY <1>4 DEF NamesSound
  <2>7. Created(d, e, n, b)
        BY <1>4, <2>1, <2>4, <2>5, <2>6 DEF Created
  <2>. QED  BY <1>4, <2>3, <2>7
<1>. QED  BY <1>1, <1>2, <1>3, <1>4
-----------------------------------------------------------------------------
(* The map from names to contents *)

FileOf(d, n) == IF Entries(d, d.bitmap, n) # {} THEN hello_read(d, n) ELSE NoName
FilesOf(d)   == [n \in Names |-> FileOf(d, n)]

LEMMA FileOfNamed ==
    ASSUME NEW d \in Image, NamesSound(d), NEW n \in Names, NEW b \in Blocks, d.md[b].filename = n
    PROVE  FileOf(d, n) = Contents(d, b)
<1>1. n # NoName
      BY HelloNumbers
<1>2. b \in Entries(d, d.bitmap, n)
      BY <1>1 DEF NamesSound, Entries
<1>3. FileStart(d, d.bitmap, n) = b
      BY <1>2, NamedEntries
<1>4. hello_read(d, n) = Contents(d, FileStart(d, d.bitmap, n))
      BY Zenon DEF hello_read, Contents
<1>. QED  BY <1>2, <1>3, <1>4 DEF FileOf

LEMMA FileOfMissing ==
    ASSUME NEW d \in Image, NEW n, \A b \in Blocks : d.md[b].filename # n
    PROVE  FileOf(d, n) = NoName
<1>1. d.bitmap \subseteq Blocks
      BY ImageParts
<1>. QED  BY <1>1 DEF FileOf, Entries

\* A file that keeps its block and its contents is the same to a client.
LEMMA FileStays ==
    ASSUME NEW d \in Image, NamesSound(d), NEW e \in Image, NamesSound(e), NEW n \in Names,
           \A b \in Blocks : d.md[b].filename = n <=> e.md[b].filename = n,
           \A b \in Blocks : d.md[b].filename = n => Contents(e, b) = Contents(d, b)
    PROVE  FileOf(e, n) = FileOf(d, n)
<1>1. CASE \E b \in Blocks : d.md[b].filename = n
  <2>1. PICK b \in Blocks : d.md[b].filename = n
        BY <1>1
  <2>. QED  BY <2>1, FileOfNamed
<1>2. CASE \A b \in Blocks : d.md[b].filename # n
      BY <1>2, FileOfMissing
<1>. QED  BY <1>1, <1>2

\* hello_create makes an empty file of a name that had none.
LEMMA FilesCreated ==
    ASSUME NEW d \in Image, NamesSound(d), NEW e \in Image, NamesSound(e), Kept(d, e),
           NEW n, NEW b \in Blocks, Created(d, e, n, b)
    PROVE  /\ n \in Names /\ FileOf(d, n) = NoName /\ FileOf(e, n) = <<>>
           /\ \A m \in Names \ {n} : FileOf(e, m) = FileOf(d, m)
<1>1. n \in Names /\ n # NoName
      BY HelloNumbers DEF Created
<1>2. FileOf(d, n) = NoName
      BY DEF Created, FileOf
<1>3. FileOf(e, n) = <<>>
      BY <1>1, FileOfNamed DEF Created, EmptyFile
<1>4. ASSUME NEW m \in Names \ {n} PROVE FileOf(e, m) = FileOf(d, m)
  <2>1. m # NoName
        BY HelloNumbers
  <2>2. \A x \in Blocks : d.md[x].filename = m => Contents(e, x) = Contents(d, x)
        BY <2>1 DEF Kept
  <2>3. \A x \in Blocks : d.md[x].filename = m <=> e.md[x].filename = m
        BY <2>1 DEF Created
  <2>. QED  BY <2>2, <2>3, FileStays
<1>. QED  BY <1>1, <1>2, <1>3, <1>4

FilesInv == LinksInv /\ SizesFit(disk)

\* What hello_create does to the store.
LEMMA CreateStep ==
    ASSUME FilesInv, LinksInv', NEW n \in Names \cup LongNames, Create(n)
    PROVE  /\ SizesFit(disk')
           /\ \/ FilesOf(disk') = FilesOf(disk)
              \/ /\ n \in Names /\ FileOf(disk, n) = NoName /\ FileOf(disk', n) = <<>>
                 /\ \A m \in Names \ {n} : FileOf(disk', m) = FileOf(disk, m)
<1>1. /\ disk \in Image /\ NamesSound(disk) /\ LinksSound(disk, disk.bitmap) /\ SizesFit(disk)
      /\ disk' \in Image /\ NamesSound(disk')
      BY DEF FilesInv, LinksInv, NamesInv
<1> DEFINE r == hello_create(disk, n)
<1>2. r.images \in Seq(Image)
      BY <1>1, CreateKeepsNames
<1>3. disk' = Last(<<disk>> \o r.images)
      BY DEF Create, Return
<1>4. r = hello_create(disk, n)
      OBVIOUS
<1> HIDE DEF r
<1>5. disk' = IF Len(r.images) = 0 THEN disk ELSE r.images[Len(r.images)]
      BY <1>1, <1>2, <1>3, ReturnImage
<1>6. /\ Kept(disk, disk')
      /\ \/ \A b \in Blocks : disk'.md[b].filename = disk.md[b].filename
         \/ \E b \in Blocks : Created(disk, disk', n, b)
      BY <1>1, <1>4, <1>5, CreateFiles
<1>7. CASE \A b \in Blocks : disk'.md[b].filename = disk.md[b].filename
  <2>1. SizesFit(disk')
        BY <1>6, <1>7 DEF Kept, SizesFit
  <2>2. ASSUME NEW m \in Names PROVE FileOf(disk', m) = FileOf(disk, m)
    <3>1. m # NoName
          BY HelloNumbers
    <3>2. \A b \in Blocks : disk.md[b].filename = m => Contents(disk', b) = Contents(disk, b)
          BY <1>6, <3>1 DEF Kept
    <3>. QED  BY <1>1, <1>7, <3>2, FileStays
  <2>. QED  BY <2>1, <2>2 DEF FilesOf
<1>8. ASSUME NEW b \in Blocks, Created(disk, disk', n, b)
      PROVE  /\ SizesFit(disk')
             /\ n \in Names /\ FileOf(disk, n) = NoName /\ FileOf(disk', n) = <<>>
             /\ \A m \in Names \ {n} : FileOf(disk', m) = FileOf(disk, m)
  <2>1. SizesFit(disk')
        BY <1>6, <1>8 DEF Kept, SizesFit, Created, EmptyFile
  <2>. QED  BY <1>1, <1>6, <1>8, <2>1, FilesCreated
<1>. QED  BY <1>6, <1>7, <1>8

\* What a hello_write that finds its blocks does to the store.
LEMMA WriteStep ==
    ASSUME FilesInv, LinksInv', NEW n \in Names, WriteStored(n)
    PROVE  /\ SizesFit(disk')
           /\ \E offset \in Nat, buf \in Requests :
                 /\ FileOf(disk, n) \in Seq(Units) /\ offset <= Len(FileOf(disk, n))
                 /\ FileOf(disk', n) = SubSeq(FileOf(disk, n), 1, offset) \o buf
                 /\ \A m \in Names \ {n} : FileOf(disk', m) = FileOf(disk, m)
<1>1. /\ disk \in Image /\ NamesSound(disk) /\ LinksSound(disk, disk.bitmap) /\ SizesFit(disk)
      /\ disk' \in Image /\ NamesSound(disk') /\ NamesInv
      /\ bitmap \in SUBSET Blocks /\ disk.bitmap \subseteq bitmap
      BY DEF FilesInv, LinksInv, NamesInv
<1>2. PICK offset \in Offsets, buf \in Requests :
          Write(n, offset, buf) /\ ~hello_write(disk, bitmap, n, offset, buf).enomem
      BY DEF WriteStored
<1> DEFINE start == FileStart(disk, bitmap, n)
           r == hello_write(disk, bitmap, n, offset, buf)
           s == WriteEnd(disk, bitmap, start, offset, buf)
           images == FinishWrite(s, Rest(disk, start, offset, buf))
           g == images[Len(images)]
<1>3. /\ start # 0 /\ offset \in Nat /\ offset <= disk.md[start].file_size
      /\ Writable(n, offset, buf) /\ disk' = Last(<<disk>> \o r.images)
      BY <1>2, HelloNumbers DEF Write, Writable, Offsets, Return
<1>4. start \in bitmap /\ start \in Blocks /\ disk.md[start].filename = n /\ n # NoName
      BY <1>1, <1>3, FileStartFacts, HelloNumbers DEF Entries
<1>5. WriteNames(disk, bitmap, r)
      BY <1>1, <1>3, WriteAnyNames
<1>6. ~s.failed /\ r.images = images
  <2>1. r = Outcome(disk, start, offset, buf, s)
        BY HelloWriteIs
  <2>2. ~r.enomem
        BY <1>2
  <2> HIDE DEF r, s, start
  <2>. QED  BY <2>1, <2>2 DEF Outcome
<1>7. LinksSound(disk, bitmap)
      BY <1>1, LinksSame
<1>8. /\ s = WriteEnd(disk, bitmap, start, offset, buf)
      /\ images = FinishWrite(s, Rest(disk, start, offset, buf)) /\ g = images[Len(images)]
      OBVIOUS
<1> HIDE DEF start, r, s, images, g
<1>9. r.images \in Seq(Image) /\ Len(r.images) >= 1 /\ Len(r.images) \in 1..Len(r.images)
      BY <1>5 DEF WriteNames
<1>10. disk' = g
      BY <1>1, <1>3, <1>6, <1>8, <1>9, ReturnImage
<1>11. \A b \in Blocks : disk'.md[b].filename = disk.md[b].filename
      BY <1>5, <1>6, <1>8, <1>9, <1>10 DEF WriteNames
<1>12. /\ FileFits(g, start)
       /\ Contents(g, start) = SubSeq(Contents(disk, start), 1, offset) \o buf
       /\ \A b \in Blocks : disk.md[b].filename # NoName /\ b # start =>
             FileFits(g, b) /\ Contents(g, b) = Contents(disk, b)
      BY <1>1, <1>3, <1>4, <1>6, <1>7, <1>8, WriteFiles
<1>13. SizesFit(disk')
      BY <1>4, <1>10, <1>11, <1>12 DEF SizesFit
<1>14. FileOf(disk, n) = Contents(disk, start) /\ FileOf(disk', n) = Contents(disk', start)
      BY <1>1, <1>4, <1>11, FileOfNamed
<1>15. Contents(disk, start) \in Seq(Units) /\ offset <= Len(Contents(disk, start))
  <2>1. FileFits(disk, start)
        BY <1>1, <1>4 DEF SizesFit
  <2> DEFINE x == Contents(disk, start)
             size == disk.md[start].file_size
  <2>2. x \in Seq(Units) /\ Len(x) = size
        BY <1>1, <1>4, <2>1, ContentsAre
  <2>. QED  BY <1>3, <2>2
<1>16. ASSUME NEW m \in Names \ {n} PROVE FileOf(disk', m) = FileOf(disk, m)
  <2>1. m # NoName
        BY HelloNumbers
  <2>2. \A b \in Blocks : disk.md[b].filename = m => Contents(disk', b) = Contents(disk, b)
        BY <1>4, <1>10, <1>12, <2>1
  <2>. QED  BY <1>1, <1>11, <2>2, FileStays
<1>. QED  BY <1>3, <1>10, <1>12, <1>13, <1>14, <1>15, <1>16

\* Every call is a step of the map, or changes nothing that it shows.
LEMMA FilesMapped ==
    /\ [n \in Names |-> IF Exists(n) THEN hello_read(disk, n) ELSE NoName] = FilesOf(disk)
    /\ [n \in Names |-> IF Exists(n) THEN hello_read(disk, n) ELSE NoName]' = FilesOf(disk')
<1>1. [n \in Names |-> IF Exists(n) THEN hello_read(disk, n) ELSE NoName] = FilesOf(disk)
      BY DEF Exists, FileOf, FilesOf
<1>2. [n \in Names |-> IF Exists(n) THEN hello_read(disk, n) ELSE NoName]' = FilesOf(disk')
      BY DEF Exists, FileOf, FilesOf
<1>. QED  BY <1>1, <1>2

LEMMA FilesStep ==
    ASSUME FilesInv, LinksInv', [KeepStored]_vars
    PROVE  /\ SizesFit(disk')
           /\ \/ FilesOf(disk') = FilesOf(disk)
              \/ \E n \in Names : /\ Files!Change(FilesOf(disk)[n], FilesOf(disk')[n])
                                  /\ FilesOf(disk') = [FilesOf(disk) EXCEPT ![n] = FilesOf(disk')[n]]
<1>1. LinksInv /\ NamesInv /\ SizesFit(disk)
      BY DEF FilesInv, LinksInv
<1>2. ASSUME NEW n \in Names \cup LongNames, Create(n)
      PROVE  /\ SizesFit(disk')
             /\ \/ FilesOf(disk') = FilesOf(disk)
                \/ \E m \in Names : /\ Files!Change(FilesOf(disk)[m], FilesOf(disk')[m])
                                    /\ FilesOf(disk') = [FilesOf(disk) EXCEPT ![m] = FilesOf(disk')[m]]
  <2>1. SizesFit(disk')
        BY <1>2, CreateStep
  <2>2. CASE FilesOf(disk') = FilesOf(disk)
        BY <2>1, <2>2
  <2>3. CASE /\ n \in Names /\ FileOf(disk, n) = NoName /\ FileOf(disk', n) = <<>>
             /\ \A m \in Names \ {n} : FileOf(disk', m) = FileOf(disk, m)
    <3>1. FilesOf(disk') = [FilesOf(disk) EXCEPT ![n] = FilesOf(disk')[n]]
          BY <2>3 DEF FilesOf
    <3>2. FilesOf(disk)[n] = NoName /\ FilesOf(disk')[n] = <<>>
          BY <2>3 DEF FilesOf
    <3>3. Files!Change(FilesOf(disk)[n], FilesOf(disk')[n])
          BY <3>2 DEF Files!Change, Files!Create
    <3>. QED  BY <2>1, <2>3, <3>1, <3>3
  <2>. QED  BY <1>2, <2>2, <2>3, CreateStep
<1>3. ASSUME NEW n \in Names, WriteStored(n)
      PROVE  /\ SizesFit(disk')
             /\ \E m \in Names : /\ Files!Change(FilesOf(disk)[m], FilesOf(disk')[m])
                                 /\ FilesOf(disk') = [FilesOf(disk) EXCEPT ![m] = FilesOf(disk')[m]]
  <2>1. SizesFit(disk')
        BY <1>3, WriteStep
  <2>2. PICK offset \in Nat, buf \in Requests :
            /\ FileOf(disk, n) \in Seq(Units) /\ offset <= Len(FileOf(disk, n))
            /\ FileOf(disk', n) = SubSeq(FileOf(disk, n), 1, offset) \o buf
            /\ \A m \in Names \ {n} : FileOf(disk', m) = FileOf(disk, m)
        BY <1>3, WriteStep
  <2>3. FilesOf(disk') = [FilesOf(disk) EXCEPT ![n] = FilesOf(disk')[n]]
        BY <2>2 DEF FilesOf
  <2> DEFINE old == FilesOf(disk)[n]
             new == FilesOf(disk')[n]
  <2>4. old = FileOf(disk, n) /\ new = FileOf(disk', n)
        BY DEF FilesOf
  <2> HIDE DEF old, new
  <2>5. /\ old \in Seq(Units) /\ offset <= Len(old) /\ new = SubSeq(old, 1, offset) \o buf
        BY <2>2, <2>4
  <2>6. old # NoName
        BY <2>5, HelloNumbers
  <2>7. offset \in 0..Len(old)
        BY <2>5
  <2>8. Files!Write(old, new)
        BY <2>5, <2>6, <2>7 DEF Files!Write
  <2>9. Files!Change(old, new)
        BY <2>8 DEF Files!Change
  <2>. QED  BY <2>1, <2>3, <2>9 DEF old, new
<1>4. CASE disk' = disk
      BY <1>1, <1>4
<1>5. CASE Getattr \/ \E n \in Names : Truncate(n)
      BY <1>1, <1>4, <1>5, ReadNames
<1>6. CASE UNCHANGED vars
      BY <1>4, <1>6 DEF vars
<1>. QED  BY <1>2, <1>3, <1>5, <1>6 DEF KeepStored

\* The store refines the map from names to contents, for every number and size
\* of blocks and every client whose writes find the blocks they need: a call of
\* a handler changes the file it names as FileMap says and no other, whatever the
\* chains look like, however often the file was written before, and whatever
\* hello_truncate left in the bitmap of the daemon.
THEOREM StoreIsFileMap == StoredSpec => Implements
<1> DEFINE F == [n \in Names |-> IF Exists(n) THEN hello_read(disk, n) ELSE NoName]
<1>1. Init => FilesInv /\ Files!Init
  <2> SUFFICES ASSUME Init PROVE FilesInv /\ Files!Init
      OBVIOUS
  <2>1. LinksSound(NewImage, NewImage.bitmap)
        BY DEF LinksSound, NewImage, ZeroMetadata
  <2>2. LinksInv
        BY <2>1, NamesInit DEF LinksInv, Init
  <2>3. SizesFit(disk)
        BY DEF SizesFit, Init, NewImage, ZeroMetadata
  <2>4. \A n \in Names : ~Exists(n)
        BY DEF Exists, Entries, Init, NewImage
  <2>5. Files!Init
        BY <2>4 DEF Files!Init
  <2>. QED  BY <2>2, <2>3, <2>5 DEF FilesInv
<1>2. FilesInv /\ [KeepStored]_vars => FilesInv'
  <2> SUFFICES ASSUME FilesInv, [KeepStored]_vars PROVE FilesInv'
      OBVIOUS
  <2>1. LinksInv'
        BY LinksStep DEF FilesInv
  <2>. QED  BY <2>1, FilesStep DEF FilesInv
<1>3. FilesInv /\ FilesInv' /\ [KeepStored]_vars => [Files!Next]_F
  <2> SUFFICES ASSUME FilesInv, FilesInv', [KeepStored]_vars PROVE [Files!Next]_F
      OBVIOUS
  <2>1. F = FilesOf(disk) /\ F' = FilesOf(disk')
        BY FilesMapped
  <2>2. \/ FilesOf(disk') = FilesOf(disk)
        \/ \E n \in Names : /\ Files!Change(FilesOf(disk)[n], FilesOf(disk')[n])
                            /\ FilesOf(disk') = [FilesOf(disk) EXCEPT ![n] = FilesOf(disk')[n]]
        BY FilesStep DEF FilesInv
  <2>3. CASE FilesOf(disk') = FilesOf(disk)
        BY <2>1, <2>3
  <2>4. ASSUME NEW n \in Names, Files!Change(FilesOf(disk)[n], FilesOf(disk')[n]),
               FilesOf(disk') = [FilesOf(disk) EXCEPT ![n] = FilesOf(disk')[n]]
        PROVE  Files!Next
        BY <2>1, <2>4 DEF Files!Next
  <2>. QED  BY <2>2, <2>3, <2>4
<1>. QED  BY <1>1, <1>2, <1>3, PTL DEF StoredSpec, Implements, Files!Spec
-----------------------------------------------------------------------------
(* Files of one block, which may be removed *)

Unlinked(d)  == \A b \in Blocks : d.md[b].next = 0

\* Blocks in use answer to different names; one that is not may keep its record.
UsedApart(d) ==
    \A b, c \in d.bitmap : d.md[b].filename # NoName /\ d.md[c].filename = d.md[b].filename => c = b

OneBlocks(d) ==
    d \in Image /\ Unlinked(d) /\ UsedApart(d) /\ \A b \in d.bitmap : FileFits(d, b)

OneBlockInv == OneBlocks(disk) /\ bitmap = disk.bitmap

LEMMA OneBlockChain ==
    ASSUME NEW d \in Image, Unlinked(d), NEW b \in Blocks PROVE Chain(d, b) = <<b>>
<1> DEFINE c == <<b>>
<1>1. c \in Seq(Blocks) /\ Len(c) = 1 /\ c[1] = b
      OBVIOUS
<1>2. 1 \in 1..NUM_BLOCKS
      BY HelloNumbers
<1> HIDE DEF c
<1>3. IsChain(d, b, c)
      BY <1>1, <1>2 DEF IsChain, Unlinked
<1>. QED  BY <1>3, ChainIs DEF c

LEMMA UsedStart ==
    ASSUME NEW d, OneBlocks(d), NEW n \in Names
    PROVE  \/ Entries(d, d.bitmap, n) = {} /\ FileStart(d, d.bitmap, n) = 0
           \/ \E b \in Blocks : /\ b \in d.bitmap /\ d.md[b].filename = n /\ b # 0
                                /\ Entries(d, d.bitmap, n) = {b}
                                /\ FileStart(d, d.bitmap, n) = b
<1>1. CASE Entries(d, d.bitmap, n) = {}
      BY <1>1 DEF FileStart
<1>2. ASSUME NEW b \in Entries(d, d.bitmap, n)
      PROVE  /\ b \in Blocks /\ b \in d.bitmap /\ d.md[b].filename = n /\ b # 0
             /\ Entries(d, d.bitmap, n) = {b} /\ FileStart(d, d.bitmap, n) = b
  <2>1. b \in d.bitmap /\ b \in Blocks /\ b # 0 /\ d.md[b].filename = n /\ n # NoName
        BY ImageParts, HelloNumbers DEF Entries, OneBlocks
  <2>2. Entries(d, d.bitmap, n) = {b}
        BY <2>1 DEF Entries, OneBlocks, UsedApart
  <2>3. Min({b}) = b
        BY <2>1, HelloNumbers, MinIsLeast
  <2>. QED  BY <2>1, <2>2, <2>3 DEF FileStart
<1>. QED  BY <1>1, <1>2

LEMMA UsedFile ==
    ASSUME NEW d, OneBlocks(d), NEW n \in Names, NEW b \in d.bitmap, d.md[b].filename = n
    PROVE  FileOf(d, n) = Contents(d, b)
<1>1. b \in Entries(d, d.bitmap, n)
      BY DEF Entries
<1>2. FileStart(d, d.bitmap, n) = b
      BY <1>1, UsedStart
<1>3. hello_read(d, n) = Contents(d, FileStart(d, d.bitmap, n))
      BY Zenon DEF hello_read, Contents
<1>. QED  BY <1>1, <1>2, <1>3 DEF FileOf

LEMMA BlockStays ==
    ASSUME NEW d \in Image, Unlinked(d), NEW e \in Image, NEW b \in Blocks,
           e.md[b] = d.md[b], e.data[b] = d.data[b]
    PROVE  Contents(e, b) = Contents(d, b) /\ (FileFits(d, b) => FileFits(e, b))
<1> DEFINE c == Chain(d, b)
<1>1. c = <<b>>
      BY OneBlockChain
<1>2. \A i \in 1..Len(c) : e.md[c[i]] = d.md[c[i]] /\ e.data[c[i]] = d.data[c[i]]
      BY <1>1
<1>3. d \in Image /\ e \in Image /\ b \in Blocks /\ c = Chain(d, b)
      OBVIOUS
<1> HIDE DEF c
<1>. QED  BY ONLY <1>2, <1>3, SameFile

\* The block that answers to a name, if any, is as it was.
UsedSame(d, e, n) ==
    \A b \in Blocks :
        /\ b \in d.bitmap /\ d.md[b].filename = n <=> b \in e.bitmap /\ e.md[b].filename = n
        /\ b \in d.bitmap /\ d.md[b].filename = n => e.md[b] = d.md[b] /\ e.data[b] = d.data[b]

LEMMA UsedStays ==
    ASSUME NEW d, OneBlocks(d), NEW e, OneBlocks(e), NEW n \in Names, UsedSame(d, e, n)
    PROVE  FileOf(e, n) = FileOf(d, n)
<1>1. d.bitmap \subseteq Blocks /\ e.bitmap \subseteq Blocks /\ d \in Image /\ e \in Image
      BY ImageParts DEF OneBlocks
<1>2. CASE \E b \in d.bitmap : d.md[b].filename = n
  <2>1. PICK b \in d.bitmap : d.md[b].filename = n
        BY <1>2
  <2>2. b \in Blocks /\ b \in e.bitmap /\ e.md[b].filename = n
        /\ e.md[b] = d.md[b] /\ e.data[b] = d.data[b]
        BY <1>1, <2>1 DEF UsedSame
  <2>3. Contents(e, b) = Contents(d, b)
        BY <1>1, <2>2, BlockStays DEF OneBlocks
  <2>. QED  BY <2>1, <2>2, <2>3, UsedFile
<1>3. CASE \A b \in d.bitmap : d.md[b].filename # n
  <2>1. \A b \in e.bitmap : e.md[b].filename # n
        BY <1>1, <1>3 DEF UsedSame
  <2>. QED  BY <1>3, <2>1 DEF FileOf, Entries
<1>. QED  BY <1>2, <1>3

\* What a call does to an image, when no block is linked: block b changes.
OneChanged(d, e, b) ==
    /\ e \in Image /\ Unlinked(e) /\ e.bitmap = d.bitmap
    /\ e.md[b].filename = d.md[b].filename
    /\ \A x \in Blocks \ {b} : e.md[x] = d.md[x] /\ e.data[x] = d.data[x]

\* hello_write of a file of one block: no turn of the loop, one last block.
LEMMA NoTurns ==
    ASSUME NEW offset \in Nat, NEW buf \in Requests, offset + Len(buf) <= USABLE_SPACE
    PROVE  /\ ((offset + Len(buf)) - 1) \div USABLE_SPACE = 0
           /\ WholeBlocks(offset + Len(buf)) = 0
<1> DEFINE U == USABLE_SPACE
           size == offset + Len(buf)
           full == (size - 1) \div U
<1>1. /\ size \in Nat \ {0} /\ full \in Nat /\ full * U \in Nat /\ full * U < size
      /\ U \in Nat \ {0} /\ size <= U
      BY WriteNumbers, HelloNumbers
<1> HIDE DEF size, full, U
<1>2. full = 0
  <2>1. SUFFICES ASSUME full >= 1 PROVE FALSE
        BY <1>1
  <2>2. 1 * U <= full * U
        BY <1>1, <2>1, TimesGrows
  <2> DEFINE a == full * U
  <2>3. a \in Nat /\ a < size /\ U <= a
        BY <1>1, <2>2
  <2> HIDE DEF a
  <2>. QED  BY <1>1, <2>3
<1>3. full * U = 0
      BY <1>1, <1>2
<1>. QED  BY <1>2, <1>3 DEF full, size, U, WholeBlocks

LEMMA WriteOneBlock ==
    ASSUME NEW d, OneBlocks(d), NEW n \in Names, NEW start \in d.bitmap,
           start = FileStart(d, d.bitmap, n),
           NEW offset \in Nat, NEW buf \in Requests, offset + Len(buf) <= USABLE_SPACE,
           offset <= d.md[start].file_size,
           NEW r, r = hello_write(d, d.bitmap, n, offset, buf)
    PROVE  /\ r.images \in Seq(Image) /\ Len(r.images) >= 1 /\ r.bitmap = d.bitmap
           /\ OneChanged(d, r.images[Len(r.images)], start)
           /\ FileFits(r.images[Len(r.images)], start)
           /\ Contents(r.images[Len(r.images)], start)
                = SubSeq(Contents(d, start), 1, offset) \o buf
<1>0. /\ d \in Image /\ start \in Blocks /\ d.bitmap \in SUBSET Blocks /\ Unlinked(d)
      /\ FileFits(d, start) /\ buf \in Seq(Cells)
      BY ImageParts, HelloNumbers DEF OneBlocks
<1> DEFINE size == offset + Len(buf)
           buffer == WriteBuffer(d, Chain(d, start), offset, buf)
           s == WriteEnd(d, d.bitmap, start, offset, buf)
           s0 == LoopStart(d, d.bitmap, start, size)
           rest == Rest(d, start, offset, buf)
           md == Sized(d.md[start], size)
           e == PutMetadata(d, start, md)
<1>1. size \in Nat \ {0}
      BY WriteNumbers
<1>2. s = s0
  <2>1. (size - 1) \div USABLE_SPACE = 0
        BY NoTurns
  <2>2. s = WriteBlocks(s0, buffer, 0)
        BY <2>1, Zenon DEF WriteEnd
  <2> HIDE DEF s, s0, buffer
  <2>3. 0 \in Nat
        OBVIOUS
  <2>4. PICK t : RunsThrough(t, s0, buffer, 0)
        BY <2>3, WriteBlocksTurns
  <2>. QED  BY <2>2, <2>4 DEF RunsThrough
<1>3. /\ s0 \in LoopStates /\ Len(s0.images) = 1 /\ s0.images[1] = e
      /\ s0.bitmap = d.bitmap /\ s0.block = start /\ s0.md = md /\ ~s0.failed
      BY <1>0, <1>1, LoopStartFacts
<1>4. md \in metadata /\ md.filename = d.md[start].filename /\ md.file_size = size /\ md.next = 0
  <2> DEFINE old == d.md[start]
  <2>1. old \in metadata /\ old.next = 0
        BY <1>0, ImageParts DEF Unlinked
  <2>2. md = Sized(old, size) /\ size \in Nat
        BY <1>1
  <2> HIDE DEF old, md, size
  <2>3. /\ md \in metadata /\ md.filename = old.filename
        /\ md.next = old.next /\ md.file_size = size
        BY <2>1, <2>2, SizedType
  <2>. QED  BY <2>1, <2>3 DEF old
<1> HIDE DEF md
<1>5. /\ e \in Image /\ e.bitmap = d.bitmap /\ e.data = d.data
      /\ e.md[start] = md /\ \A c \in Blocks \ {start} : e.md[c] = d.md[c]
      BY <1>0, <1>4, PutMetadataFacts
<1>6. r.images = FinishWrite(s0, rest) /\ r.bitmap = d.bitmap
  <2>1. r = Outcome(d, start, offset, buf, s)
        BY HelloWriteIs
  <2> HIDE DEF s, s0
  <2>. QED  BY <1>2, <1>3, <2>1 DEF Outcome
<1>7. buffer \in Seq(Units) /\ Len(buffer) = size
      BY <1>0, BufferType
<1>8. rest \in Seq(Units) /\ Len(rest) = size /\ HoldsFrom(rest, buffer, 0)
  <2> DEFINE a == WholeBlocks(size)
  <2>1. a = 0
        BY NoTurns
  <2>2. /\ size = offset + Len(buf) /\ a = WholeBlocks(size) /\ rest = Rest(d, start, offset, buf)
        /\ buffer = WriteBuffer(d, Chain(d, start), offset, buf)
        OBVIOUS
  <2> HIDE DEF a, rest, buffer
  <2>3. rest \in Seq(Units) /\ Len(rest) = size - a /\ HoldsFrom(rest, buffer, a)
        BY <1>0, <2>2, RestCells
  <2> HIDE DEF size
  <2>. QED  BY <1>1, <2>1, <2>3
<1> DEFINE images == FinishWrite(s0, rest)
           g == images[Len(images)]
<1> HIDE DEF s, s0, rest, e
<1>9. Last(s0.images) = e
      BY <1>3 DEF Last
<1>10. /\ g \in Image /\ g.bitmap = d.bitmap /\ g.md = e.md
       /\ \A k \in 1..USABLE_SPACE : k <= Len(rest) => g.data[start][k] = rest[k]
       /\ \A x \in Blocks \ {start} : g.data[x] = e.data[x]
  <2>1. images = FinishWrite(s0, rest) /\ g = images[Len(images)] /\ Len(s0.images) >= 1
        BY <1>3
  <2> HIDE DEF images, g
  <2>2. /\ g \in Image /\ g.bitmap = s0.bitmap /\ g.md = e.md
        /\ \A k \in 1..USABLE_SPACE : k <= Len(rest) => g.data[s0.block][k] = rest[k]
        /\ \A x \in Blocks \ {s0.block} : g.data[x] = e.data[x]
    <3>1. /\ s0 \in LoopStates /\ Len(s0.images) >= 1 /\ rest \in Seq(Units) /\ e = Last(s0.images)
          /\ images = FinishWrite(s0, rest) /\ g = images[Len(images)]
          BY <1>3, <1>8, <1>9, <2>1
    <3>. QED  BY ONLY <3>1, FinishedImage
  <2>. QED  BY <1>3, <2>2
<1>11. images \in Seq(Image) /\ Len(images) >= 1
  <2>1. images = FinishWrite(s0, rest) /\ Len(s0.images) >= 1
        BY <1>3
  <2> HIDE DEF images
  <2>2. images \in Seq(Image) /\ Len(images) = Len(s0.images) + 2
        BY <1>3, <1>8, <2>1, FinishWriteFacts
  <2>. QED  BY <1>3, <2>2
<1> HIDE DEF images, g
<1>12. OneChanged(d, g, start)
  <2>1. Unlinked(g)
        BY <1>0, <1>4, <1>5, <1>10 DEF Unlinked
  <2>. QED  BY <1>4, <1>5, <1>10, <2>1 DEF OneChanged
<1> DEFINE c == <<start>>
           cells == ChainCells(g, c)
<1>13. Chain(g, start) = c
      BY <1>0, <1>10, <1>12, OneBlockChain DEF OneChanged
<1>14. size <= Len(cells) /\ \A i \in 1..size : cells[i] = buffer[i]
  <2> DEFINE n0 == 0
             a == n0 * USABLE_SPACE
  <2>0. n0 \in Nat /\ a = n0 * USABLE_SPACE /\ n0 = 0 /\ a = 0
        BY HelloNumbers
  <2> HIDE DEF n0, a, size, buffer
  <2>1. size <= USABLE_SPACE
        BY DEF size
  <2>2. PartsHeld(g, c, n0, a, size, buffer)
    <3>1. \A j \in 1..size : g.data[start][j] = buffer[j]
      <4> TAKE j \in 1..size
      <4>1. j \in 1..USABLE_SPACE /\ j <= Len(rest) /\ j \in 1..Len(rest) /\ 0 + j = j
            BY <1>1, <1>8, <2>1, HelloNumbers
      <4>2. rest[j] = buffer[0 + j]
            BY <1>8, <4>1 DEF HoldsFrom
      <4>. QED  BY <1>10, <4>1, <4>2
    <3>2. \A j \in 1..size - a : j \in 1..size /\ a + j = j
          BY <1>1, <2>0
    <3>3. c[n0 + 1] = start
          BY <2>0
    <3>4. \A j \in 1..size - a : g.data[c[n0 + 1]][j] = buffer[a + j]
          BY <3>1, <3>2, <3>3
    <3>5. \A k \in 1..n0 : HoldsPart(g.data[c[k]], buffer, k)
          BY <2>0
    <3>. QED  BY <3>4, <3>5 DEF PartsHeld
  <2>3. /\ g \in Image /\ c \in Seq(Blocks) /\ n0 \in Nat /\ Len(c) >= n0 + 1
        /\ a = n0 * USABLE_SPACE /\ size \in Nat /\ a < size /\ size <= a + USABLE_SPACE
        /\ PartsHeld(g, c, n0, a, size, buffer) /\ cells = ChainCells(g, c)
    <3>1. c \in Seq(Blocks) /\ Len(c) >= n0 + 1
          BY <1>0, <2>0
    <3>2. a < size /\ size <= a + USABLE_SPACE /\ size \in Nat
          BY <1>1, <2>0, <2>1, HelloNumbers
    <3>. QED  BY <1>10, <2>0, <2>2, <3>1, <3>2
  <2> HIDE DEF cells, c
  <2>. QED  BY ONLY <2>3, ChainHolds
<1>15. g.md[start].file_size = size
      BY <1>4, <1>5, <1>10
<1>16. FileFits(g, start)
      BY <1>13, <1>14, <1>15 DEF FileFits
<1>17. buffer = SubSeq(Contents(d, start), 1, offset) \o buf
      BY <1>0, BufferIs
<1> DEFINE x == Contents(g, start)
<1>18. x = buffer
  <2>1. x \in Seq(Units) /\ Len(x) = size /\ \A i \in 1..size : x[i] = cells[i]
    <3>1. /\ g \in Image /\ start \in Blocks /\ FileFits(g, start) /\ size = g.md[start].file_size
          /\ cells = ChainCells(g, Chain(g, start)) /\ x = Contents(g, start)
          BY <1>0, <1>10, <1>13, <1>15, <1>16
    <3> HIDE DEF x, cells, size
    <3>. QED  BY ONLY <3>1, ContentsAre
  <2> HIDE DEF x, cells, size, buffer
  <2>2. Len(x) = Len(buffer) /\ \A i \in 1..Len(x) : x[i] = buffer[i]
        BY <1>7, <1>14, <2>1
  <2>. QED  BY <1>7, <2>1, <2>2, SameSeq
<1>19. r.images = images /\ g = images[Len(images)]
      BY <1>6 DEF images, g
<1> HIDE DEF buffer
<1>. QED  BY <1>6, <1>11, <1>12, <1>16, <1>17, <1>18, <1>19

\* The file that starts at b changes, and no other.
LEMMA OneWritten ==
    ASSUME NEW d, OneBlocks(d), NEW n \in Names, NEW start \in d.bitmap, d.md[start].filename = n,
           NEW g, OneChanged(d, g, start), FileFits(g, start)
    PROVE  /\ OneBlocks(g)
           /\ FileOf(d, n) = Contents(d, start) /\ FileOf(g, n) = Contents(g, start)
           /\ \A m \in Names \ {n} : FileOf(g, m) = FileOf(d, m)
<1>1. /\ d \in Image /\ Unlinked(d) /\ g \in Image /\ Unlinked(g) /\ g.bitmap = d.bitmap
      /\ d.bitmap \subseteq Blocks
      /\ \A x \in Blocks \ {start} : g.md[x] = d.md[x] /\ g.data[x] = d.data[x]
      BY ImageParts DEF OneBlocks, OneChanged
<1>2. \A x \in Blocks : g.md[x].filename = d.md[x].filename
      BY <1>1 DEF OneChanged
<1>3. UsedApart(g)
      BY <1>1, <1>2 DEF OneBlocks, UsedApart
<1>4. ASSUME NEW b \in g.bitmap PROVE FileFits(g, b)
  <2>1. CASE b = start
        BY <2>1
  <2>2. CASE b # start
    <3>1. b \in Blocks /\ g.md[b] = d.md[b] /\ g.data[b] = d.data[b] /\ FileFits(d, b)
          BY <1>1, <2>2 DEF OneBlocks
    <3>. QED  BY <1>1, <3>1, BlockStays
  <2>. QED  BY <2>1, <2>2
<1>5. OneBlocks(g)
      BY <1>1, <1>3, <1>4 DEF OneBlocks
<1>6. ASSUME NEW m \in Names \ {n} PROVE FileOf(g, m) = FileOf(d, m)
  <2>1. UsedSame(d, g, m)
        BY <1>1, <1>2 DEF UsedSame
  <2>. QED  BY <1>5, <2>1, UsedStays
<1>7. FileOf(d, n) = Contents(d, start) /\ FileOf(g, n) = Contents(g, start)
      BY <1>1, <1>2, <1>5, UsedFile
<1>. QED  BY <1>5, <1>6, <1>7

\* A step of the map, or one that it does not show.
Follows(d, e) ==
    \/ FilesOf(e) = FilesOf(d)
    \/ \E n \in Names : /\ Files!Change(FilesOf(d)[n], FilesOf(e)[n])
                        /\ FilesOf(e) = [FilesOf(d) EXCEPT ![n] = FilesOf(e)[n]]

LEMMA FollowsOne ==
    ASSUME NEW d, NEW e, NEW n \in Names, Files!Change(FileOf(d, n), FileOf(e, n)),
           \A m \in Names \ {n} : FileOf(e, m) = FileOf(d, m)
    PROVE  Follows(d, e)
<1>1. FilesOf(d)[n] = FileOf(d, n) /\ FilesOf(e)[n] = FileOf(e, n)
      BY DEF FilesOf
<1>2. FilesOf(e) = [FilesOf(d) EXCEPT ![n] = FilesOf(e)[n]]
      BY DEF FilesOf
<1>3. Files!Change(FilesOf(d)[n], FilesOf(e)[n])
      BY <1>1
<1>. QED  BY <1>2, <1>3 DEF Follows

LEMMA OneBlockCreate ==
    ASSUME OneBlockInv, NEW n \in Names, Create(n)
    PROVE  OneBlockInv' /\ Follows(disk, disk')
<1> DEFINE d == disk
           b == NextAvailableBlock(d.bitmap)
           saved == PutBitmap(d, d.bitmap \cup {b})
           e == PutMetadata(saved, b, Fresh(n))
           r == hello_create(d, n)
<1>1. d \in Image /\ Unlinked(d) /\ OneBlocks(d) /\ bitmap = d.bitmap /\ d.bitmap \subseteq Blocks
      BY ImageParts DEF OneBlockInv, OneBlocks
<1>2. \/ r.images = <<>> /\ r.bitmap = d.bitmap
      \/ /\ Entries(d, d.bitmap, n) = {} /\ b \in Blocks \ d.bitmap
         /\ saved \in Image /\ saved.bitmap = d.bitmap \cup {b} /\ r.bitmap = saved.bitmap
         /\ r.images = <<saved, e>> /\ e \in Image
         /\ e.bitmap = saved.bitmap /\ e.data = d.data /\ e.md[b] = Fresh(n)
         /\ \A c \in Blocks \ {b} : e.md[c] = d.md[c]
  <2>1. /\ n \in Names \cup LongNames /\ n \notin LongNames
        BY HelloNumbers
  <2>2. /\ b = NextAvailableBlock(d.bitmap) /\ saved = PutBitmap(d, d.bitmap \cup {b})
        /\ e = PutMetadata(saved, b, Fresh(n)) /\ r = hello_create(d, n)
        OBVIOUS
  <2> HIDE DEF b, saved, e, r
  <2>. QED  BY <1>1, <2>1, <2>2, CreateCases
<1>3. disk' = Last(<<d>> \o r.images) /\ bitmap' = r.bitmap
      BY DEF Create, Return
<1> HIDE DEF b, saved, e, r
<1>4. CASE r.images = <<>> /\ r.bitmap = d.bitmap
  <2>1. <<>> \in Seq(Image) /\ Len(<<>>) = 0
        OBVIOUS
  <2>2. disk' = d
        BY <1>1, <1>3, <1>4, <2>1, ReturnImage
  <2>. QED  BY <1>1, <1>3, <1>4, <2>2 DEF OneBlockInv, Follows
<1>5. CASE /\ Entries(d, d.bitmap, n) = {} /\ b \in Blocks \ d.bitmap
           /\ saved \in Image /\ saved.bitmap = d.bitmap \cup {b} /\ r.bitmap = saved.bitmap
           /\ r.images = <<saved, e>> /\ e \in Image
           /\ e.bitmap = saved.bitmap /\ e.data = d.data /\ e.md[b] = Fresh(n)
           /\ \A c \in Blocks \ {b} : e.md[c] = d.md[c]
  <2>1. disk' = e
    <3>1. <<saved, e>> \in Seq(Image) /\ Len(<<saved, e>>) = 2 /\ <<saved, e>>[2] = e
          BY <1>5
    <3> DEFINE images == r.images
    <3>2. images \in Seq(Image) /\ Len(images) = 2 /\ images[2] = e
          BY <1>5, <3>1
    <3>3. disk \in Image /\ disk' = Last(<<disk>> \o images)
          BY <1>1, <1>3
    <3> HIDE DEF images
    <3>4. disk' = IF Len(images) = 0 THEN disk ELSE images[Len(images)]
          BY <3>2, <3>3, ReturnImage
    <3>. QED  BY <3>2, <3>4
  <2>2. /\ e.md[b].filename = n /\ e.md[b].file_size = 0 /\ e.md[b].next = 0 /\ n # NoName
        /\ e.bitmap = d.bitmap \cup {b} /\ \A c \in d.bitmap : d.md[c].filename # n
        BY <1>5, HelloNumbers DEF Fresh, Entries
  <2>3. Unlinked(e)
        BY <1>1, <1>5, <2>2 DEF Unlinked
  <2>4. UsedApart(e)
    <3> SUFFICES ASSUME NEW x \in e.bitmap, NEW y \in e.bitmap, e.md[x].filename # NoName,
                        e.md[y].filename = e.md[x].filename
                 PROVE  y = x
        BY DEF UsedApart
    <3>1. UsedApart(d) /\ \A c \in d.bitmap : e.md[c] = d.md[c]
          BY <1>1, <1>5 DEF OneBlocks
    <3>2. CASE x = b \/ y = b
          BY <2>2, <3>1, <3>2
    <3>3. CASE x # b /\ y # b
          BY <2>2, <3>1, <3>3 DEF UsedApart
    <3>. QED  BY <3>2, <3>3
  <2>5. EmptyFile(e, b)
        BY <1>5, <2>2, NothingInIt
  <2>6. ASSUME NEW c \in e.bitmap PROVE FileFits(e, c)
    <3>1. CASE c = b
          BY <2>5, <3>1 DEF EmptyFile
    <3>2. CASE c # b
      <4>1. c \in Blocks /\ FileFits(d, c) /\ e.md[c] = d.md[c] /\ e.data[c] = d.data[c]
            BY <1>1, <1>5, <2>2, <3>2 DEF OneBlocks
      <4>. QED  BY <1>1, <1>5, <4>1, BlockStays
    <3>. QED  BY <3>1, <3>2
  <2>7. OneBlocks(e)
        BY <1>5, <2>3, <2>4, <2>6 DEF OneBlocks
  <2>8. FileOf(d, n) = NoName
        BY <1>5 DEF FileOf
  <2>9. FileOf(e, n) = <<>>
    <3>1. b \in e.bitmap /\ e.md[b].filename = n
          BY <2>2
    <3>2. FileOf(e, n) = Contents(e, b)
          BY <2>7, <3>1, UsedFile
    <3>. QED  BY <2>5, <3>2 DEF EmptyFile
  <2>10. ASSUME NEW m \in Names \ {n} PROVE FileOf(e, m) = FileOf(d, m)
    <3>1. UsedSame(d, e, m)
          BY <1>1, <1>5, <2>2 DEF UsedSame
    <3>. QED  BY <1>1, <2>7, <3>1, UsedStays
  <2>11. Files!Change(FileOf(d, n), FileOf(e, n))
        BY <2>8, <2>9 DEF Files!Change, Files!Create
  <2>12. Follows(d, e)
        BY <2>10, <2>11, FollowsOne
  <2>13. bitmap' = e.bitmap
        BY <1>3, <1>5
  <2>. QED  BY <2>1, <2>7, <2>12, <2>13 DEF OneBlockInv
<1>. QED  BY <1>2, <1>4, <1>5

LEMMA OneBlockUnlink ==
    ASSUME OneBlockInv, NEW n \in Names, Unlink(n)
    PROVE  OneBlockInv' /\ Follows(disk, disk')
<1> DEFINE start == FileStart(disk, disk.bitmap, n)
           freed == IF start = 0 THEN disk.bitmap
                                 ELSE disk.bitmap \ ToSet(Chain(disk, start))
           images == IF start = 0 THEN <<>> ELSE <<PutBitmap(disk, freed)>>
<1>1. /\ disk \in Image /\ Unlinked(disk) /\ OneBlocks(disk) /\ bitmap = disk.bitmap
      /\ disk.bitmap \subseteq Blocks
      BY ImageParts DEF OneBlockInv, OneBlocks
<1>2. disk' = Last(<<disk>> \o images) /\ bitmap' = freed
      BY DEF Unlink, Return, hello_unlink, PutBitmap
<1>3. CASE Entries(disk, disk.bitmap, n) = {} /\ start = 0
  <2>1. <<>> \in Seq(Image) /\ Len(<<>>) = 0
        OBVIOUS
  <2>2. disk' = disk
        BY <1>1, <1>2, <1>3, <2>1, ReturnImage
  <2>. QED  BY <1>1, <1>2, <1>3, <2>2 DEF OneBlockInv, Follows
<1>4. ASSUME NEW b \in Blocks, b \in disk.bitmap, disk.md[b].filename = n, b # 0,
             Entries(disk, disk.bitmap, n) = {b}, start = b
      PROVE  OneBlockInv' /\ Follows(disk, disk')
  <2> DEFINE e == PutBitmap(disk, freed)
  <2>1. freed = disk.bitmap \ {b}
    <3>1. Chain(disk, start) = <<b>>
          BY <1>1, <1>4, OneBlockChain
    <3>2. ToSet(<<b>>) = {b}
          BY DEF ToSet
    <3>. QED  BY <1>4, <3>1, <3>2
  <2>2. images = <<e>>
        BY <1>4
  <2> HIDE DEF start, freed, images
  <2>3. /\ e \in Image /\ e.bitmap = disk.bitmap \ {b} /\ e.md = disk.md /\ e.data = disk.data
        BY <1>1, <2>1 DEF PutBitmap, Image
  <2> HIDE DEF e
  <2>4. disk' = e
    <3>1. images \in Seq(Image) /\ Len(images) = 1 /\ images[1] = e
          BY <2>2, <2>3
    <3>2. disk' = IF Len(images) = 0 THEN disk ELSE images[Len(images)]
          BY <1>1, <1>2, <3>1, ReturnImage
    <3>. QED  BY <3>1, <3>2
  <2>5. Unlinked(e) /\ UsedApart(e)
        BY <1>1, <2>3 DEF Unlinked, UsedApart, OneBlocks
  <2>6. ASSUME NEW c \in e.bitmap PROVE FileFits(e, c)
    <3>1. c \in Blocks /\ FileFits(disk, c) /\ e.md[c] = disk.md[c] /\ e.data[c] = disk.data[c]
          BY <1>1, <2>3 DEF OneBlocks
    <3>. QED  BY <1>1, <2>3, <3>1, BlockStays
  <2>7. OneBlocks(e)
        BY <2>3, <2>5, <2>6 DEF OneBlocks
  <2>8. FileOf(e, n) = NoName
    <3>1. Entries(e, e.bitmap, n) = {}
          BY <1>4, <2>3 DEF Entries
    <3>. QED  BY <3>1 DEF FileOf
  <2>9. FileOf(disk, n) # NoName
    <3>1. FileFits(disk, b)
          BY <1>1, <1>4 DEF OneBlocks
    <3>2. Contents(disk, b) \in Seq(Units)
          BY <1>1, <3>1, ContentsAre
    <3>3. FileOf(disk, n) = Contents(disk, b)
          BY <1>1, <1>4, UsedFile
    <3>. QED  BY <3>2, <3>3, HelloNumbers
  <2>10. ASSUME NEW m \in Names \ {n} PROVE FileOf(e, m) = FileOf(disk, m)
    <3>1. UsedSame(disk, e, m)
          BY <1>4, <2>3 DEF UsedSame
    <3>. QED  BY <1>1, <2>7, <3>1, UsedStays
  <2>11. Files!Change(FileOf(disk, n), FileOf(e, n))
        BY <2>8, <2>9 DEF Files!Change, Files!Unlink
  <2>12. Follows(disk, e)
        BY <2>10, <2>11, FollowsOne
  <2>13. bitmap' = e.bitmap
        BY <1>2, <2>1, <2>3
  <2>. QED  BY <2>4, <2>7, <2>12, <2>13 DEF OneBlockInv
<1>. QED  BY <1>1, <1>3, <1>4, UsedStart

LEMMA OneBlockWrite ==
    ASSUME OneBlockInv, NEW n \in Names, WriteInBlock(n)
    PROVE  OneBlockInv' /\ Follows(disk, disk')
<1>1. /\ disk \in Image /\ OneBlocks(disk) /\ bitmap = disk.bitmap /\ disk.bitmap \subseteq Blocks
      BY ImageParts DEF OneBlockInv, OneBlocks
<1>2. PICK offset \in Offsets, buf \in Requests :
          offset + Len(buf) <= USABLE_SPACE /\ Write(n, offset, buf)
      BY DEF WriteInBlock
<1> DEFINE start == FileStart(disk, disk.bitmap, n)
           r == hello_write(disk, disk.bitmap, n, offset, buf)
           g == r.images[Len(r.images)]
           old == Contents(disk, start)
<1>3. /\ start # 0 /\ offset \in Nat /\ offset <= disk.md[start].file_size
      /\ disk' = Last(<<disk>> \o r.images) /\ bitmap' = r.bitmap
      BY <1>1, <1>2, HelloNumbers DEF Write, Writable, Offsets, Return
<1>4. start \in disk.bitmap /\ start \in Blocks /\ disk.md[start].filename = n
      BY <1>1, <1>3, FileStartFacts DEF Entries
<1>5. /\ r.images \in Seq(Image) /\ Len(r.images) >= 1 /\ r.bitmap = disk.bitmap
      /\ OneChanged(disk, g, start) /\ FileFits(g, start)
      /\ Contents(g, start) = SubSeq(old, 1, offset) \o buf
  <2>1. /\ OneBlocks(disk) /\ n \in Names /\ buf \in Requests
        /\ start \in disk.bitmap /\ start = FileStart(disk, disk.bitmap, n)
        /\ offset \in Nat /\ offset + Len(buf) <= USABLE_SPACE
        /\ offset <= disk.md[start].file_size
        /\ r = hello_write(disk, disk.bitmap, n, offset, buf)
        BY <1>1, <1>2, <1>3, <1>4
  <2> HIDE DEF start, r
  <2>2. /\ r.images \in Seq(Image) /\ Len(r.images) >= 1 /\ r.bitmap = disk.bitmap
        /\ OneChanged(disk, r.images[Len(r.images)], start)
        /\ FileFits(r.images[Len(r.images)], start)
        /\ Contents(r.images[Len(r.images)], start)
             = SubSeq(Contents(disk, start), 1, offset) \o buf
        BY ONLY <2>1, WriteOneBlock
  <2>. QED  BY <2>2
<1> HIDE DEF start, r, g
<1>6. disk' = g
  <2>1. Len(r.images) # 0
        BY <1>5
  <2>. QED  BY <1>1, <1>3, <1>5, <2>1, ReturnImage DEF g
<1>7. /\ OneBlocks(g) /\ FileOf(disk, n) = old /\ FileOf(g, n) = Contents(g, start)
      /\ \A m \in Names \ {n} : FileOf(g, m) = FileOf(disk, m)
  <2>1. FileOf(disk, n) = Contents(disk, start) /\ OneBlocks(g)
        /\ FileOf(g, n) = Contents(g, start)
        /\ \A m \in Names \ {n} : FileOf(g, m) = FileOf(disk, m)
    <3>1. /\ OneBlocks(disk) /\ n \in Names /\ start \in disk.bitmap
          /\ disk.md[start].filename = n /\ OneChanged(disk, g, start) /\ FileFits(g, start)
          BY <1>1, <1>4, <1>5
    <3>. QED  BY ONLY <3>1, OneWritten
  <2>. QED  BY <2>1
<1> HIDE DEF old
<1>8. old \in Seq(Units) /\ offset \in 0..Len(old)
  <2>1. FileFits(disk, start)
        BY <1>1, <1>4 DEF OneBlocks
  <2> DEFINE size == disk.md[start].file_size
  <2>2. size \in Nat /\ old \in Seq(Units) /\ Len(old) = size /\ offset <= size
        BY <1>1, <1>3, <1>4, <2>1, ContentsAre DEF old
  <2> HIDE DEF size
  <2>. QED  BY <1>3, <2>2
<1>9. old # NoName
      BY <1>8, HelloNumbers
<1>10. FileOf(g, n) = SubSeq(old, 1, offset) \o buf
      BY <1>5, <1>7
<1>11. Files!Change(FileOf(disk, n), FileOf(g, n))
      BY <1>7, <1>8, <1>9, <1>10 DEF Files!Change, Files!Write
<1>12. Follows(disk, g)
      BY <1>7, <1>11, FollowsOne
<1>13. g.bitmap = disk.bitmap /\ bitmap' = disk.bitmap
      BY <1>3, <1>5 DEF OneChanged
<1>. QED  BY <1>6, <1>7, <1>12, <1>13 DEF OneBlockInv

LEMMA OneBlockTruncate ==
    ASSUME OneBlockInv, NEW n \in Names, TruncateStored(n)
    PROVE  disk' = disk /\ bitmap' = disk.bitmap
<1>1. disk \in Image /\ bitmap' = disk.bitmap
      BY DEF OneBlockInv, OneBlocks, TruncateStored
<1>2. PICK size \in Sizes : Return(hello_truncate(disk, bitmap, n, size))
      BY DEF TruncateStored, Truncate
<1>3. disk' = Last(<<disk>> \o <<>>)
      BY <1>2 DEF Return, hello_truncate
<1>4. <<>> \in Seq(Image) /\ Len(<<>>) = 0
      OBVIOUS
<1>. QED  BY <1>1, <1>3, <1>4, ReturnImage

LEMMA OneBlockStep ==
    ASSUME OneBlockInv, [OneBlockCall]_vars
    PROVE  OneBlockInv' /\ Follows(disk, disk')
<1>1. ASSUME NEW n \in Names, Create(n) PROVE OneBlockInv' /\ Follows(disk, disk')
      BY <1>1, OneBlockCreate
<1>2. ASSUME NEW n \in Names, WriteInBlock(n) PROVE OneBlockInv' /\ Follows(disk, disk')
      BY <1>2, OneBlockWrite
<1>3. ASSUME NEW n \in Names, Unlink(n) PROVE OneBlockInv' /\ Follows(disk, disk')
      BY <1>3, OneBlockUnlink
<1>4. CASE disk' = disk /\ bitmap' = disk.bitmap
      BY <1>4 DEF OneBlockInv, Follows
<1>5. CASE Getattr \/ \E n \in Names : TruncateStored(n)
      BY <1>4, <1>5, OneBlockTruncate DEF Getattr
<1>6. CASE UNCHANGED vars
      BY <1>4, <1>6 DEF vars, OneBlockInv
<1>. QED  BY <1>1, <1>2, <1>3, <1>5, <1>6 DEF OneBlockCall, Delete

LEMMA OneBlockStore == OneBlockInv => StoreSound
<1> SUFFICES ASSUME OneBlockInv PROVE StoreSound
    OBVIOUS
<1>1. disk \in Image /\ Unlinked(disk) /\ OneBlocks(disk) /\ bitmap \subseteq Blocks
      BY ImageParts DEF OneBlockInv, OneBlocks
<1> DEFINE Of(n) == IF Exists(n) THEN Chain(disk, FileStart(disk, disk.bitmap, n)) ELSE <<>>
<1>2. ASSUME NEW n \in Names
      PROVE  \/ Of(n) = <<>>
             \/ \E b \in disk.bitmap : disk.md[b].filename = n /\ Of(n) = <<b>>
      BY <1>1, UsedStart, OneBlockChain DEF Exists
<1> HIDE DEF Of
<1>3. ToSet(<<>>) = {} /\ \A b : ToSet(<<b>>) = {b}
      BY DEF ToSet
<1>4. IsInjective(<<>>) /\ \A b : IsInjective(<<b>>)
      BY DEF IsInjective
<1>5. ASSUME NEW n \in Names PROVE IsInjective(Of(n)) /\ ToSet(Of(n)) \subseteq disk.bitmap
      BY <1>2, <1>3, <1>4
<1>6. ASSUME NEW m \in Names, NEW n \in Names, m # n
      PROVE  ToSet(Of(m)) \cap ToSet(Of(n)) = {}
  <2>1. \/ Of(m) = <<>>
        \/ \E b \in disk.bitmap : disk.md[b].filename = m /\ Of(m) = <<b>>
        BY <1>2
  <2>2. \/ Of(n) = <<>>
        \/ \E b \in disk.bitmap : disk.md[b].filename = n /\ Of(n) = <<b>>
        BY <1>2
  <2>. QED  BY <1>3, <1>6, <2>1, <2>2
<1>7. ChainsApart
      BY <1>5, <1>6 DEF ChainsApart, Of
<1>. QED  BY <1>1, <1>7 DEF StoreSound, TypeOK

LEMMA OneBlockInit == Init => OneBlockInv
<1> SUFFICES ASSUME Init PROVE OneBlockInv
    OBVIOUS
<1>1. disk = NewImage /\ bitmap = {} /\ disk \in Image
      BY NamesInit DEF Init, NamesInv
<1>2. Unlinked(disk) /\ UsedApart(disk) /\ disk.bitmap = {}
      BY <1>1 DEF NewImage, ZeroMetadata, Unlinked, UsedApart
<1>. QED  BY <1>1, <1>2 DEF OneBlockInv, OneBlocks

\* Of files of one block hello_unlink too leaves the store sound: no block is in
\* two files, and the bitmap on disk marks what the files have, whatever record
\* a removed file left in its block.
THEOREM RemovalKeepsStore == OneBlockSpec => []StoreSound
<1>1. OneBlockInv /\ [OneBlockCall]_vars => OneBlockInv'
      BY OneBlockStep
<1>. QED  BY <1>1, OneBlockInit, OneBlockStore, PTL DEF OneBlockSpec

\* Files of one block that are created, written, truncated and removed, for every
\* number of blocks and names: the store refines the map from names to contents,
\* in which hello_unlink takes one file away and hello_create never brings back
\* what the block it takes was used for before.
THEOREM RemovalIsFileMap == OneBlockSpec => Implements
<1> DEFINE F == [n \in Names |-> IF Exists(n) THEN hello_read(disk, n) ELSE NoName]
<1>1. Init => Files!Init
  <2> SUFFICES ASSUME Init PROVE Files!Init
      OBVIOUS
  <2>1. \A n \in Names : ~Exists(n)
        BY DEF Exists, Entries, Init, NewImage
  <2>. QED  BY <2>1 DEF Files!Init
<1>2. OneBlockInv /\ [OneBlockCall]_vars => OneBlockInv'
      BY OneBlockStep
<1>3. OneBlockInv /\ [OneBlockCall]_vars => [Files!Next]_F
  <2> SUFFICES ASSUME OneBlockInv, [OneBlockCall]_vars PROVE [Files!Next]_F
      OBVIOUS
  <2>1. F = FilesOf(disk) /\ F' = FilesOf(disk')
        BY FilesMapped
  <2>2. Follows(disk, disk')
        BY OneBlockStep
  <2>3. CASE FilesOf(disk') = FilesOf(disk)
        BY <2>1, <2>3
  <2>4. ASSUME NEW n \in Names, Files!Change(FilesOf(disk)[n], FilesOf(disk')[n]),
               FilesOf(disk') = [FilesOf(disk) EXCEPT ![n] = FilesOf(disk')[n]]
        PROVE  Files!Next
        BY <2>1, <2>4 DEF Files!Next
  <2>. QED  BY <2>2, <2>3, <2>4 DEF Follows
<1>. QED  BY <1>1, <1>2, <1>3, OneBlockInit, PTL DEF OneBlockSpec, Implements, Files!Spec
=============================================================================
