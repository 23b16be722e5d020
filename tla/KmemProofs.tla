----------------------------- MODULE KmemProofs -----------------------------
(***************************************************************************)
(* The memory of processes, for every size of memory, every number of list *)
(* nodes and every set of sizes and owners: the list of holes tiles the    *)
(* memory, no two neighbours are free, each busy hole is the block of one  *)
(* owner, and Kmem implements Arena.                                       *)
(***************************************************************************)
EXTENDS Kmem, SequenceTheorems, FiniteSetTheorems, TLAPS

Hole == [base : Nat, size : Nat \ {0}, busy : BOOLEAN]

-----------------------------------------------------------------------------
(***************************************************************************)
(* A node more, a node less.                                               *)
(***************************************************************************)
InsertedAt(r, s, i, e) ==
  /\ Len(r) = Len(s) + 1
  /\ \A j \in 1..Len(s) + 1 : r[j] = IF j < i THEN s[j] ELSE IF j = i THEN e ELSE s[j - 1]

LEMMA InsertAtIs ==
  ASSUME NEW S, NEW s \in Seq(S), NEW i \in 1..Len(s) + 1, NEW e \in S
  PROVE  InsertAt(s, i, e) \in Seq(S) /\ InsertedAt(InsertAt(s, i, e), s, i, e)
<1> DEFINE low == SubSeq(s, 1, i - 1)
           high == SubSeq(s, i, Len(s))
<1>1. Len(s) \in Nat /\ \A j \in 1..Len(s) : s[j] \in S
  BY ElementOfSeq
<1>2. low \in Seq(S) /\ Len(low) = i - 1 /\ \A j \in 1..i - 1 : low[j] = s[j]
  BY <1>1, SubSeqProperties
<1>3. /\ high \in Seq(S) /\ Len(high) = Len(s) - i + 1
      /\ \A j \in 1..Len(s) - i + 1 : high[j] = s[i + j - 1]
  BY <1>1, SubSeqProperties
<1>4. <<e>> \in Seq(S) /\ Len(<<e>>) = 1 /\ <<e>>[1] = e
  OBVIOUS
<1> HIDE DEF low, high
<1>5. /\ low \o <<e>> \in Seq(S) /\ Len(low \o <<e>>) = i
      /\ \A j \in 1..i : (low \o <<e>>)[j] = IF j < i THEN s[j] ELSE e
  BY <1>1, <1>2, <1>4, ConcatProperties
<1>6. InsertAt(s, i, e) = (low \o <<e>>) \o high
  BY DEF InsertAt, low, high
<1> DEFINE first == low \o <<e>>
<1>a. /\ first \in Seq(S) /\ Len(first) = i
      /\ \A j \in 1..i : first[j] = IF j < i THEN s[j] ELSE e
  BY <1>5
<1>b. InsertAt(s, i, e) = first \o high
  BY <1>6
<1> HIDE DEF first
<1>7. /\ first \o high \in Seq(S) /\ Len(first \o high) = Len(first) + Len(high)
      /\ \A j \in 1..Len(first) + Len(high) :
           (first \o high)[j] = IF j <= Len(first) THEN first[j] ELSE high[j - Len(first)]
  BY <1>3, <1>a, ConcatProperties
<1>8. Len(first) = i /\ Len(first) + Len(high) = Len(s) + 1
  BY <1>1, <1>3, <1>a
<1>9. ASSUME NEW j \in 1..Len(s) + 1
      PROVE  InsertAt(s, i, e)[j] = IF j < i THEN s[j] ELSE IF j = i THEN e ELSE s[j - 1]
  <2>1. CASE j <= i
    BY <1>1, <1>a, <1>b, <1>7, <1>8, <2>1
  <2>2. CASE j > i
    <3>1. j - i \in 1..Len(s) - i + 1 /\ i + (j - i) - 1 = j - 1
      BY <1>1, <2>2
    <3>2. high[j - i] = s[j - 1]
      BY <1>3, <3>1
    <3>. QED  BY <1>1, <1>b, <1>7, <1>8, <2>2, <3>2
  <2>. QED  BY <1>1, <2>1, <2>2
<1>. QED  BY <1>b, <1>7, <1>8, <1>9 DEF InsertedAt

LEMMA RemoveAtIs ==
  ASSUME NEW S, NEW s \in Seq(S), NEW i \in 1..Len(s)
  PROVE  /\ RemoveAt(s, i) \in Seq(S) /\ Len(RemoveAt(s, i)) = Len(s) - 1
         /\ \A j \in 1..Len(s) - 1 : RemoveAt(s, i)[j] = IF j < i THEN s[j] ELSE s[j + 1]
<1> DEFINE low == SubSeq(s, 1, i - 1)
           high == SubSeq(s, i + 1, Len(s))
<1>1. Len(s) \in Nat /\ \A j \in 1..Len(s) : s[j] \in S
  BY ElementOfSeq
<1>2. low \in Seq(S) /\ Len(low) = i - 1 /\ \A j \in 1..i - 1 : low[j] = s[j]
  BY <1>1, SubSeqProperties
<1>3. /\ high \in Seq(S) /\ Len(high) = Len(s) - i
      /\ \A j \in 1..Len(s) - i : high[j] = s[i + j]
  BY <1>1, SubSeqProperties
<1>4. RemoveAt(s, i) = low \o high
  BY DEF RemoveAt
<1> HIDE DEF low, high
<1>5. /\ low \o high \in Seq(S) /\ Len(low \o high) = Len(low) + Len(high)
      /\ \A j \in 1..Len(low) + Len(high) :
           (low \o high)[j] = IF j <= Len(low) THEN low[j] ELSE high[j - Len(low)]
  BY <1>2, <1>3, ConcatProperties
<1>6. ASSUME NEW j \in 1..Len(s) - 1
      PROVE  RemoveAt(s, i)[j] = IF j < i THEN s[j] ELSE s[j + 1]
  <2>1. CASE j < i
    BY <1>1, <1>2, <1>3, <1>4, <1>5, <2>1
  <2>2. CASE j >= i
    <3>1. j - (i - 1) \in 1..Len(s) - i /\ i + (j - (i - 1)) = j + 1
      BY <1>1, <2>2
    <3>2. high[j - (i - 1)] = s[j + 1]
      BY <1>3, <3>1
    <3>3. j \in 1..Len(low) + Len(high) /\ ~(j <= Len(low)) /\ Len(low) = i - 1
      BY <1>1, <1>2, <1>3, <2>2
    <3>. QED  BY <1>4, <1>5, <2>2, <3>2, <3>3
  <2>. QED  BY <1>1, <2>1, <2>2
<1>. QED  BY <1>1, <1>2, <1>3, <1>4, <1>5, <1>6

(***************************************************************************)
(* Min picks the least element: the scan from h_head stops at the first    *)
(* hole that fits, and at the only one with the base asked for.            *)
(***************************************************************************)
LEMMA MinIsLeast ==
  ASSUME NEW S \in SUBSET Nat, S # {}
  PROVE  Min(S) \in S /\ \A m \in S : Min(S) <= m
<1> DEFINE R == {ss \in Nat \X Nat : ss[1] < ss[2]}
<1>1. IsWellFoundedOn(R, Nat)
  BY NatLessThanWellFounded DEF OpToRel
<1>2. PICK n \in S : \A m \in S : ~(<<m, n>> \in R)
  BY <1>1, WFMin
<1>3. ASSUME NEW m \in S PROVE n <= m
  <2>1. <<m, n>> \in Nat \X Nat /\ <<m, n>>[1] = m /\ <<m, n>>[2] = n /\ <<m, n>> \notin R
    BY <1>2
  <2>2. ~(m < n)
    BY <2>1
  <2>. QED  BY <2>2
<1>. QED  BY <1>3 DEF Min

-----------------------------------------------------------------------------
(***************************************************************************)
(* A list of holes that tiles the memory.  That each hole ends before any  *)
(* later one begins follows from HolesTile by induction; as a part of the  *)
(* invariant it needs none.                                                *)
(***************************************************************************)
Tiles(h) ==
  /\ h \in Seq(Hole) /\ Len(h) >= 1 /\ h[1].base = memory_start
  /\ \A i \in 1..Len(h) - 1 : h[i].base + h[i].size = h[i + 1].base
  /\ \A i, j \in 1..Len(h) : i < j => h[i].base + h[i].size <= h[j].base
  /\ h[Len(h)].base + h[Len(h)].size = ArenaEnd

BusyBlocks(h) == {Block(h[i]) : i \in {j \in 1..Len(h) : h[j].busy}}

LEMMA TilesFacts ==
  ASSUME NEW h, Tiles(h)
  PROVE  /\ h \in Seq(Hole) /\ Len(h) \in Nat /\ Len(h) >= 1
         /\ memory_start \in Nat /\ ArenaEnd \in Nat
         /\ \A i \in 1..Len(h) :
              /\ h[i] \in Hole
              /\ h[i].base \in Nat /\ h[i].size \in Nat /\ h[i].size >= 1 /\ h[i].busy \in BOOLEAN
              /\ memory_start <= h[i].base /\ h[i].base + h[i].size <= ArenaEnd
         /\ \A i, j \in 1..Len(h) : h[i].base = h[j].base => i = j
<1>1. h \in Seq(Hole) /\ Len(h) \in Nat /\ Len(h) >= 1
  BY LenProperties DEF Tiles
<1>2. \A i \in 1..Len(h) : h[i] \in Hole
  BY ElementOfSeq DEF Tiles
<1>3. \A i \in 1..Len(h) : /\ h[i].base \in Nat /\ h[i].size \in Nat /\ h[i].size >= 1
                           /\ h[i].busy \in BOOLEAN
  BY <1>2 DEF Hole
<1>4. ArenaEnd \in Nat /\ memory_start \in Nat
  BY KmemAssumption DEF ArenaEnd
<1>5. ASSUME NEW i \in 1..Len(h)
      PROVE  memory_start <= h[i].base /\ h[i].base + h[i].size <= ArenaEnd
  <2>1. 1 \in 1..Len(h) /\ Len(h) \in 1..Len(h)
    BY <1>1
  <2>2. i = 1 \/ h[1].base + h[1].size <= h[i].base
    BY <1>1, <2>1 DEF Tiles
  <2>3. h[1].base = memory_start /\ h[Len(h)].base + h[Len(h)].size = ArenaEnd
    BY DEF Tiles
  <2>4. memory_start <= h[i].base
    BY <1>3, <1>4, <2>1, <2>2, <2>3
  <2>5. CASE i = Len(h)
    BY <2>3, <2>4, <2>5, <1>3, <1>4
  <2>6. CASE i # Len(h)
    <3>1. i < Len(h)
      BY <1>1, <2>6
    <3>2. h[i].base + h[i].size <= h[Len(h)].base
      BY <2>1, <3>1 DEF Tiles
    <3>3. PICK e : e = h[Len(h)]
      OBVIOUS
    <3>4. /\ e.base \in Nat /\ e.size \in Nat
          /\ h[i].base + h[i].size <= e.base /\ e.base + e.size = ArenaEnd
      BY <1>3, <2>1, <2>3, <3>2, <3>3
    <3>5. h[i].base + h[i].size <= ArenaEnd
      BY <1>3, <1>4, <3>4
    <3>. QED  BY <2>4, <3>5
  <2>. QED  BY <2>5, <2>6
<1>6. ASSUME NEW i \in 1..Len(h), NEW j \in 1..Len(h), h[i].base = h[j].base
      PROVE  i = j
  <2>1. \A l, m \in 1..Len(h) : l < m => h[l].base + h[l].size <= h[m].base
    BY DEF Tiles
  <2>2. ~(i < j) /\ ~(j < i)
    BY <1>3, <1>6, <2>1
  <2>. QED  BY <1>1, <2>2
<1>. QED  BY <1>1, <1>2, <1>3, <1>4, <1>5, <1>6

(***************************************************************************)
(* Split cuts a hole in two.                                               *)
(***************************************************************************)
SplitAt(g, h, i, n) ==
  /\ Len(g) = Len(h) + 1
  /\ \A j \in 1..Len(h) + 1 :
       g[j] = IF j < i THEN h[j]
              ELSE IF j = i THEN [base |-> h[i].base, size |-> n, busy |-> TRUE]
              ELSE IF j = i + 1
              THEN [base |-> h[i].base + n, size |-> h[i].size - n, busy |-> FALSE]
              ELSE h[j - 1]

LEMMA SplitIs ==
  ASSUME NEW h, Tiles(h), NEW i \in 1..Len(h), NEW n \in Nat \ {0}, n < h[i].size
  PROVE  Split(h, i, n) \in Seq(Hole) /\ SplitAt(Split(h, i, n), h, i, n)
<1>1. PICK low : low = [base |-> h[i].base, size |-> n, busy |-> TRUE]
  OBVIOUS
<1>2. PICK high : high = [base |-> h[i].base + n, size |-> h[i].size - n, busy |-> FALSE]
  OBVIOUS
<1>3. low \in Hole /\ high \in Hole
  <2>1. PICK b \in Nat : b = h[i].base
    BY TilesFacts
  <2>2. PICK z \in Nat : z = h[i].size
    BY TilesFacts
  <2>3. b + n \in Nat /\ z - n \in Nat \ {0}
    BY <2>2
  <2>4. low = [base |-> b, size |-> n, busy |-> TRUE]
        /\ high = [base |-> b + n, size |-> z - n, busy |-> FALSE]
    BY <1>1, <1>2, <2>1, <2>2
  <2>. QED  BY <2>1, <2>3, <2>4 DEF Hole
<1>4. PICK f : f = [h EXCEPT ![i] = low]
  OBVIOUS
<1>5. f \in Seq(Hole) /\ Len(f) = Len(h) /\ \A j \in 1..Len(h) : f[j] = IF j = i THEN low ELSE h[j]
  BY <1>3, <1>4, ExceptSeq DEF Tiles
<1>6. PICK k : k = i + 1
  OBVIOUS
<1>7. Split(h, i, n) = InsertAt(f, k, high)
  BY <1>1, <1>2, <1>4, <1>6 DEF Split
<1>8. Len(h) \in Nat /\ k \in 1..Len(f) + 1
  BY <1>5, <1>6, TilesFacts
<1>9. /\ InsertAt(f, k, high) \in Seq(Hole) /\ Len(InsertAt(f, k, high)) = Len(h) + 1
      /\ \A j \in 1..Len(h) + 1 :
           InsertAt(f, k, high)[j] = IF j < k THEN f[j] ELSE IF j = k THEN high ELSE f[j - 1]
  <2>1. f \in Seq(Hole) /\ k \in 1..Len(f) + 1 /\ high \in Hole /\ Len(f) = Len(h)
    BY <1>3, <1>5, <1>8
  <2>2. InsertAt(f, k, high) \in Seq(Hole) /\ InsertedAt(InsertAt(f, k, high), f, k, high)
    BY <2>1, InsertAtIs
  <2>. QED  BY <2>1, <2>2 DEF InsertedAt
<1>10. PICK g : g = Split(h, i, n)
  OBVIOUS
<1>11. ASSUME NEW j \in 1..Len(h) + 1
      PROVE  g[j] = IF j < i THEN h[j] ELSE IF j = i THEN low
                                 ELSE IF j = i + 1 THEN high ELSE h[j - 1]
  <2>1. g[j] = IF j < i + 1 THEN f[j] ELSE IF j = i + 1 THEN high ELSE f[j - 1]
    BY <1>6, <1>7, <1>9, <1>10
  <2>2. CASE j <= i
    BY <1>5, <1>8, <2>1, <2>2
  <2>3. CASE j = i + 1
    BY <1>8, <2>1, <2>3
  <2>4. CASE j > i + 1
    <3>1. j - 1 \in 1..Len(h) /\ j - 1 # i
      BY <1>8, <2>4
    <3>. QED  BY <1>5, <1>8, <2>1, <2>4, <3>1
  <2>. QED  BY <1>8, <2>2, <2>3, <2>4
<1>. QED  BY <1>1, <1>2, <1>7, <1>9, <1>10, <1>11 DEF SplitAt

LEMMA SplitLen ==
  ASSUME NEW h, Tiles(h), NEW i \in 1..Len(h), NEW n \in Nat \ {0}, n < h[i].size
  PROVE  Len(Split(h, i, n)) = Len(h) + 1
BY SplitIs DEF SplitAt

LEMMA SplitTiles ==
  ASSUME NEW h, Tiles(h), NEW i \in 1..Len(h), NEW n \in Nat \ {0}, n < h[i].size
  PROVE  Tiles(Split(h, i, n))
<1>1. PICK g : g = Split(h, i, n)
  OBVIOUS
<1>2. PICK N : N = Len(h)
  OBVIOUS
<1>3. /\ N \in Nat /\ N >= 1 /\ i \in 1..N /\ Len(g) = N + 1 /\ g \in Seq(Hole)
      /\ \A j \in 1..N : h[j].base \in Nat /\ h[j].size \in Nat
  <2>1. g \in Seq(Hole) /\ SplitAt(g, h, i, n)
    BY <1>1, SplitIs
  <2>2. Len(g) = Len(h) + 1
    BY <2>1 DEF SplitAt
  <2>. QED  BY <1>2, <2>1, <2>2, TilesFacts
<1>a. h[i].base \in Nat /\ h[i].size \in Nat
  BY <1>3
<1>4. \A j \in 1..N + 1 :
        g[j] = IF j < i THEN h[j]
               ELSE IF j = i THEN [base |-> h[i].base, size |-> n, busy |-> TRUE]
               ELSE IF j = i + 1
               THEN [base |-> h[i].base + n, size |-> h[i].size - n, busy |-> FALSE]
               ELSE h[j - 1]
  <2>1. SplitAt(g, h, i, n)
    BY <1>1, SplitIs
  <2>. QED  BY <1>2, <2>1 DEF SplitAt
<1>5. \A j \in 1..N + 1 :
        /\ g[j].base = IF j <= i THEN h[j].base
                       ELSE IF j = i + 1 THEN h[i].base + n ELSE h[j - 1].base
        /\ g[j].base + g[j].size = IF j < i THEN h[j].base + h[j].size
                                   ELSE IF j = i THEN h[i].base + n
                                   ELSE h[j - 1].base + h[j - 1].size
  <2> TAKE j \in 1..N + 1
  <2>1. CASE j < i
    BY <1>3, <1>4, <2>1
  <2>2. CASE j = i
    BY <1>3, <1>4, <2>2
  <2>3. CASE j = i + 1
    <3>0. i \in Int /\ ~(j < i) /\ ~(j <= i) /\ j # i /\ j - 1 = i
      BY <1>3, <2>3
    <3>1. g[j] = [base |-> h[i].base + n, size |-> h[i].size - n, busy |-> FALSE]
      BY <1>4, <2>3, <3>0
    <3>2. g[j].base = h[i].base + n /\ g[j].size = h[i].size - n
      BY <3>1
    <3>3. g[j].base + g[j].size = h[i].base + h[i].size
      <4>1. PICK b \in Nat : b = h[i].base
        BY <1>a
      <4>2. PICK z \in Nat : z = h[i].size
        BY <1>a
      <4>3. (b + n) + (z - n) = b + z
        OBVIOUS
      <4>. QED  BY <3>2, <4>1, <4>2, <4>3
    <3>. QED  BY <2>3, <3>0, <3>2, <3>3
  <2>4. CASE j > i + 1
    <3>1. ~(j < i) /\ ~(j <= i) /\ j # i /\ j # i + 1
      BY <1>3, <2>4
    <3>. QED  BY <1>4, <3>1
  <2>. QED  BY <1>3, <2>1, <2>2, <2>3, <2>4
<1>6. /\ h[1].base = memory_start /\ h[N].base + h[N].size = ArenaEnd
      /\ \A j \in 1..N - 1 : h[j].base + h[j].size = h[j + 1].base
      /\ \A j, k \in 1..N : j < k => h[j].base + h[j].size <= h[k].base
  BY <1>2 DEF Tiles
<1>7. g[1].base = memory_start /\ g[N + 1].base + g[N + 1].size = ArenaEnd
  BY <1>3, <1>5, <1>6
<1>8. ASSUME NEW j \in 1..N PROVE g[j].base + g[j].size = g[j + 1].base
  <2>0. j \in 1..N + 1 /\ j + 1 \in 1..N + 1 /\ (j + 1) - 1 = j
    BY <1>3
  <2>1. CASE j < i
    <3>1. g[j].base + g[j].size = h[j].base + h[j].size /\ g[j + 1].base = h[j + 1].base
      BY <1>3, <1>5, <2>0, <2>1
    <3>. QED  BY <1>3, <1>6, <2>1, <3>1
  <2>2. CASE j = i
    BY <1>3, <1>5, <2>0, <2>2
  <2>3. CASE j > i
    <3>1. g[j].base + g[j].size = h[j - 1].base + h[j - 1].size /\ g[j + 1].base = h[j].base
      BY <1>3, <1>5, <2>0, <2>3
    <3>2. j - 1 \in 1..N - 1 /\ (j - 1) + 1 = j
      BY <1>3, <2>3
    <3>. QED  BY <1>6, <3>1, <3>2
  <2>. QED  BY <1>3, <2>1, <2>2, <2>3
<1>9. ASSUME NEW j \in 1..N + 1, NEW k \in 1..N + 1, j < k
      PROVE  g[j].base + g[j].size <= g[k].base
  <2>1. CASE k <= i
    <3>1. g[j].base + g[j].size = h[j].base + h[j].size /\ g[k].base = h[k].base
      BY <1>3, <1>5, <1>9, <2>1
    <3>. QED  BY <1>3, <1>6, <1>9, <2>1, <3>1
  <2>2. CASE k > i /\ j < i
    <3>1. g[j].base + g[j].size = h[j].base + h[j].size
      BY <1>3, <1>5, <2>2
    <3>2. g[k].base = (IF k = i + 1 THEN h[i].base + n ELSE h[k - 1].base)
      BY <1>3, <1>5, <2>2
    <3>3. k - 1 \in 1..N /\ j \in 1..N /\ j < k - 1 /\ (k = i + 1 => k - 1 = i)
      BY <1>3, <2>2
    <3>4. h[j].base + h[j].size <= h[k - 1].base
      BY <1>6, <3>3
    <3>5. CASE k = i + 1
      <4>1. h[j].base + h[j].size <= h[i].base
        BY <3>3, <3>4, <3>5
      <4>2. PICK e \in Nat : e = h[j].base + h[j].size
        <5>1. h[j].base \in Nat /\ h[j].size \in Nat
          BY <1>3, <3>3
        <5>. QED  BY <5>1
      <4>3. PICK b \in Nat : b = h[i].base
        BY <1>a
      <4>4. e <= b + n
        BY <4>1, <4>2, <4>3
      <4>. QED  BY <3>1, <3>2, <3>5, <4>2, <4>3, <4>4
    <3>. QED  BY <3>1, <3>2, <3>4, <3>5
  <2>3. CASE k > i /\ j = i
    <3>1. g[j].base + g[j].size = h[i].base + n
      BY <1>3, <1>5, <2>3
    <3>2. g[k].base = (IF k = i + 1 THEN h[i].base + n ELSE h[k - 1].base)
      BY <1>3, <1>5, <2>3
    <3>3. k = i + 1 \/ h[i].base + h[i].size <= h[k - 1].base
      <4>1. k = i + 1 \/ (k - 1 \in 1..N /\ i < k - 1)
        BY <1>3, <2>3
      <4>. QED  BY <1>3, <1>6, <4>1
    <3>4. CASE k = i + 1
      BY <1>a, <3>1, <3>2, <3>4
    <3>5. CASE k # i + 1
      <4>1. h[i].base + h[i].size <= g[k].base
        BY <3>2, <3>3, <3>5
      <4>2. k - 1 \in 1..N
        BY <1>3, <2>3
      <4>3. g[k].base \in Nat
        BY <1>3, <3>2, <3>5, <4>2
      <4>4. PICK u \in Nat : u = g[k].base
        BY <4>3
      <4>5. PICK b \in Nat : b = h[i].base
        BY <1>a
      <4>6. PICK z \in Nat : z = h[i].size
        BY <1>a
      <4>7. n < z /\ b + z <= u
        BY <4>1, <4>4, <4>5, <4>6
      <4>8. b + n <= u
        BY <4>7
      <4>. QED  BY <3>1, <4>4, <4>5, <4>8
    <3>. QED  BY <3>4, <3>5
  <2>4. CASE j > i
    <3>1. g[j].base + g[j].size = h[j - 1].base + h[j - 1].size /\ g[k].base = h[k - 1].base
      BY <1>3, <1>5, <1>9, <2>4
    <3>2. j - 1 \in 1..N /\ k - 1 \in 1..N /\ j - 1 < k - 1
      BY <1>3, <1>9, <2>4
    <3>. QED  BY <1>6, <3>1, <3>2
  <2>. QED  BY <1>3, <1>9, <2>1, <2>2, <2>3, <2>4
<1>. QED
  <2>1. Len(g) - 1 = N /\ Len(g) >= 1
    BY <1>3
  <2>. QED  BY <1>1, <1>3, <1>7, <1>8, <1>9, <2>1 DEF Tiles

(***************************************************************************)
(* Both merges join a hole with the one after it.                          *)
(***************************************************************************)
Join(h, i) == RemoveAt([h EXCEPT ![i].size = @ + h[i+1].size], i+1)

JoinAt(g, h, i) ==
  /\ Len(g) = Len(h) - 1
  /\ \A j \in 1..Len(h) - 1 :
       g[j] = IF j < i THEN h[j]
              ELSE IF j = i
              THEN [base |-> h[i].base, size |-> h[i].size + h[i+1].size, busy |-> h[i].busy]
              ELSE h[j + 1]

LEMMA JoinIs ==
  ASSUME NEW h, Tiles(h), NEW i \in 1..Len(h) - 1
  PROVE  Join(h, i) \in Seq(Hole) /\ JoinAt(Join(h, i), h, i)
<1>0. Len(h) \in Nat /\ h \in Seq(Hole) /\ i \in 1..Len(h) /\ i + 1 \in 1..Len(h)
  BY TilesFacts
<1>1. PICK both : both = [base |-> h[i].base, size |-> h[i].size + h[i+1].size, busy |-> h[i].busy]
  OBVIOUS
<1>2. both \in Hole /\ both = [h[i] EXCEPT !.size = @ + h[i+1].size]
  <2>1. h[i] \in Hole /\ h[i].base \in Nat /\ h[i].busy \in BOOLEAN
    BY <1>0, TilesFacts
  <2>2. h[i].size + h[i+1].size \in Nat \ {0}
    BY <1>0, TilesFacts
  <2>. QED  BY <1>1, <2>1, <2>2 DEF Hole
<1>3. PICK f : f = [h EXCEPT ![i] = both]
  OBVIOUS
<1>4. f \in Seq(Hole) /\ Len(f) = Len(h) /\ \A j \in 1..Len(h) : f[j] = IF j = i THEN both ELSE h[j]
  BY <1>0, <1>2, <1>3, ExceptSeq
<1>5. PICK k : k = i + 1
  OBVIOUS
<1>6. Join(h, i) = RemoveAt(f, k)
  BY <1>2, <1>3, <1>5 DEF Join
<1>7. k \in 1..Len(f)
  BY <1>0, <1>4, <1>5
<1>8. /\ RemoveAt(f, k) \in Seq(Hole) /\ Len(RemoveAt(f, k)) = Len(f) - 1
      /\ \A j \in 1..Len(f) - 1 : RemoveAt(f, k)[j] = IF j < k THEN f[j] ELSE f[j + 1]
  <2>1. f \in Seq(Hole) /\ k \in 1..Len(f)
    BY <1>4, <1>7
  <2>. QED  BY <2>1, RemoveAtIs
<1>9. PICK g : g = Join(h, i)
  OBVIOUS
<1>10. ASSUME NEW j \in 1..Len(h) - 1
       PROVE  g[j] = IF j < i THEN h[j] ELSE IF j = i THEN both ELSE h[j + 1]
  <2>1. g[j] = IF j < i + 1 THEN f[j] ELSE f[j + 1]
    BY <1>4, <1>5, <1>6, <1>8, <1>9
  <2>2. j \in 1..Len(h) /\ j + 1 \in 1..Len(h) /\ j \in Int
    BY <1>0
  <2>3. CASE j <= i
    BY <1>0, <1>4, <2>1, <2>2, <2>3
  <2>4. CASE j > i
    <3>1. ~(j < i + 1) /\ ~(j < i) /\ j # i /\ j + 1 # i
      BY <1>0, <2>2, <2>4
    <3>. QED  BY <1>4, <2>1, <2>2, <3>1
  <2>. QED  BY <1>0, <2>2, <2>3, <2>4
<1>. QED  BY <1>1, <1>4, <1>6, <1>8, <1>9, <1>10 DEF JoinAt

LEMMA JoinLen ==
  ASSUME NEW h, Tiles(h), NEW i \in 1..Len(h) - 1
  PROVE  Len(Join(h, i)) = Len(h) - 1
BY JoinIs DEF JoinAt

LEMMA JoinTiles ==
  ASSUME NEW h, Tiles(h), NEW i \in 1..Len(h) - 1
  PROVE  Tiles(Join(h, i))
<1>1. PICK g : g = Join(h, i)
  OBVIOUS
<1>2. PICK N : N = Len(h)
  OBVIOUS
<1>3. /\ N \in Nat /\ N >= 2 /\ i \in 1..N - 1 /\ Len(g) = N - 1 /\ g \in Seq(Hole)
      /\ \A j \in 1..N : h[j].base \in Nat /\ h[j].size \in Nat
  <2>1. N \in Nat /\ \A j \in 1..N : h[j].base \in Nat /\ h[j].size \in Nat
    BY <1>2, TilesFacts
  <2>2. Len(g) = N - 1 /\ g \in Seq(Hole)
    BY <1>1, <1>2, JoinIs, JoinLen
  <2>3. i \in 1..N - 1
    BY <1>2
  <2>. QED  BY <2>1, <2>2, <2>3
<1>4. \A j \in 1..N - 1 :
        g[j] = IF j < i THEN h[j]
               ELSE IF j = i
               THEN [base |-> h[i].base, size |-> h[i].size + h[i+1].size, busy |-> h[i].busy]
               ELSE h[j + 1]
  <2>1. JoinAt(g, h, i)
    BY <1>1, JoinIs
  <2>. QED  BY <1>2, <2>1 DEF JoinAt
<1>5. /\ h[1].base = memory_start /\ h[N].base + h[N].size = ArenaEnd
      /\ \A j \in 1..N - 1 : h[j].base + h[j].size = h[j + 1].base
      /\ \A j, k \in 1..N : j < k => h[j].base + h[j].size <= h[k].base
  BY <1>2 DEF Tiles
<1>6. \A j \in 1..N - 1 :
        /\ g[j].base = IF j <= i THEN h[j].base ELSE h[j + 1].base
        /\ g[j].base + g[j].size = IF j < i THEN h[j].base + h[j].size
                                   ELSE h[j + 1].base + h[j + 1].size
  <2> TAKE j \in 1..N - 1
  <2>1. CASE j < i
    <3>1. g[j] = h[j]
      BY <1>4, <2>1
    <3>2. j <= i
      BY <1>3, <2>1
    <3>. QED  BY <2>1, <3>1, <3>2
  <2>2. CASE j = i
    <3>0. i \in Int /\ ~(i < i) /\ i \in 1..N /\ i + 1 \in 1..N
      BY <1>3
    <3>4. g[i] = [base |-> h[i].base, size |-> h[i].size + h[i+1].size, busy |-> h[i].busy]
      BY <1>3, <1>4, <3>0
    <3>1. g[i].base = h[i].base /\ g[i].size = h[i].size + h[i+1].size
      BY <3>4
    <3>2. /\ h[i].base \in Nat /\ h[i].size \in Nat /\ h[i+1].size \in Nat
          /\ h[i+1].base = h[i].base + h[i].size
      BY <1>3, <1>5, <3>0
    <3>3. g[i].base + g[i].size = h[i+1].base + h[i+1].size
      <4>1. PICK p, q, r \in Nat : p = h[i].base /\ q = h[i].size /\ r = h[i+1].size
        BY <3>2
      <4>2. g[i].base = p /\ g[i].size = q + r /\ h[i+1].base = p + q /\ h[i+1].size = r
        BY <3>1, <3>2, <4>1
      <4>3. p + (q + r) = (p + q) + r
        OBVIOUS
      <4>. QED  BY <4>2, <4>3
    <3>5. j <= i /\ ~(j < i)
      BY <2>2, <3>0
    <3>. QED  BY <2>2, <3>1, <3>3, <3>5
  <2>3. CASE j > i
    <3>1. ~(j < i) /\ ~(j <= i) /\ j # i
      BY <1>3, <2>3
    <3>. QED  BY <1>4, <3>1
  <2>. QED  BY <1>3, <2>1, <2>2, <2>3
<1>7. g[1].base = memory_start /\ g[N - 1].base + g[N - 1].size = ArenaEnd
  <2>1. 1 \in 1..N - 1 /\ 1 <= i /\ N - 1 \in 1..N - 1 /\ ~(N - 1 < i) /\ (N - 1) + 1 = N
    BY <1>3
  <2>. QED  BY <1>5, <1>6, <2>1
<1>8. ASSUME NEW j \in 1..N - 1, NEW k \in 1..N - 1, j < k
      PROVE  /\ g[j].base + g[j].size <= g[k].base
             /\ k = j + 1 => g[j].base + g[j].size = g[k].base
  <2>1. CASE k <= i
    <3>0. j < i
      BY <1>3, <1>8, <2>1
    <3>1. g[j].base + g[j].size = h[j].base + h[j].size /\ g[k].base = h[k].base
      BY <1>6, <2>1, <3>0
    <3>2. j \in 1..N /\ k \in 1..N /\ j \in 1..N - 1
      BY <1>3, <1>8, <2>1
    <3>. QED  BY <1>5, <1>8, <3>1, <3>2
  <2>2. CASE k > i /\ j < i
    <3>1. g[j].base + g[j].size = h[j].base + h[j].size /\ g[k].base = h[k + 1].base
      BY <1>3, <1>6, <2>2
    <3>2. j \in 1..N /\ k + 1 \in 1..N /\ j < k + 1 /\ k # j + 1
      BY <1>3, <2>2
    <3>. QED  BY <1>5, <3>1, <3>2
  <2>3. CASE j >= i
    <3>1. ~(j < i) /\ ~(k <= i)
      BY <1>3, <1>8, <2>3
    <3>2. g[j].base + g[j].size = h[j + 1].base + h[j + 1].size /\ g[k].base = h[k + 1].base
      BY <1>6, <3>1
    <3>3. j + 1 \in 1..N /\ k + 1 \in 1..N /\ j + 1 < k + 1 /\ (k = j + 1 => j + 1 \in 1..N - 1)
      BY <1>3, <1>8
    <3>. QED  BY <1>5, <3>2, <3>3
  <2>. QED  BY <1>3, <1>8, <2>1, <2>2, <2>3
<1>9. ASSUME NEW j \in 1..Len(g) - 1 PROVE g[j].base + g[j].size = g[j + 1].base
  <2>1. j \in 1..N - 1 /\ j + 1 \in 1..N - 1 /\ j < j + 1
    BY <1>3
  <2>. QED  BY <1>8, <2>1
<1>. QED  BY <1>1, <1>3, <1>7, <1>8, <1>9 DEF Tiles

(***************************************************************************)
(* A hole is taken or given back whole.                                    *)
(***************************************************************************)
LEMMA SameExtents ==
  ASSUME NEW h, Tiles(h), NEW g \in Seq(Hole), Len(g) = Len(h),
         \A j \in 1..Len(h) : g[j].base = h[j].base /\ g[j].size = h[j].size
  PROVE  Tiles(g)
<1>1. Len(h) \in Nat /\ Len(h) >= 1
  BY TilesFacts
<1>2. /\ h[1].base = memory_start /\ h[Len(h)].base + h[Len(h)].size = ArenaEnd
      /\ \A j \in 1..Len(h) - 1 : h[j].base + h[j].size = h[j + 1].base
      /\ \A j, k \in 1..Len(h) : j < k => h[j].base + h[j].size <= h[k].base
  BY DEF Tiles
<1>3. g[1].base = memory_start /\ g[Len(h)].base + g[Len(h)].size = ArenaEnd
  BY <1>1, <1>2
<1>4. \A j, k \in 1..Len(h) : j < k => g[j].base + g[j].size <= g[k].base
  BY <1>2
<1>5. \A j \in 1..Len(h) - 1 : g[j].base + g[j].size = g[j + 1].base
  <2> TAKE j \in 1..Len(h) - 1
  <2>1. j \in 1..Len(h) /\ j + 1 \in 1..Len(h)
    BY <1>1
  <2>. QED  BY <1>2, <2>1
<1>. QED  BY <1>1, <1>3, <1>4, <1>5 DEF Tiles

(* Two elements that differ make a set of two: the two neighbours of a     *)
(* hole that merge_hole joins to it.                                       *)
LEMMA PairCardinality ==
  ASSUME NEW S, NEW x, NEW y, x # y, S = {x} \cup {y}
  PROVE  Cardinality(S) = 2
<1>1. IsFiniteSet({x}) /\ Cardinality({x}) = 1
  BY FS_Singleton
<1>2. Cardinality({x} \cup {y}) = Cardinality({x}) + 1
  BY <1>1, FS_AddElement
<1>. QED  BY <1>1, <1>2

SetBusy(h, i, b) == [h EXCEPT ![i].busy = b]

LEMMA StatusIs ==
  ASSUME NEW h, Tiles(h), NEW i \in 1..Len(h), NEW b \in BOOLEAN
  PROVE  LET g == SetBusy(h, i, b)
         IN  /\ Tiles(g) /\ Len(g) = Len(h)
             /\ \A j \in 1..Len(h) :
                  /\ g[j].base = h[j].base /\ g[j].size = h[j].size
                  /\ (g[j].busy <=> IF j = i THEN b ELSE h[j].busy)
<1>1. PICK e : e = [h[i] EXCEPT !.busy = b]
  OBVIOUS
<1>2. e \in Hole /\ e.base = h[i].base /\ e.size = h[i].size /\ e.busy = b
  <2>1. h[i] \in Hole
    BY TilesFacts
  <2>. QED  BY <1>1, <2>1 DEF Hole
<1>3. PICK g : g = SetBusy(h, i, b)
  OBVIOUS
<1>4. g = [h EXCEPT ![i] = e]
  BY <1>1, <1>3 DEF SetBusy
<1>5. g \in Seq(Hole) /\ Len(g) = Len(h) /\ \A j \in 1..Len(h) : g[j] = IF j = i THEN e ELSE h[j]
  <2>1. h \in Seq(Hole)
    BY TilesFacts
  <2>2. /\ [h EXCEPT ![i] = e] \in Seq(Hole) /\ Len([h EXCEPT ![i] = e]) = Len(h)
        /\ \A j \in 1..Len(h) : [h EXCEPT ![i] = e][j] = IF j = i THEN e ELSE h[j]
    BY <1>2, <2>1, ExceptSeq
  <2>. QED  BY <1>4, <2>2
<1>6. \A j \in 1..Len(h) : /\ g[j].base = h[j].base /\ g[j].size = h[j].size
                           /\ (g[j].busy <=> IF j = i THEN b ELSE h[j].busy)
  BY <1>2, <1>5
<1>7. Tiles(g)
  BY <1>5, <1>6, SameExtents
<1>. QED  BY <1>3, <1>5, <1>6, <1>7

LEMMA TakenIs ==
  ASSUME NEW h, Tiles(h), NEW i \in 1..Len(h), NEW g, g = SetBusy(h, i, TRUE)
  PROVE  Tiles(g) /\ Len(g) = Len(h) /\ \A j \in 1..Len(h) : h[j].busy => g[j].busy
<1>1. TRUE \in BOOLEAN
  OBVIOUS
<1>2. Tiles(g)
  BY <1>1, StatusIs
<1>3. Len(g) = Len(h)
  BY <1>1, StatusIs
<1>4. \A j \in 1..Len(h) : h[j].busy => g[j].busy
  BY <1>1, StatusIs
<1>. QED  BY <1>2, <1>3, <1>4

-----------------------------------------------------------------------------
(***************************************************************************)
(* What the same steps do to the busy blocks and to free neighbours.       *)
(***************************************************************************)
Merged(h) == \A i \in 1..Len(h) - 1 : h[i].busy \/ h[i + 1].busy

LEMMA SplitBusy ==
  ASSUME NEW h, Tiles(h), NEW i \in 1..Len(h), NEW n \in Nat \ {0}, n < h[i].size, ~h[i].busy
  PROVE  /\ BusyBlocks(Split(h, i, n)) = BusyBlocks(h) \cup {[base |-> h[i].base, size |-> n]}
         /\ Merged(h) => Merged(Split(h, i, n))
<1>1. PICK g : g = Split(h, i, n)
  OBVIOUS
<1>2. PICK N : N = Len(h)
  OBVIOUS
<1>3. N \in Nat /\ i \in 1..N /\ Len(g) = N + 1
  <2>1. Len(g) = Len(h) + 1
    BY <1>1, SplitLen
  <2>. QED  BY <1>2, <2>1, TilesFacts
<1>4. \A j \in 1..N + 1 :
        g[j] = IF j < i THEN h[j]
               ELSE IF j = i THEN [base |-> h[i].base, size |-> n, busy |-> TRUE]
               ELSE IF j = i + 1
               THEN [base |-> h[i].base + n, size |-> h[i].size - n, busy |-> FALSE]
               ELSE h[j - 1]
  <2>1. SplitAt(g, h, i, n)
    BY <1>1, SplitIs
  <2>. QED  BY <1>2, <2>1 DEF SplitAt
<1>5. /\ \A j \in 1..N : j < i => g[j] = h[j]
      /\ g[i].busy /\ Block(g[i]) = [base |-> h[i].base, size |-> n]
      /\ ~g[i + 1].busy
  BY <1>3, <1>4 DEF Block
<1>6. \A j \in 1..N : j > i => g[j + 1] = h[j]
  <2> SUFFICES ASSUME NEW j \in 1..N, j > i PROVE g[j + 1] = h[j]
    OBVIOUS
  <2>1. j + 1 \in 1..N + 1 /\ ~(j + 1 < i) /\ j + 1 # i /\ j + 1 # i + 1 /\ (j + 1) - 1 = j
    BY <1>3
  <2>. QED  BY <1>4, <2>1
<1>7. ASSUME NEW x \in BusyBlocks(g)
      PROVE  x \in BusyBlocks(h) \cup {[base |-> h[i].base, size |-> n]}
  <2>1. PICK j \in 1..N + 1 : g[j].busy /\ x = Block(g[j])
    BY <1>3 DEF BusyBlocks
  <2>2. CASE j < i
    BY <1>2, <1>3, <1>5, <2>1, <2>2 DEF BusyBlocks
  <2>3. CASE j = i
    BY <1>5, <2>1, <2>3
  <2>4. CASE j > i + 1
    <3>1. PICK k \in 1..N : k = j - 1 /\ k > i /\ j = k + 1
      BY <1>3, <2>4
    <3>2. g[j] = h[k]
      BY <1>6, <3>1
    <3>. QED  BY <1>2, <2>1, <3>2 DEF BusyBlocks
  <2>5. j # i + 1
    BY <1>5, <2>1
  <2>. QED  BY <1>3, <2>2, <2>3, <2>4, <2>5
<1>8. ASSUME NEW x \in BusyBlocks(h) PROVE x \in BusyBlocks(g)
  <2>1. PICK j \in 1..N : h[j].busy /\ x = Block(h[j])
    BY <1>2 DEF BusyBlocks
  <2>2. CASE j < i
    BY <1>3, <1>5, <2>1, <2>2 DEF BusyBlocks
  <2>3. CASE j > i
    <3>1. PICK k \in 1..N + 1 : k = j + 1
      BY <1>3
    <3>2. g[k] = h[j]
      BY <1>6, <2>3, <3>1
    <3>. QED  BY <1>3, <2>1, <3>2 DEF BusyBlocks
  <2>4. j # i
    BY <2>1
  <2>. QED  BY <1>3, <2>2, <2>3, <2>4
<1>9. [base |-> h[i].base, size |-> n] \in BusyBlocks(g)
  <2>1. i \in 1..Len(g)
    BY <1>3
  <2>. QED  BY <1>5, <2>1 DEF BusyBlocks
<1>10. ASSUME Merged(h), NEW j \in 1..N PROVE g[j].busy \/ g[j + 1].busy
  <2>0. \A k \in 1..N - 1 : h[k].busy \/ h[k + 1].busy
    BY <1>2, <1>10 DEF Merged
  <2>1. CASE j + 1 < i
    <3>1. g[j] = h[j] /\ g[j + 1] = h[j + 1] /\ j \in 1..N - 1
      BY <1>3, <1>5, <2>1
    <3>. QED  BY <2>0, <3>1
  <2>2. CASE j + 1 = i \/ j = i
    BY <1>5, <2>2
  <2>3. CASE j = i + 1
    <3>1. g[j + 1] = h[j] /\ i \in 1..N - 1 /\ j = i + 1
      BY <1>3, <1>6, <2>3
    <3>. QED  BY <2>0, <3>1
  <2>4. CASE j > i + 1
    <3>1. PICK k \in 1..N - 1 : k + 1 = j /\ k > i
      BY <1>3, <2>4
    <3>2. k \in 1..N /\ j > i
      BY <1>3, <2>4, <3>1
    <3>3. g[k + 1] = h[k] /\ g[j + 1] = h[j]
      BY <1>6, <3>1, <3>2
    <3>. QED  BY <2>0, <3>1, <3>3
  <2>. QED  BY <1>3, <2>1, <2>2, <2>3, <2>4
<1>. QED
  <2>1. Merged(h) => Merged(g)
    <3>1. Len(g) - 1 = N
      BY <1>3
    <3>. QED  BY <1>10, <3>1 DEF Merged
  <2>. QED  BY <1>1, <1>7, <1>8, <1>9, <2>1

LEMMA JoinBusy ==
  ASSUME NEW h, Tiles(h), NEW i \in 1..Len(h) - 1, ~h[i].busy, ~h[i + 1].busy
  PROVE  BusyBlocks(Join(h, i)) = BusyBlocks(h)
<1>1. PICK g : g = Join(h, i)
  OBVIOUS
<1>2. PICK N : N = Len(h)
  OBVIOUS
<1>3. N \in Nat /\ i \in 1..N - 1 /\ Len(g) = N - 1
  <2>1. N \in Nat /\ i \in 1..N - 1
    BY <1>2, TilesFacts
  <2>2. Len(g) = N - 1
    BY <1>1, <1>2, JoinLen
  <2>. QED  BY <2>1, <2>2
<1>4. \A j \in 1..N - 1 :
        g[j] = IF j < i THEN h[j]
               ELSE IF j = i
               THEN [base |-> h[i].base, size |-> h[i].size + h[i+1].size, busy |-> h[i].busy]
               ELSE h[j + 1]
  <2>1. JoinAt(g, h, i)
    BY <1>1, JoinIs
  <2>. QED  BY <1>2, <2>1 DEF JoinAt
<1>5. /\ \A j \in 1..N - 1 : j < i => g[j] = h[j]
      /\ \A j \in 1..N - 1 : j > i => g[j] = h[j + 1]
      /\ ~g[i].busy
  <2>1. \A j \in 1..N - 1 : (j > i => ~(j < i) /\ j # i) /\ (j = i => ~(j < i))
    BY <1>3
  <2>. QED  BY <1>3, <1>4, <2>1
<1>7. ASSUME NEW x \in BusyBlocks(g) PROVE x \in BusyBlocks(h)
  <2>1. PICK j \in 1..N - 1 : g[j].busy /\ x = Block(g[j])
    BY <1>3 DEF BusyBlocks
  <2>2. CASE j < i
    <3>1. g[j] = h[j] /\ j \in 1..N
      BY <1>3, <1>5, <2>2
    <3>. QED  BY <1>2, <2>1, <3>1 DEF BusyBlocks
  <2>3. CASE j > i
    <3>1. PICK k \in 1..N : k = j + 1
      BY <1>3
    <3>. QED  BY <1>2, <1>5, <2>1, <2>3, <3>1 DEF BusyBlocks
  <2>4. j # i
    BY <1>5, <2>1
  <2>. QED  BY <1>3, <2>2, <2>3, <2>4
<1>8. ASSUME NEW x \in BusyBlocks(h) PROVE x \in BusyBlocks(g)
  <2>1. PICK j \in 1..N : h[j].busy /\ x = Block(h[j])
    BY <1>2 DEF BusyBlocks
  <2>2. CASE j < i
    <3>1. g[j] = h[j] /\ j \in 1..N - 1
      BY <1>3, <1>5, <2>2
    <3>. QED  BY <1>3, <2>1, <3>1 DEF BusyBlocks
  <2>3. CASE j > i + 1
    <3>1. PICK k \in 1..N - 1 : j = k + 1 /\ k > i
      BY <1>3, <2>3
    <3>. QED  BY <1>3, <1>5, <2>1, <3>1 DEF BusyBlocks
  <2>4. j # i /\ j # i + 1
    BY <2>1
  <2>. QED  BY <1>3, <2>2, <2>3, <2>4
<1>. QED  BY <1>1, <1>7, <1>8

LEMMA StatusBusy ==
  ASSUME NEW h, Tiles(h), NEW i \in 1..Len(h)
  PROVE  /\ ~h[i].busy => BusyBlocks(SetBusy(h, i, TRUE)) = BusyBlocks(h) \cup {Block(h[i])}
         /\ h[i].busy => BusyBlocks(SetBusy(h, i, FALSE)) = BusyBlocks(h) \ {Block(h[i])}
<1>1. ASSUME NEW g, NEW b \in BOOLEAN, g = SetBusy(h, i, b)
      PROVE  Len(g) = Len(h) /\ \A j \in 1..Len(h) : /\ Block(g[j]) = Block(h[j])
                                                      /\ (g[j].busy <=> IF j = i THEN b ELSE h[j].busy)
  BY <1>1, StatusIs DEF Block
<1>2. \A j \in 1..Len(h) : j # i => Block(h[j]) # Block(h[i])
  <2> SUFFICES ASSUME NEW j \in 1..Len(h), Block(h[j]) = Block(h[i]) PROVE j = i
    OBVIOUS
  <2>1. h[j].base = h[i].base
    BY DEF Block
  <2>. QED  BY <2>1, TilesFacts
<1>3. ASSUME ~h[i].busy
      PROVE  BusyBlocks(SetBusy(h, i, TRUE)) = BusyBlocks(h) \cup {Block(h[i])}
  <2>1. PICK g : g = SetBusy(h, i, TRUE)
    OBVIOUS
  <2>2. Len(g) = Len(h) /\ \A j \in 1..Len(h) : /\ Block(g[j]) = Block(h[j])
                                                /\ (g[j].busy <=> j = i \/ h[j].busy)
    BY <1>1, <2>1
  <2>3. BusyBlocks(g) \subseteq BusyBlocks(h) \cup {Block(h[i])}
    BY <2>2 DEF BusyBlocks
  <2>4. BusyBlocks(h) \cup {Block(h[i])} \subseteq BusyBlocks(g)
    BY <2>2 DEF BusyBlocks
  <2>. QED  BY <2>1, <2>3, <2>4
<1>4. ASSUME h[i].busy
      PROVE  BusyBlocks(SetBusy(h, i, FALSE)) = BusyBlocks(h) \ {Block(h[i])}
  <2>1. PICK g : g = SetBusy(h, i, FALSE)
    OBVIOUS
  <2>2. Len(g) = Len(h) /\ \A j \in 1..Len(h) : /\ Block(g[j]) = Block(h[j])
                                                /\ (g[j].busy <=> j # i /\ h[j].busy)
    BY <1>1, <2>1
  <2>3. BusyBlocks(g) \subseteq BusyBlocks(h) \ {Block(h[i])}
    BY <1>2, <2>2 DEF BusyBlocks
  <2>4. BusyBlocks(h) \ {Block(h[i])} \subseteq BusyBlocks(g)
    BY <2>2 DEF BusyBlocks
  <2>. QED  BY <2>1, <2>3, <2>4
<1>. QED  BY <1>3, <1>4

(***************************************************************************)
(* While a hole is being freed, two neighbours may both be free, but only  *)
(* at the places the merges have still to look at.                         *)
(***************************************************************************)
MergedBut(h, S) == \A i \in 1..Len(h) - 1 : i \in S \/ h[i].busy \/ h[i + 1].busy

LEMMA JoinMerged ==
  ASSUME NEW h, Tiles(h), NEW i \in 1..Len(h) - 1, ~h[i].busy, ~h[i + 1].busy,
         NEW S \in SUBSET {i - 1}, MergedBut(h, S \cup {i})
  PROVE  MergedBut(Join(h, i), S)
<1>1. PICK g : g = Join(h, i)
  OBVIOUS
<1>2. PICK N : N = Len(h)
  OBVIOUS
<1>3. N \in Nat /\ i \in 1..N - 1 /\ Len(g) = N - 1
  <2>1. N \in Nat /\ i \in 1..N - 1
    BY <1>2, TilesFacts
  <2>2. Len(g) = N - 1
    BY <1>1, <1>2, JoinLen
  <2>. QED  BY <2>1, <2>2
<1>4. \A j \in 1..N - 1 :
        g[j] = IF j < i THEN h[j]
               ELSE IF j = i
               THEN [base |-> h[i].base, size |-> h[i].size + h[i+1].size, busy |-> h[i].busy]
               ELSE h[j + 1]
  <2>1. JoinAt(g, h, i)
    BY <1>1, JoinIs
  <2>. QED  BY <1>2, <2>1 DEF JoinAt
<1>5. \A j \in 1..N - 1 : g[j].busy = IF j <= i THEN h[j].busy ELSE h[j + 1].busy
  <2> TAKE j \in 1..N - 1
  <2>1. CASE j < i
    BY <1>3, <1>4, <2>1
  <2>2. CASE j = i
    BY <1>3, <1>4, <2>2
  <2>3. CASE j > i
    <3>1. ~(j < i) /\ ~(j <= i) /\ j # i
      BY <1>3, <2>3
    <3>. QED  BY <1>4, <3>1
  <2>. QED  BY <1>3, <2>1, <2>2, <2>3
<1>6. \A j \in 1..N - 1 : j \in S \cup {i} \/ h[j].busy \/ h[j + 1].busy
  BY <1>2 DEF MergedBut
<1>7. ASSUME NEW j \in 1..Len(g) - 1, j \notin S PROVE g[j].busy \/ g[j + 1].busy
  <2>0. j \in 1..N - 1 /\ j + 1 \in 1..N - 1
    BY <1>3
  <2>1. CASE j < i
    <3>1. g[j].busy = h[j].busy /\ g[j + 1].busy = h[j + 1].busy
      BY <1>3, <1>5, <2>0, <2>1
    <3>. QED  BY <1>3, <1>6, <1>7, <2>0, <2>1, <3>1
  <2>2. CASE j = i
    <3>1. g[j + 1].busy = h[(i + 1) + 1].busy
      BY <1>3, <1>5, <2>0, <2>2
    <3>2. i + 1 \in 1..N - 1 /\ i + 1 \notin S \cup {i}
      BY <1>3, <2>0, <2>2
    <3>. QED  BY <1>6, <3>1, <3>2
  <2>3. CASE j > i
    <3>1. ~(j <= i) /\ ~(j + 1 <= i)
      BY <1>3, <2>0, <2>3
    <3>2. g[j].busy = h[j + 1].busy /\ g[j + 1].busy = h[(j + 1) + 1].busy
      BY <1>5, <2>0, <3>1
    <3>3. j + 1 \in 1..N - 1 /\ j + 1 \notin S \cup {i}
      BY <1>3, <2>0, <2>3
    <3>. QED  BY <1>6, <3>2, <3>3
  <2>. QED  BY <1>3, <2>0, <2>1, <2>2, <2>3
<1>. QED  BY <1>1, <1>7 DEF MergedBut

(***************************************************************************)
(* Kmem_free on the hole i: its block is no longer busy, the list tiles    *)
(* the memory as before, no two neighbours are free and every node dropped *)
(* is one free_slot gets back.                                             *)
(***************************************************************************)
LEMMA MergeNextIs ==
  ASSUME NEW h, Tiles(h), Merged(h), NEW i \in 1..Len(h), h[i].busy
  PROVE  LET f == SetBusy(h, i, FALSE)
             g == MergeNext(f, i)
         IN  /\ Tiles(g) /\ i \in 1..Len(g) /\ ~g[i].busy
             /\ \A j \in 1..i - 1 : (g[j].busy <=> h[j].busy)
             /\ BusyBlocks(g) = BusyBlocks(h) \ {Block(h[i])}
             /\ MergedBut(g, {i - 1})
             /\ Len(g) = IF i + 1 \in 1..Len(h) /\ ~h[i + 1].busy THEN Len(h) - 1 ELSE Len(h)
<1>1. PICK f : f = SetBusy(h, i, FALSE)
  OBVIOUS
<1>2. PICK g : g = MergeNext(f, i)
  OBVIOUS
<1>3. PICK N : N = Len(h)
  OBVIOUS
<1>4. N \in Nat /\ i \in 1..N
  BY <1>3, TilesFacts
<1>5. /\ Tiles(f) /\ Len(f) = N
      /\ \A j \in 1..N : (f[j].busy <=> j # i /\ h[j].busy)
  <2>1. FALSE \in BOOLEAN
    OBVIOUS
  <2>2. Tiles(f)
    BY <1>1, <2>1, StatusIs
  <2>3. Len(f) = Len(h)
    BY <1>1, <2>1, StatusIs
  <2>4. \A j \in 1..Len(h) : (f[j].busy <=> j # i /\ h[j].busy)
    <3>1. PICK b \in BOOLEAN : b = FALSE
      OBVIOUS
    <3>2. \A j \in 1..Len(h) : (f[j].busy <=> IF j = i THEN b ELSE h[j].busy)
      BY <1>1, <3>1, StatusIs
    <3>. QED  BY <3>1, <3>2
  <2>. QED  BY <1>3, <2>2, <2>3, <2>4
<1>6. BusyBlocks(f) = BusyBlocks(h) \ {Block(h[i])}
  BY <1>1, StatusBusy
<1>7. MergedBut(f, {i - 1} \cup {i})
  <2> SUFFICES ASSUME NEW j \in 1..N - 1, j # i - 1, j # i PROVE f[j].busy \/ f[j + 1].busy
    BY <1>5 DEF MergedBut
  <2>1. j \in 1..N /\ j + 1 \in 1..N /\ j + 1 # i
    BY <1>4
  <2>2. (f[j].busy <=> h[j].busy) /\ (f[j + 1].busy <=> h[j + 1].busy)
    BY <1>5, <2>1
  <2>. QED  BY <1>3, <2>2 DEF Merged
<1>8. CASE i + 1 \in 1..N /\ ~h[i + 1].busy
  <2>1. i \in 1..N - 1 /\ i < N /\ ~f[i].busy /\ ~f[i + 1].busy
    <3>1. i \in 1..N - 1 /\ i < N /\ i + 1 # i
      BY <1>4, <1>8
    <3>. QED  BY <1>4, <1>5, <1>8, <3>1
  <2>2. g = Join(f, i)
    BY <1>2, <1>5, <2>1 DEF MergeNext, Join
  <2>3. Tiles(g) /\ BusyBlocks(g) = BusyBlocks(f)
    BY <1>5, <2>1, <2>2, JoinTiles, JoinBusy
  <2>4. MergedBut(g, {i - 1})
    <3>1. i \in 1..Len(f) - 1 /\ {i - 1} \in SUBSET {i - 1}
      BY <1>5, <2>1
    <3>. QED  BY <1>5, <1>7, <2>1, <2>2, <3>1, JoinMerged
  <2>5. Len(g) = N - 1 /\ \A j \in 1..N - 1 :
          g[j] = IF j < i THEN f[j]
                 ELSE IF j = i
                 THEN [base |-> f[i].base, size |-> f[i].size + f[i+1].size, busy |-> f[i].busy]
                 ELSE f[j + 1]
    <3>1. i \in 1..Len(f) - 1
      BY <1>5, <2>1
    <3>2. Len(g) = Len(f) - 1 /\ \A j \in 1..Len(f) - 1 :
          g[j] = IF j < i THEN f[j]
                 ELSE IF j = i
                 THEN [base |-> f[i].base, size |-> f[i].size + f[i+1].size, busy |-> f[i].busy]
                 ELSE f[j + 1]
      <4>1. JoinAt(g, f, i)
        BY <1>5, <2>2, <3>1, JoinIs
      <4>. QED  BY <4>1 DEF JoinAt
    <3>. QED  BY <1>5, <3>2
  <2>6. ~g[i].busy /\ \A j \in 1..i - 1 : (g[j].busy <=> h[j].busy)
    <3>1. ~(i < i)
      BY <1>4
    <3>2. ~g[i].busy
      BY <2>1, <2>5, <3>1
    <3>3. ASSUME NEW j \in 1..i - 1 PROVE (g[j].busy <=> h[j].busy)
      <4>1. j \in 1..N - 1 /\ j < i /\ j \in 1..N /\ j # i
        BY <1>4
      <4>2. g[j] = f[j]
        BY <2>5, <4>1
      <4>. QED  BY <1>5, <4>1, <4>2
    <3>. QED  BY <3>2, <3>3
  <2>7. i \in 1..Len(g)
    BY <2>1, <2>5
  <2>. QED  BY <1>1, <1>2, <1>3, <1>6, <1>8, <2>3, <2>4, <2>5, <2>6, <2>7
<1>9. CASE ~(i + 1 \in 1..N /\ ~h[i + 1].busy)
  <2>1. g = f
    <3>1. CASE i + 1 \in 1..N
      <4>0. i + 1 # i
        BY <1>4
      <4>1. f[i + 1].busy
        BY <1>5, <1>9, <3>1, <4>0
      <4>. QED  BY <1>2, <4>1 DEF MergeNext
    <3>2. CASE i + 1 \notin 1..N
      <4>1. ~(i < Len(f))
        BY <1>4, <1>5, <3>2
      <4>. QED  BY <1>2, <4>1 DEF MergeNext
    <3>. QED  BY <3>1, <3>2
  <2>2. ~g[i].busy /\ \A j \in 1..i - 1 : (g[j].busy <=> h[j].busy)
    <3>1. \A j \in 1..i - 1 : j \in 1..N /\ j # i
      BY <1>4
    <3>. QED  BY <1>4, <1>5, <2>1, <3>1
  <2>3. MergedBut(g, {i - 1})
    <3> SUFFICES ASSUME NEW j \in 1..N - 1, j # i - 1 PROVE f[j].busy \/ f[j + 1].busy
      BY <1>5, <2>1 DEF MergedBut
    <3>1. CASE j = i
      <4>1. i + 1 \in 1..N /\ i + 1 # i
        BY <1>4, <3>1
      <4>. QED  BY <1>5, <1>9, <3>1, <4>1
    <3>2. CASE j # i
      BY <1>5, <1>7, <3>2 DEF MergedBut
    <3>. QED  BY <3>1, <3>2
  <2>. QED  BY <1>1, <1>2, <1>3, <1>4, <1>5, <1>6, <1>9, <2>1, <2>2, <2>3
<1>. QED  BY <1>8, <1>9

LEMMA FreeIs ==
  ASSUME NEW h, Tiles(h), Merged(h), NEW i \in 1..Len(h), h[i].busy
  PROVE  LET g == MergePrev(MergeNext(SetBusy(h, i, FALSE), i), i)
         IN  /\ Tiles(g) /\ Merged(g)
             /\ BusyBlocks(g) = BusyBlocks(h) \ {Block(h[i])}
             /\ Cardinality(merged_nodes(h, i)) \in Nat
             /\ Len(g) + Cardinality(merged_nodes(h, i)) = Len(h)
<1>1. PICK f : f = MergeNext(SetBusy(h, i, FALSE), i)
  OBVIOUS
<1>2. PICK g : g = MergePrev(f, i)
  OBVIOUS
<1>3. PICK N : N = Len(h)
  OBVIOUS
<1>4. N \in Nat /\ i \in 1..N /\ DOMAIN h = 1..N
  <2>1. N \in Nat /\ i \in 1..N
    BY <1>3, TilesFacts
  <2>2. DOMAIN h = 1..N
    <3>1. h \in Seq(Hole)
      BY TilesFacts
    <3>. QED  BY <1>3, <3>1, LenProperties
  <2>. QED  BY <2>1, <2>2
<1> DEFINE Next1 == i + 1 \in 1..N /\ ~h[i + 1].busy
           Prev1 == i - 1 \in 1..N /\ ~h[i - 1].busy
<1>5. /\ Tiles(f) /\ i \in 1..Len(f) /\ ~f[i].busy
      /\ \A j \in 1..i - 1 : (f[j].busy <=> h[j].busy)
      /\ BusyBlocks(f) = BusyBlocks(h) \ {Block(h[i])}
      /\ MergedBut(f, {i - 1})
  BY <1>1, MergeNextIs
<1>6. Len(f) = IF Next1 THEN N - 1 ELSE N
  BY <1>1, <1>3, MergeNextIs
<1>7. Len(f) \in Nat
  BY <1>5, TilesFacts
<1>8. /\ Tiles(g) /\ Merged(g) /\ BusyBlocks(g) = BusyBlocks(f)
      /\ Len(g) = IF Prev1 THEN Len(f) - 1 ELSE Len(f)
  <2>1. CASE Prev1
    <3>1. PICK k : k = i - 1
      OBVIOUS
    <3>2. k \in 1..Len(f) - 1 /\ k + 1 = i /\ i > 1 /\ k \in 1..i - 1
      BY <1>4, <1>5, <1>7, <2>1, <3>1
    <3>3. ~f[k].busy /\ ~f[k + 1].busy
      BY <1>5, <2>1, <3>1, <3>2
    <3>4. g = Join(f, k)
      BY <1>2, <3>1, <3>2, <3>3 DEF MergePrev, Join
    <3>5. Tiles(g)
      BY <1>5, <3>2, <3>4, JoinTiles
    <3>6. BusyBlocks(g) = BusyBlocks(f)
      BY <1>5, <3>2, <3>3, <3>4, JoinBusy
    <3>7. MergedBut(f, {} \cup {k})
      BY <1>5, <3>1
    <3>8. MergedBut(g, {})
      BY <1>5, <3>2, <3>3, <3>4, <3>7, JoinMerged
    <3>9. Len(g) = Len(f) - 1
      BY <1>5, <3>2, <3>4, JoinLen
    <3>. QED  BY <2>1, <3>5, <3>6, <3>8, <3>9 DEF Merged, MergedBut
  <2>2. CASE ~Prev1
    <3>1. g = f
      <4>1. CASE i = 1
        BY <1>2, <4>1 DEF MergePrev
      <4>2. CASE i > 1
        <5>1. i - 1 \in 1..N /\ i - 1 \in 1..i - 1
          BY <1>4, <4>2
        <5>2. f[i - 1].busy
          BY <1>5, <2>2, <5>1
        <5>. QED  BY <1>2, <5>2 DEF MergePrev
      <4>. QED  BY <1>4, <4>1, <4>2
    <3>2. Merged(f)
      <4> SUFFICES ASSUME NEW j \in 1..Len(f) - 1 PROVE f[j].busy \/ f[j + 1].busy
        BY DEF Merged
      <4>1. CASE j = i - 1
        <5>1. i - 1 \in 1..N /\ i - 1 \in 1..i - 1
          BY <1>4, <1>5, <1>7, <4>1
        <5>. QED  BY <1>5, <2>2, <4>1, <5>1
      <4>2. CASE j # i - 1
        BY <1>5, <4>2 DEF MergedBut
      <4>. QED  BY <4>1, <4>2
    <3>. QED  BY <1>5, <2>2, <3>1, <3>2
  <2>. QED  BY <2>1, <2>2
<1>9. /\ Cardinality(merged_nodes(h, i)) \in Nat
      /\ Len(g) + Cardinality(merged_nodes(h, i)) = N
  <2>1. merged_nodes(h, i) = {j \in {i - 1, i + 1} : j \in 1..N /\ ~h[j].busy}
    BY <1>4 DEF merged_nodes
  <2>2. Len(g) = IF Prev1 THEN (IF Next1 THEN N - 2 ELSE N - 1) ELSE (IF Next1 THEN N - 1 ELSE N)
    BY <1>4, <1>6, <1>8
  <2>3. CASE ~Prev1 /\ ~Next1
    <3>1. merged_nodes(h, i) = {}
      BY <2>1, <2>3
    <3>2. Cardinality(merged_nodes(h, i)) = 0
      BY <3>1, FS_EmptySet
    <3>3. Len(g) = N
      BY <2>2, <2>3
    <3>. QED  BY <1>4, <3>2, <3>3
  <2>4. CASE Prev1 /\ ~Next1
    <3>1. PICK j : j = i - 1 /\ merged_nodes(h, i) = {j}
      BY <2>1, <2>4
    <3>2. Cardinality({j}) = 1
      BY FS_Singleton
    <3>3. Cardinality(merged_nodes(h, i)) = 1
      BY <3>1, <3>2
    <3>4. Len(g) = N - 1
      BY <2>2, <2>4
    <3>. QED  BY <1>4, <3>3, <3>4
  <2>5. CASE ~Prev1 /\ Next1
    <3>1. PICK j : j = i + 1 /\ merged_nodes(h, i) = {j}
      BY <2>1, <2>5
    <3>2. Cardinality({j}) = 1
      BY FS_Singleton
    <3>3. Cardinality(merged_nodes(h, i)) = 1
      BY <3>1, <3>2
    <3>4. Len(g) = N - 1
      BY <2>2, <2>5
    <3>. QED  BY <1>4, <3>3, <3>4
  <2>6. CASE Prev1 /\ Next1
    <3>1. PICK j, k : j = i - 1 /\ k = i + 1
      OBVIOUS
    <3>2. PICK S : S = merged_nodes(h, i)
      OBVIOUS
    <3>3. S = {j} \cup {k} /\ j # k
      BY <1>4, <2>1, <2>6, <3>1, <3>2
    <3>4. Cardinality(S) = 2
      BY <3>3, PairCardinality
    <3>5. Cardinality(merged_nodes(h, i)) = 2
      BY <3>2, <3>4
    <3>6. Len(g) = N - 2
      BY <2>2, <2>6
    <3>. QED  BY <1>4, <3>5, <3>6
  <2>. QED  BY <2>3, <2>4, <2>5, <2>6
<1>. QED  BY <1>1, <1>2, <1>3, <1>5, <1>8, <1>9

-----------------------------------------------------------------------------
(***************************************************************************)
(* The owners' side: a block more, a block less.                           *)
(***************************************************************************)
OwnedBlocks(f) == {f[o] : o \in DOMAIN f}

Distinct(f) == \A o, x \in DOMAIN f : o # x => f[o] # f[x]

LEMMA GivenIs ==
  ASSUME NEW f, NEW o, o \notin DOMAIN f, NEW b, b \notin OwnedBlocks(f), Distinct(f),
         NEW g, DOMAIN g = DOMAIN f \cup {o}, g[o] = b, \A x \in DOMAIN f : g[x] = f[x]
  PROVE  OwnedBlocks(g) = OwnedBlocks(f) \cup {b} /\ Distinct(g)
BY DEF OwnedBlocks, Distinct

LEMMA ReturnedIs ==
  ASSUME NEW f, NEW o \in DOMAIN f, Distinct(f),
         NEW g, DOMAIN g = DOMAIN f \ {o}, \A x \in DOMAIN f \ {o} : g[x] = f[x]
  PROVE  OwnedBlocks(g) = OwnedBlocks(f) \ {f[o]} /\ Distinct(g)
BY DEF OwnedBlocks, Distinct

-----------------------------------------------------------------------------
(***************************************************************************)
(* The inductive invariant.  HolesTile and FreeHolesMerged are about the   *)
(* list alone; that the busy holes and the owners' blocks are the same is  *)
(* what makes the hole that Kmem_free looks for exist and be its owner's,  *)
(* and the kernel's block, which stays, keeps the lowest hole busy.        *)
(***************************************************************************)
Inv ==
  /\ Tiles(holes) /\ Merged(holes)
  /\ slots \in Nat /\ Len(holes) + slots = NR_HOLE
  /\ DOMAIN owned \subseteq Owners \cup {KERNEL} /\ KERNEL \in DOMAIN owned
  /\ owned[KERNEL] = [base |-> memory_start, size |-> KernelSize]
  /\ BusyBlocks(holes) = OwnedBlocks(owned) /\ Distinct(owned)

LEMMA InitInv == Init => Inv
<1> SUFFICES ASSUME Init PROVE Inv
  OBVIOUS
<1>1. PICK e : e = [base |-> memory_start, size |-> ArenaEnd - memory_start, busy |-> FALSE]
  OBVIOUS
<1>2. PICK h : h = <<e>>
  OBVIOUS
<1>3. /\ ArenaEnd \in Nat /\ memory_start \in Nat /\ KernelSize \in Nat \ {0}
      /\ KernelSize < ArenaEnd - memory_start
  BY KmemAssumption DEF ArenaEnd
<1>4. e \in Hole /\ e.base = memory_start /\ e.size = ArenaEnd - memory_start /\ ~e.busy
  BY <1>1, <1>3 DEF Hole
<1>5. h \in Seq(Hole) /\ Len(h) = 1 /\ h[1] = e
  BY <1>2, <1>4
<1>6. Tiles(h)
  BY <1>3, <1>4, <1>5 DEF Tiles
<1>7. Merged(h) /\ BusyBlocks(h) = {}
  BY <1>4, <1>5 DEF Merged, BusyBlocks
<1>8. holes = Split(h, 1, KernelSize)
  BY <1>1, <1>2 DEF Init
<1>9. 1 \in 1..Len(h) /\ KernelSize < h[1].size /\ ~h[1].busy
  BY <1>3, <1>4, <1>5
<1>10. Tiles(holes)
  BY <1>3, <1>6, <1>8, <1>9, SplitTiles
<1>11. Merged(holes) /\ BusyBlocks(holes) = {[base |-> h[1].base, size |-> KernelSize]}
  BY <1>3, <1>6, <1>7, <1>8, <1>9, SplitBusy
<1>12. Len(holes) = 2
  <2>1. Len(holes) = Len(h) + 1
    BY <1>3, <1>6, <1>8, <1>9, SplitLen
  <2>. QED  BY <1>5, <2>1
<1>13. slots \in Nat /\ Len(holes) + slots = NR_HOLE
  <2>1. slots = NR_HOLE - 2
    BY DEF Init
  <2>. QED  BY <1>12, <2>1, KmemAssumption
<1>14. DOMAIN owned = {KERNEL} /\ owned[KERNEL] = [base |-> memory_start, size |-> KernelSize]
  BY DEF Init, KernelBlock
<1>15. OwnedBlocks(owned) = {[base |-> memory_start, size |-> KernelSize]} /\ Distinct(owned)
  BY <1>14 DEF OwnedBlocks, Distinct
<1>. QED  BY <1>4, <1>5, <1>10, <1>11, <1>13, <1>14, <1>15 DEF Inv

(***************************************************************************)
(* A free hole shares no byte with a block of an owner, and the block of   *)
(* an owner is one hole, the only one Kmem_free finds.                     *)
(***************************************************************************)
LEMMA FreshBlock ==
  ASSUME Inv, NEW i \in 1..Len(holes), ~holes[i].busy, NEW n \in Nat \ {0}, n <= holes[i].size,
         NEW b, b = [base |-> holes[i].base, size |-> n]
  PROVE  /\ \A x \in DOMAIN owned : A!Disjoint(b, owned[x])
         /\ b \notin OwnedBlocks(owned)
         /\ holes[i].base \in memory_start..ArenaEnd - n
<1>1. Tiles(holes) /\ BusyBlocks(holes) = OwnedBlocks(owned)
  BY DEF Inv
<1>2. /\ holes[i].base \in Nat /\ holes[i].size \in Nat
      /\ memory_start <= holes[i].base /\ holes[i].base + holes[i].size <= ArenaEnd
      /\ memory_start \in Nat /\ ArenaEnd \in Nat
  BY <1>1, TilesFacts
<1>3. b.base = holes[i].base /\ b.size = n
  OBVIOUS
<1>4. ASSUME NEW x \in OwnedBlocks(owned) PROVE A!Disjoint(b, x) /\ b # x
  <2>1. PICK k \in 1..Len(holes) : holes[k].busy /\ x = Block(holes[k])
    BY <1>1 DEF BusyBlocks
  <2>2. x.base = holes[k].base /\ x.size = holes[k].size
    BY <2>1 DEF Block
  <2>3. holes[k].base \in Nat /\ holes[k].size \in Nat
    BY <1>1, TilesFacts
  <2>4. Len(holes) \in Nat /\ i # k
    BY <1>1, <2>1, TilesFacts
  <2>5. \A l, m \in 1..Len(holes) : l < m => holes[l].base + holes[l].size <= holes[m].base
    BY <1>1 DEF Tiles
  <2>6. (i < k /\ holes[i].base + holes[i].size <= holes[k].base)
          \/ (k < i /\ holes[k].base + holes[k].size <= holes[i].base)
    BY <2>4, <2>5
  <2>7. b.base + b.size <= x.base \/ x.base + x.size <= b.base
    <3>1. PICK p, q \in Nat : p = holes[i].base /\ q = holes[i].size
      BY <1>2
    <3>2. PICK r, s \in Nat : r = holes[k].base /\ s = holes[k].size
      BY <2>3
    <3>3. /\ holes[i].base + holes[i].size = p + q /\ n <= q
          /\ holes[k].base + holes[k].size = r + s
      BY <3>1, <3>2
    <3>4. p + n <= r \/ r + s <= p
      <4>1. p + q <= r \/ r + s <= p
        BY <2>6, <3>1, <3>2, <3>3, Zenon
      <4>. QED  BY <3>3, <4>1
    <3>5. b.base = p /\ b.size = n /\ x.base = r /\ x.size = s
      BY <1>3, <2>2, <3>1, <3>2
    <3>. QED  BY <3>4, <3>5
  <2>8. b.base # x.base
    BY <1>1, <1>3, <2>2, <2>4, TilesFacts
  <2>. QED  BY <2>7, <2>8 DEF A!Disjoint
<1>5. \A x \in DOMAIN owned : owned[x] \in OwnedBlocks(owned)
  BY DEF OwnedBlocks
<1>6. holes[i].base \in memory_start..ArenaEnd - n
  BY <1>2
<1>. QED  BY <1>4, <1>5, <1>6

LEMMA OwnHole ==
  ASSUME Inv, NEW o \in DOMAIN owned
  PROVE  \E i \in 1..Len(holes) :
           /\ holes[i].busy /\ Block(holes[i]) = owned[o]
           /\ {j \in DOMAIN holes : holes[j].base = owned[o].base /\ holes[j].busy} = {i}
           /\ Min({i}) = i
<1>1. Tiles(holes) /\ BusyBlocks(holes) = OwnedBlocks(owned)
  BY DEF Inv
<1>2. owned[o] \in BusyBlocks(holes)
  BY <1>1 DEF OwnedBlocks
<1>3. PICK i \in 1..Len(holes) : holes[i].busy /\ Block(holes[i]) = owned[o]
  BY <1>2 DEF BusyBlocks
<1>4. owned[o].base = holes[i].base
  BY <1>3 DEF Block
<1>5. \A j \in 1..Len(holes) : holes[j].base = holes[i].base => j = i
  BY <1>1, TilesFacts
<1>6. DOMAIN holes = 1..Len(holes)
  <2>1. holes \in Seq(Hole)
    BY <1>1, TilesFacts
  <2>. QED  BY <2>1, LenProperties
<1>7. {j \in DOMAIN holes : holes[j].base = owned[o].base /\ holes[j].busy} = {i}
  BY <1>3, <1>4, <1>5, <1>6
<1>8. Min({i}) = i
  <2>1. i \in Nat
    OBVIOUS
  <2>2. Min({i}) \in {i}
    BY <2>1, MinIsLeast
  <2>. QED  BY <2>2
<1>. QED  BY <1>3, <1>7, <1>8

LEMMA FitIs ==
  ASSUME Inv, NEW n, Fitting(holes, n) # {}
  PROVE  LET i == Min(Fitting(holes, n))
         IN  i \in 1..Len(holes) /\ ~holes[i].busy /\ holes[i].size >= n
<1>1. DOMAIN holes = 1..Len(holes)
  <2>1. holes \in Seq(Hole)
    BY TilesFacts DEF Inv
  <2>. QED  BY <2>1, LenProperties
<1>2. Fitting(holes, n) \in SUBSET Nat
  BY <1>1 DEF Fitting
<1>3. Min(Fitting(holes, n)) \in Fitting(holes, n)
  BY <1>2, MinIsLeast
<1>. QED  BY <1>1, <1>3 DEF Fitting

-----------------------------------------------------------------------------
(***************************************************************************)
(* The two routines, with what Arena sees of each.                         *)
(***************************************************************************)
LEMMA OwnIs ==
  ASSUME NEW o, o \notin DOMAIN owned, NEW b, b \notin OwnedBlocks(owned), Distinct(owned),
         owned' = Own(o, b)
  PROVE  /\ DOMAIN owned' = DOMAIN owned \cup {o} /\ \A x \in DOMAIN owned : owned'[x] = owned[x]
         /\ OwnedBlocks(owned') = OwnedBlocks(owned) \cup {b} /\ Distinct(owned')
<1>1. /\ DOMAIN owned' = DOMAIN owned \cup {o} /\ owned'[o] = b
      /\ \A x \in DOMAIN owned : owned'[x] = owned[x]
  BY DEF Own
<1>. QED  BY <1>1, GivenIs

LEMMA AllocSplit ==
  ASSUME Inv, NEW o \in Owners \ DOMAIN owned, NEW n \in Nat \ {0},
         NEW i \in 1..Len(holes), ~holes[i].busy, holes[i].size > n, slots > 0,
         holes' = Split(holes, i, n), slots' = slots - 1,
         owned' = Own(o, [base |-> holes[i].base, size |-> n])
  PROVE  Inv' /\ A!Give(o, n)
<1>1. PICK b : b = [base |-> holes[i].base, size |-> n]
  OBVIOUS
<1>2. /\ Tiles(holes) /\ Merged(holes) /\ slots \in Nat /\ Len(holes) + slots = NR_HOLE
      /\ DOMAIN owned \subseteq Owners \cup {KERNEL} /\ KERNEL \in DOMAIN owned
      /\ BusyBlocks(holes) = OwnedBlocks(owned) /\ Distinct(owned)
      /\ owned[KERNEL] = [base |-> memory_start, size |-> KernelSize]
  BY DEF Inv
<1>3. holes[i].size \in Nat /\ n <= holes[i].size /\ n < holes[i].size
  BY <1>2, TilesFacts
<1>4. owned' = Own(o, b)
  BY <1>1
<1>5. /\ \A x \in DOMAIN owned : A!Disjoint(b, owned[x])
      /\ b \notin OwnedBlocks(owned)
      /\ holes[i].base \in memory_start..ArenaEnd - n
  BY <1>1, <1>3, FreshBlock
<1>6. /\ DOMAIN owned' = DOMAIN owned \cup {o} /\ \A x \in DOMAIN owned : owned'[x] = owned[x]
      /\ OwnedBlocks(owned') = OwnedBlocks(owned) \cup {b} /\ Distinct(owned')
  BY <1>2, <1>4, <1>5, OwnIs
<1>7. Tiles(holes')
  BY <1>2, <1>3, SplitTiles
<1>8. Merged(holes') /\ BusyBlocks(holes') = BusyBlocks(holes) \cup {b}
  BY <1>1, <1>2, <1>3, SplitBusy
<1>9. slots' \in Nat /\ Len(holes') + slots' = NR_HOLE
  <2>1. Len(holes') = Len(holes) + 1
    BY <1>2, <1>3, SplitLen
  <2>2. Len(holes) \in Nat
    BY <1>2, TilesFacts
  <2>. QED  BY <1>2, <2>1, <2>2
<1>10. Inv'
  BY <1>2, <1>6, <1>7, <1>8, <1>9 DEF Inv
<1>11. A!Give(o, n)
  BY <1>1, <1>5 DEF A!Give, A!Holding, Own
<1>. QED  BY <1>10, <1>11

LEMMA AllocWhole ==
  ASSUME Inv, NEW o \in Owners \ DOMAIN owned, NEW n \in Nat \ {0},
         NEW i \in 1..Len(holes), ~holes[i].busy, holes[i].size = n,
         holes' = [holes EXCEPT ![i].busy = TRUE], slots' = slots,
         owned' = Own(o, Block(holes[i]))
  PROVE  Inv' /\ A!Give(o, n)
<1>1. PICK b : b = [base |-> holes[i].base, size |-> n]
  OBVIOUS
<1>2. /\ Tiles(holes) /\ Merged(holes) /\ slots \in Nat /\ Len(holes) + slots = NR_HOLE
      /\ DOMAIN owned \subseteq Owners \cup {KERNEL} /\ KERNEL \in DOMAIN owned
      /\ BusyBlocks(holes) = OwnedBlocks(owned) /\ Distinct(owned)
      /\ owned[KERNEL] = [base |-> memory_start, size |-> KernelSize]
  BY DEF Inv
<1>3. Block(holes[i]) = b /\ n <= holes[i].size
  BY <1>1 DEF Block
<1>4. owned' = Own(o, b)
  BY <1>3
<1>5. /\ \A x \in DOMAIN owned : A!Disjoint(b, owned[x])
      /\ b \notin OwnedBlocks(owned)
      /\ holes[i].base \in memory_start..ArenaEnd - n
  BY <1>1, <1>3, FreshBlock
<1>6. /\ DOMAIN owned' = DOMAIN owned \cup {o} /\ \A x \in DOMAIN owned : owned'[x] = owned[x]
      /\ OwnedBlocks(owned') = OwnedBlocks(owned) \cup {b} /\ Distinct(owned')
  BY <1>2, <1>4, <1>5, OwnIs
<1>7. holes' = SetBusy(holes, i, TRUE)
  BY DEF SetBusy
<1>8. Tiles(holes') /\ Len(holes') = Len(holes)
  BY <1>2, <1>7, TakenIs
<1>9. BusyBlocks(holes') = BusyBlocks(holes) \cup {b}
  BY <1>2, <1>3, <1>7, StatusBusy
<1>10. Merged(holes')
  <2>1. \A j \in 1..Len(holes) : holes[j].busy => holes'[j].busy
    BY <1>2, <1>7, TakenIs
  <2>2. Len(holes) \in Nat
    BY <1>2, TilesFacts
  <2>3. \A j \in 1..Len(holes) - 1 : j \in 1..Len(holes) /\ j + 1 \in 1..Len(holes)
    BY <2>2
  <2>4. \A j \in 1..Len(holes) - 1 : holes[j].busy \/ holes[j + 1].busy
    BY <1>2 DEF Merged
  <2>5. \A j \in 1..Len(holes) - 1 : holes'[j].busy \/ holes'[j + 1].busy
    BY <2>1, <2>3, <2>4
  <2>. QED  BY <1>8, <2>5 DEF Merged
<1>11. Inv'
  BY <1>2, <1>6, <1>8, <1>9, <1>10 DEF Inv
<1>12. A!Give(o, n)
  BY <1>1, <1>3, <1>5 DEF A!Give, A!Holding, Own
<1>. QED  BY <1>11, <1>12

LEMMA FreeStep ==
  ASSUME Inv, NEW o \in Owners \cap DOMAIN owned, Kmem_free(o)
  PROVE  Inv' /\ A!Return(o)
<1>1. /\ Tiles(holes) /\ Merged(holes) /\ slots \in Nat /\ Len(holes) + slots = NR_HOLE
      /\ DOMAIN owned \subseteq Owners \cup {KERNEL} /\ KERNEL \in DOMAIN owned
      /\ BusyBlocks(holes) = OwnedBlocks(owned) /\ Distinct(owned)
      /\ owned[KERNEL] = [base |-> memory_start, size |-> KernelSize]
  BY DEF Inv
<1> DEFINE found == {j \in DOMAIN holes : holes[j].base = owned[o].base /\ holes[j].busy}
<1>2. PICK i \in 1..Len(holes) :
        holes[i].busy /\ Block(holes[i]) = owned[o] /\ found = {i} /\ Min({i}) = i
  BY OwnHole
<1>3. found # {} /\ Min(found) = i
  BY <1>2
<1>4. /\ holes' = MergePrev(MergeNext([holes EXCEPT ![i].busy = FALSE], i), i)
      /\ slots' = slots + Cardinality(merged_nodes(holes, i))
      /\ owned' = [x \in DOMAIN owned \ {o} |-> owned[x]]
  BY <1>3 DEF Kmem_free
<1>5. holes' = MergePrev(MergeNext(SetBusy(holes, i, FALSE), i), i)
  BY <1>4 DEF SetBusy
<1>6. Tiles(holes') /\ Merged(holes') /\ BusyBlocks(holes') = BusyBlocks(holes) \ {owned[o]}
  <2>1. Tiles(holes') /\ Merged(holes')
    BY <1>1, <1>2, <1>5, FreeIs
  <2>2. BusyBlocks(holes') = BusyBlocks(holes) \ {Block(holes[i])}
    BY <1>1, <1>2, <1>5, FreeIs
  <2>. QED  BY <1>2, <2>1, <2>2
<1>7. slots' \in Nat /\ Len(holes') + slots' = NR_HOLE
  <2>1. /\ Cardinality(merged_nodes(holes, i)) \in Nat
        /\ Len(holes') + Cardinality(merged_nodes(holes, i)) = Len(holes)
    BY <1>1, <1>2, <1>5, FreeIs
  <2>2. Len(holes') \in Nat /\ Len(holes) \in Nat
    BY <1>1, <1>6, TilesFacts
  <2>. QED  BY <1>1, <1>4, <2>1, <2>2
<1>8. DOMAIN owned' = DOMAIN owned \ {o} /\ \A x \in DOMAIN owned \ {o} : owned'[x] = owned[x]
  BY <1>4
<1>9. OwnedBlocks(owned') = OwnedBlocks(owned) \ {owned[o]} /\ Distinct(owned')
  BY <1>1, <1>8, ReturnedIs
<1>10. o # KERNEL
  BY KmemAssumption
<1>11. Inv'
  BY <1>1, <1>6, <1>7, <1>8, <1>9, <1>10 DEF Inv
<1>. QED  BY <1>4, <1>11 DEF A!Return

(***************************************************************************)
(* Every step keeps the invariant and is a step of Arena or leaves the     *)
(* blocks as they are: a call that fails changes nothing.                  *)
(***************************************************************************)
LEMMA NextInv ==
  ASSUME Inv, [Next]_vars
  PROVE  Inv' /\ [A!Next]_owned
<1>1. ASSUME UNCHANGED vars PROVE Inv' /\ UNCHANGED owned
  BY <1>1 DEF Inv, vars
<1>2. ASSUME NEW o \in Owners \ DOMAIN owned, NEW n \in Sizes, Kmem_alloc(o, n)
      PROVE  Inv' /\ [A!Next]_owned
  <2>1. CASE UNCHANGED vars
    BY <1>1, <2>1
  <2>2. CASE ~UNCHANGED vars
    <3>1. n > 0 /\ Fitting(holes, n) # {}
      BY <1>2, <2>2 DEF Kmem_alloc
    <3>2. PICK i : i = Min(Fitting(holes, n))
      OBVIOUS
    <3>3. i \in 1..Len(holes) /\ ~holes[i].busy
      BY <3>1, <3>2, FitIs
    <3>4. n \in Nat \ {0}
      BY <3>1, KmemAssumption
    <3>5. \/ /\ holes[i].size > n /\ slots > 0
             /\ holes' = Split(holes, i, n) /\ slots' = slots - 1
             /\ owned' = Own(o, [base |-> holes[i].base, size |-> n])
          \/ /\ holes[i].size = n
             /\ holes' = [holes EXCEPT ![i].busy = TRUE] /\ slots' = slots
             /\ owned' = Own(o, Block(holes[i]))
      BY <1>2, <2>2, <3>1, <3>2 DEF Kmem_alloc, must_split
    <3>6. Inv' /\ A!Give(o, n)
      BY <3>3, <3>4, <3>5, AllocSplit, AllocWhole
    <3>. QED  BY <3>6 DEF A!Next
  <2>. QED  BY <2>1, <2>2
<1>3. ASSUME NEW o \in Owners \cap DOMAIN owned, Kmem_free(o)
      PROVE  Inv' /\ [A!Next]_owned
  <2>1. Inv' /\ A!Return(o)
    BY <1>3, FreeStep
  <2>2. o \in DOMAIN owned \ DOMAIN KernelBlock
    BY KmemAssumption DEF KernelBlock
  <2>. QED  BY <2>1, <2>2 DEF A!Next
<1>. QED  BY <1>1, <1>2, <1>3 DEF Next

THEOREM InvHolds == Spec => []Inv
<1>1. Inv /\ [Next]_vars => Inv'
  BY NextInv
<1>. QED  BY <1>1, InitInv, PTL DEF Spec

-----------------------------------------------------------------------------
(***************************************************************************)
(* Every node has its type and alloc_slot never runs below zero nodes, for *)
(* every memory, pool and pattern of calls.                                *)
(***************************************************************************)
THEOREM TypeOKHolds == Spec => []TypeOK
<1>1. ASSUME Inv PROVE TypeOK
  <2> DEFINE T == [base : memory_start..ArenaEnd, size : 1..ArenaEnd, busy : BOOLEAN]
  <2>1. Tiles(holes) /\ slots \in Nat /\ Len(holes) + slots = NR_HOLE
    BY <1>1 DEF Inv
  <2>2. Len(holes) \in Nat /\ holes \in Seq(Hole) /\ memory_start \in Nat /\ ArenaEnd \in Nat
    BY <2>1, TilesFacts
  <2>3. ASSUME NEW i \in 1..Len(holes) PROVE holes[i] \in T
    <3>1. /\ holes[i] \in Hole /\ holes[i].base \in Nat /\ holes[i].size \in Nat
          /\ holes[i].busy \in BOOLEAN /\ holes[i].size >= 1
          /\ memory_start <= holes[i].base /\ holes[i].base + holes[i].size <= ArenaEnd
      BY <2>1, TilesFacts
    <3>2. holes[i].base \in memory_start..ArenaEnd /\ holes[i].size \in 1..ArenaEnd
      BY <2>2, <3>1
    <3>3. holes[i] = [base |-> holes[i].base, size |-> holes[i].size, busy |-> holes[i].busy]
      BY <3>1 DEF Hole
    <3>. QED  BY <3>1, <3>2, <3>3
  <2> HIDE DEF T
  <2>4. holes \in Seq(T)
    BY <2>2, <2>3
  <2>5. slots \in 0..NR_HOLE
    BY <2>1, <2>2, KmemAssumption
  <2>. QED  BY <2>4, <2>5 DEF TypeOK, T
<1>. QED  BY <1>1, InvHolds, PTL

(***************************************************************************)
(* No split or merge loses or doubles a byte: the list tiles the memory.   *)
(***************************************************************************)
THEOREM HolesTileHolds == Spec => []HolesTile
<1>1. ASSUME Inv PROVE HolesTile
  <2>1. Tiles(holes)
    BY <1>1 DEF Inv
  <2>2. holes # <<>>
    BY <2>1, EmptySeq DEF Tiles
  <2>. QED  BY <2>1, <2>2 DEF Tiles, HolesTile
<1>. QED  BY <1>1, InvHolds, PTL

(***************************************************************************)
(* The merges of Kmem_free leave no two free neighbours.                   *)
(***************************************************************************)
THEOREM FreeHolesMergedHolds == Spec => []FreeHolesMerged
<1>1. Inv => FreeHolesMerged
  BY DEF Inv, Merged, FreeHolesMerged
<1>. QED  BY <1>1, InvHolds, PTL

(***************************************************************************)
(* No node of mem_hole is lost to both lists or on both.                   *)
(***************************************************************************)
THEOREM SlotsConservedHolds == Spec => []SlotsConserved
<1>1. Inv => SlotsConserved
  BY DEF Inv, SlotsConserved
<1>. QED  BY <1>1, InvHolds, PTL

Busy == {i \in DOMAIN holes : holes[i].busy}

LEMMA BusyCount ==
  ASSUME Inv
  PROVE  /\ IsFiniteSet(Busy) /\ Busy \subseteq 1..Len(holes) /\ DOMAIN holes = 1..Len(holes)
         /\ Cardinality(Busy) = Cardinality(DOMAIN owned)
<1>1. Tiles(holes) /\ BusyBlocks(holes) = OwnedBlocks(owned) /\ Distinct(owned)
  BY DEF Inv
<1>2. Len(holes) \in Nat /\ \A i, j \in 1..Len(holes) : holes[i].base = holes[j].base => i = j
  BY <1>1, TilesFacts
<1>3. DOMAIN holes = 1..Len(holes)
  <2>1. holes \in Seq(Hole)
    BY <1>1, TilesFacts
  <2>. QED  BY <2>1, LenProperties
<1>4. Busy = {i \in 1..Len(holes) : holes[i].busy}
  BY <1>3 DEF Busy
<1>5. IsFiniteSet(Busy)
  <2>1. IsFiniteSet(1..Len(holes))
    BY <1>2, FS_Interval
  <2>2. Busy \in SUBSET (1..Len(holes))
    BY <1>4
  <2>. QED  BY <2>1, <2>2, FS_Subset
<1> DEFINE f == [i \in Busy |-> CHOOSE o \in DOMAIN owned : owned[o] = Block(holes[i])]
<1>6. ASSUME NEW i \in Busy PROVE f[i] \in DOMAIN owned /\ owned[f[i]] = Block(holes[i])
  <2>1. Block(holes[i]) \in OwnedBlocks(owned)
    BY <1>1, <1>4 DEF BusyBlocks
  <2>2. \E o \in DOMAIN owned : owned[o] = Block(holes[i])
    BY <2>1 DEF OwnedBlocks
  <2>. QED  BY <2>2
<1>7. f \in [Busy -> DOMAIN owned]
  BY <1>6
<1> HIDE DEF f
<1>8. ASSUME NEW i \in Busy, NEW j \in Busy, f[i] = f[j] PROVE i = j
  <2>1. Block(holes[i]) = Block(holes[j])
    BY <1>6, <1>8
  <2>2. holes[i].base = holes[j].base
    BY <2>1 DEF Block
  <2>. QED  BY <1>2, <1>4, <2>2
<1>9. ASSUME NEW o \in DOMAIN owned PROVE \E i \in Busy : f[i] = o
  <2>1. owned[o] \in BusyBlocks(holes)
    BY <1>1 DEF OwnedBlocks
  <2>2. PICK i \in Busy : owned[o] = Block(holes[i])
    BY <1>4, <2>1 DEF BusyBlocks
  <2>. QED  BY <1>1, <1>6, <2>2 DEF Distinct
<1>10. f \in Bijection(Busy, DOMAIN owned)
  BY <1>7, <1>8, <1>9 DEF Bijection, Injection, IsInjective, Surjection
<1>. QED  BY <1>3, <1>4, <1>5, <1>10, FS_Bijection DEF ExistsBijection

(***************************************************************************)
(* The busy holes are the owners' blocks, one for each: Kmem_free always   *)
(* finds the hole it is asked for and never another owner's.               *)
(***************************************************************************)
THEOREM BusyIsOwnedHolds == Spec => []BusyIsOwned
<1>1. ASSUME Inv PROVE BusyIsOwned
  <2>1. BusyBlocks(holes) = {Block(holes[i]) : i \in Busy}
    BY BusyCount, <1>1 DEF BusyBlocks, Busy
  <2>2. BusyBlocks(holes) = {owned[o] : o \in DOMAIN owned}
    BY <1>1 DEF Inv, OwnedBlocks
  <2>. QED  BY <1>1, <2>1, <2>2, BusyCount DEF BusyIsOwned, Busy
<1>. QED  BY <1>1, InvHolds, PTL

(***************************************************************************)
(* With k blocks out the list has at most 2k nodes: each free hole follows *)
(* a busy one of its own.  So no pattern of calls exhausts a pool of two   *)
(* nodes for each block that can be out.                                   *)
(***************************************************************************)
THEOREM NodesBoundedHolds == Spec => []NodesBounded
<1>1. ASSUME Inv PROVE NodesBounded
  <2>1. Tiles(holes) /\ Merged(holes)
    BY <1>1 DEF Inv
  <2>2. Len(holes) \in Nat /\ Len(holes) >= 1
    BY <2>1, TilesFacts
  <2>3. /\ IsFiniteSet(Busy) /\ Busy \subseteq 1..Len(holes) /\ DOMAIN holes = 1..Len(holes)
        /\ Cardinality(Busy) = Cardinality(DOMAIN owned)
    BY <1>1, BusyCount
  <2>4. holes[1].busy
    <3>1. owned[KERNEL].base = memory_start /\ KERNEL \in DOMAIN owned
      BY <1>1 DEF Inv
    <3>2. PICK i \in 1..Len(holes) : holes[i].busy /\ Block(holes[i]) = owned[KERNEL]
      BY <1>1, <3>1, OwnHole
    <3>3. holes[i].base = holes[1].base
      BY <2>1, <3>1, <3>2 DEF Block, Tiles
    <3>4. 1 \in 1..Len(holes)
      BY <2>2
    <3>. QED  BY <2>1, <3>2, <3>3, <3>4, TilesFacts
  <2> DEFINE Free == (1..Len(holes)) \ Busy
             f == [i \in Free |-> i - 1]
  <2>5. ASSUME NEW i \in Free PROVE i - 1 \in Busy /\ i \in Int
    <3>1. i \in 1..Len(holes) /\ ~holes[i].busy
      BY <2>3 DEF Busy
    <3>2. i - 1 \in 1..Len(holes) - 1 /\ (i - 1) + 1 = i /\ i - 1 \in 1..Len(holes)
      BY <2>2, <2>4, <3>1
    <3>3. holes[i - 1].busy
      BY <2>1, <3>1, <3>2 DEF Merged
    <3>. QED  BY <2>3, <3>2, <3>3 DEF Busy
  <2>6. f \in Injection(Free, Busy)
    <3>1. f \in [Free -> Busy]
      BY <2>5
    <3>2. \A i, j \in Free : f[i] = f[j] => i = j
      BY <2>5
    <3>. QED  BY <3>1, <3>2 DEF Injection, IsInjective
  <2>7. Cardinality(Free) <= Cardinality(Busy)
    BY <2>3, <2>6, FS_Injection
  <2>8. IsFiniteSet(1..Len(holes)) /\ Cardinality(1..Len(holes)) = Len(holes)
    BY <2>2, FS_Interval
  <2>9. Cardinality(Free) = Len(holes) - Cardinality(Busy)
    <3>1. PICK N : N = 1..Len(holes)
      OBVIOUS
    <3>2. Busy \subseteq N
      BY <2>3, <3>1
    <3>3. N \cap Busy = Busy
      BY <3>2
    <3>4. IsFiniteSet(N) /\ Cardinality(N) = Len(holes)
      BY <2>8, <3>1
    <3>5. Cardinality(N \ Busy) = Cardinality(N) - Cardinality(N \cap Busy)
      BY <3>4, FS_Difference
    <3>. QED  BY <3>1, <3>3, <3>4, <3>5
  <2>10. Cardinality(Busy) \in Nat
    BY <2>3, FS_CardinalityType
  <2> HIDE DEF Free
  <2>11. Len(holes) <= 2 * Cardinality(Busy)
    BY <2>2, <2>7, <2>9, <2>10
  <2>. QED  BY <2>3, <2>11 DEF NodesBounded
<1>. QED  BY <1>1, InvHolds, PTL

(***************************************************************************)
(* Kmem implements Arena: whatever the sizes and the order of the calls, a *)
(* block is cut from memory that no other owner has, and stays its owner's *)
(* until Kmem_free.                                                        *)
(***************************************************************************)
THEOREM ImplementsArenaHolds == Spec => ImplementsArena
<1>1. Init => A!Init
  BY DEF Init, A!Init
<1>2. Inv /\ [Next]_vars => [A!Next]_owned
  BY NextInv
<1>. QED  BY <1>1, <1>2, InvHolds, PTL DEF Spec, A!Spec, ImplementsArena
=============================================================================
