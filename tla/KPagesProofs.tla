---------------------------- MODULE KPagesProofs ----------------------------
(***************************************************************************)
(* The memory of the kernel, for a table of any number of pages of any     *)
(* size and any set of callers, as long as no block is larger than a page. *)
(* The hypothesis is the one the code needs: the run kpages_overlap shows  *)
(* kmalloc giving out a page twice without it.                             *)
(***************************************************************************)
EXTENDS KPages, FiniteSetTheorems, TLAPS

OnePage == Sizes \subseteq 1..PAGE_SIZE

-----------------------------------------------------------------------------
(***************************************************************************)
(* The two ends of a set of pages.                                         *)
(***************************************************************************)
LEMMA LeastIs ==
  ASSUME NEW S \in SUBSET Nat, S # {}
  PROVE  Min(S) \in S /\ \A m \in S : Min(S) <= m
<1> DEFINE less == {ss \in Nat \X Nat : ss[1] < ss[2]}
<1>1. IsWellFoundedOn(less, Nat)
  BY NatLessThanWellFounded DEF OpToRel
<1>2. PICK n \in S : \A m \in S : ~(<<m, n>> \in less)
  BY <1>1, WFMin
<1>3. ASSUME NEW m \in S PROVE n <= m
  <2>1. <<m, n>> \in Nat \X Nat /\ <<m, n>>[1] = m /\ <<m, n>>[2] = n /\ <<m, n>> \notin less
    BY <1>2
  <2>2. ~(m < n)
    BY <2>1
  <2>. QED  BY <2>2
<1>. QED  BY <1>3 DEF Min

LEMMA GreatestIs ==
  ASSUME NEW n \in Nat, NEW S \in SUBSET (0..n), S # {}
  PROVE  Max(S) \in S /\ \A m \in S : m <= Max(S)
<1> DEFINE R == {n - m : m \in S}
<1>1. R \in SUBSET Nat /\ R # {}
  <2>1. \A m \in S : n - m \in Nat
    OBVIOUS
  <2>. QED  BY <2>1
<1>2. PICK l \in S : Min(R) = n - l /\ \A m \in S : n - l <= n - m
  <2> HIDE DEF R
  <2>1. Min(R) \in R /\ \A r \in R : Min(R) <= r
    BY <1>1, LeastIs
  <2>. QED  BY <2>1 DEF R
<1>3. \A m \in S : m <= l
  <2> TAKE m \in S
  <2>1. n - l <= n - m /\ l \in Int /\ m \in Int
    BY <1>2
  <2>. QED  BY <2>1
<1>. QED  BY <1>3 DEF Max

LEMMA OnePageCount ==
  ASSUME OnePage, NEW size \in Sizes
  PROVE  size \in Nat /\ size >= 1 /\ calc_count(size) = 1
<1>1. size \in Nat /\ 1 <= size /\ size <= PAGE_SIZE /\ PAGE_SIZE \in Nat /\ PAGE_SIZE > 0
  BY KPagesAssumption DEF OnePage
<1>2. CASE size = PAGE_SIZE
  <2>1. size \div PAGE_SIZE = 1 /\ size % PAGE_SIZE = 0
    BY <1>1, <1>2
  <2>. QED  BY <1>1, <2>1 DEF calc_count
<1>3. CASE size < PAGE_SIZE
  <2>1. size \div PAGE_SIZE = 0 /\ size % PAGE_SIZE = size
    BY <1>1, <1>3
  <2>. QED  BY <1>1, <2>1 DEF calc_count
<1>. QED  BY <1>1, <1>2, <1>3

-----------------------------------------------------------------------------
(***************************************************************************)
(* The inductive invariant: TableDescribesPages for blocks of one page,    *)
(* with no two blocks on the same page.                                    *)
(***************************************************************************)
Bases == {held[o].base : o \in DOMAIN held}

Inv ==
  /\ TypeOK
  /\ \A o, x \in DOMAIN held : o # x => held[o].base # held[x].base
  /\ \A o \in DOMAIN held : kmem_page[held[o].base] = held[o].size
  /\ \A i \in (0..NR_PAGES-1) \ Bases :
       kmem_page[i] = IF i = 0 \/ i-1 \in Bases THEN PAGE_S_FREE ELSE PAGE_S_CONT

LEMMA Words ==
  ASSUME OnePage, TypeOK
  PROVE  /\ NR_PAGES \in Nat /\ NR_PAGES >= 1 /\ Beyond = NR_PAGES
         /\ PAGE_S_FREE = 0 /\ PAGE_S_CONT = -1
         /\ kmem_page[NR_PAGES] # 0 /\ kmem_page[NR_PAGES] # -1
         /\ DOMAIN kmem_page = 0..NR_PAGES
         /\ \A o \in DOMAIN held : /\ held[o].base \in 0..NR_PAGES-1 /\ held[o].size \in Sizes
                                   /\ held[o].size # 0 /\ held[o].size # -1
         /\ Bases \subseteq 0..NR_PAGES-1
<1>1. NR_PAGES \in Nat /\ NR_PAGES >= 1 /\ PAGE_SIZE \in Nat
  BY KPagesAssumption
<1>2. NR_PAGES * PAGE_SIZE \in Nat
  BY <1>1
<1>3. ForeignWord # 0 /\ ForeignWord # -1
  BY <1>2 DEF ForeignWord
<1>4. \A o \in DOMAIN held : held[o].base \in 0..NR_PAGES-1 /\ held[o].size \in Sizes
  BY DEF TypeOK
<1>5. \A size \in Sizes : size # 0 /\ size # -1
  BY OnePageCount
<1>6. DOMAIN kmem_page = 0..NR_PAGES
  BY DEF TypeOK, Beyond
<1>. QED  BY <1>1, <1>3, <1>4, <1>5, <1>6 DEF TypeOK, Beyond, PAGE_S_FREE, PAGE_S_CONT, Bases

(***************************************************************************)
(* With one page to find, the scan stops at the first free head, if there  *)
(* is one.                                                                 *)
(***************************************************************************)
LEMMA ScanIs ==
  ASSUME OnePage, TypeOK
  PROVE  /\ ScanEnds(1) # {} =>
              LET j == Min(ScanEnds(1))
              IN  /\ j \in 0..NR_PAGES-1 /\ kmem_page[j] = 0 /\ free_h(j) = j
         /\ \A i \in 0..NR_PAGES-1 : kmem_page[i] = 0 => i \in ScanEnds(1)
<1>1. /\ NR_PAGES \in Nat /\ NR_PAGES >= 1 /\ Beyond = NR_PAGES
      /\ PAGE_S_FREE = 0 /\ PAGE_S_CONT = -1 /\ kmem_page[NR_PAGES] # 0
  BY Words
<1>2. \A i \in 0..NR_PAGES : FreeHeads(i) = {j \in 0..i : kmem_page[j] = 0}
  BY <1>1 DEF FreeHeads
<1>3. ASSUME NEW i \in 0..NR_PAGES, kmem_page[i] = 0 PROVE i \in ScanEnds(1) /\ free_h(i) = i
  <2>1. i \in FreeHeads(i) /\ FreeHeads(i) \subseteq 0..i
    BY <1>2, <1>3
  <2>2. Max(FreeHeads(i)) \in FreeHeads(i) /\ i <= Max(FreeHeads(i))
    <3>1. i \in Nat /\ FreeHeads(i) \in SUBSET (0..i) /\ FreeHeads(i) # {}
      BY <2>1
    <3>. QED  BY <2>1, <3>1, GreatestIs
  <2>3. free_h(i) = i
    BY <2>1, <2>2 DEF free_h
  <2>4. {j \in free_h(i) + 1 .. i : kmem_page[j] = PAGE_S_CONT} = {}
    BY <2>3
  <2>5. tmp_c(i) = 1
    BY <2>1, <2>4, FS_EmptySet DEF tmp_c
  <2>. QED  BY <1>1, <2>3, <2>5 DEF ScanEnds
<1>4. ASSUME ScanEnds(1) # {}
      PROVE  LET j == Min(ScanEnds(1))
             IN  j \in 0..NR_PAGES-1 /\ kmem_page[j] = 0 /\ free_h(j) = j
  <2>1. ScanEnds(1) \in SUBSET (0..NR_PAGES)
    BY <1>1 DEF ScanEnds
  <2>2. PICK j : j = Min(ScanEnds(1))
    OBVIOUS
  <2>3. j \in ScanEnds(1) /\ \A m \in ScanEnds(1) : j <= m
    <3>1. ScanEnds(1) \in SUBSET Nat
      BY <1>1, <2>1
    <3>. QED  BY <1>4, <2>2, <3>1, LeastIs
  <2>4. j \in 0..NR_PAGES /\ tmp_c(j) = 1
    BY <2>1, <2>3 DEF ScanEnds
  <2>5. FreeHeads(j) # {}
    BY <2>4 DEF tmp_c
  <2>6. PICK k \in 0..j : kmem_page[k] = 0
    BY <1>2, <2>4, <2>5
  <2>7. k \in 0..NR_PAGES /\ k \in ScanEnds(1) /\ free_h(k) = k
    BY <1>1, <1>3, <2>4, <2>6
  <2>8. k = j
    BY <1>1, <2>3, <2>4, <2>6, <2>7
  <2>9. k # NR_PAGES
    BY <1>1, <2>6
  <2>. QED  BY <1>1, <2>2, <2>6, <2>7, <2>8, <2>9
<1>5. \A i \in 0..NR_PAGES-1 : i \in 0..NR_PAGES
  BY <1>1
<1>. QED  BY <1>3, <1>4, <1>5

-----------------------------------------------------------------------------
LEMMA InitInv ==
  ASSUME OnePage, Init
  PROVE  Inv
<1>1. NR_PAGES \in Nat /\ NR_PAGES >= 1 /\ Beyond = NR_PAGES
  BY KPagesAssumption DEF Beyond
<1>2. DOMAIN held = {} /\ Bases = {}
  BY DEF Init, Bases
<1>3. /\ DOMAIN kmem_page = 0..NR_PAGES /\ kmem_page[NR_PAGES] = ForeignWord
      /\ \A i \in 0..NR_PAGES-1 : kmem_page[i] = IF i = 0 THEN PAGE_S_FREE ELSE PAGE_S_CONT
  BY <1>1 DEF Init
<1>4. kmem_page \in [0..Beyond -> Sizes \cup {PAGE_S_FREE, PAGE_S_CONT, ForeignWord}]
  BY DEF Init
<1>5. TypeOK
  BY <1>1, <1>2, <1>3, <1>4 DEF TypeOK
<1>. QED  BY <1>2, <1>3, <1>5 DEF Inv

(***************************************************************************)
(* kmalloc takes the first page of a free stretch and leaves a head on the *)
(* page behind it if that is free too.                                     *)
(***************************************************************************)
LEMMA MallocStep ==
  ASSUME OnePage, Inv, NEW o \in Owners \ DOMAIN held, NEW size \in Sizes,
         NEW j \in 0..NR_PAGES-1, kmem_page[j] = 0,
         kmem_page' = new_head([kmem_page EXCEPT ![j] = size], j + 1),
         held' = Hold(o, [base |-> j, size |-> size])
  PROVE  Inv' /\ j \notin Bases
<1>1. /\ NR_PAGES \in Nat /\ NR_PAGES >= 1 /\ Beyond = NR_PAGES
      /\ PAGE_S_FREE = 0 /\ PAGE_S_CONT = -1
      /\ kmem_page[NR_PAGES] # 0 /\ kmem_page[NR_PAGES] # -1
      /\ DOMAIN kmem_page = 0..NR_PAGES
      /\ \A x \in DOMAIN held : /\ held[x].base \in 0..NR_PAGES-1 /\ held[x].size \in Sizes
                                /\ held[x].size # 0 /\ held[x].size # -1
      /\ Bases \subseteq 0..NR_PAGES-1
  BY Words DEF Inv
<1>2. j \notin Bases
  BY <1>1 DEF Inv, Bases
<1>3. j \in 0..NR_PAGES /\ j + 1 \in 0..NR_PAGES /\ j # j + 1
  BY <1>1
<1>4. /\ kmem_page' \in [0..NR_PAGES -> Sizes \cup {PAGE_S_FREE, PAGE_S_CONT, ForeignWord}]
      /\ kmem_page'[j] = size
      /\ kmem_page'[j + 1] = IF kmem_page[j + 1] = -1 THEN 0 ELSE kmem_page[j + 1]
      /\ \A i \in 0..NR_PAGES : i # j /\ i # j + 1 => kmem_page'[i] = kmem_page[i]
  <2>1. kmem_page \in [0..NR_PAGES -> Sizes \cup {PAGE_S_FREE, PAGE_S_CONT, ForeignWord}]
    BY <1>1 DEF Inv, TypeOK
  <2>. QED  BY <1>1, <1>3, <2>1 DEF new_head
<1>5. /\ DOMAIN held' = DOMAIN held \cup {o} /\ held'[o] = [base |-> j, size |-> size]
      /\ \A x \in DOMAIN held : held'[x] = held[x]
  BY DEF Hold
<1>6. Bases' = Bases \cup {j}
  BY <1>5 DEF Bases
<1>7. TypeOK'
  <2>1. kmem_page'[NR_PAGES] = kmem_page[NR_PAGES]
    <3>1. NR_PAGES \in 0..NR_PAGES /\ NR_PAGES # j
      BY <1>1
    <3>2. CASE NR_PAGES = j + 1
      BY <1>1, <1>4, <3>2
    <3>3. CASE NR_PAGES # j + 1
      BY <1>4, <3>1, <3>3
    <3>. QED  BY <3>2, <3>3
  <2>2. \A x \in DOMAIN held' : held'[x] \in [base : 0..NR_PAGES-1, size : Sizes]
    BY <1>5 DEF Inv, TypeOK
  <2>. QED  BY <1>1, <1>4, <2>1, <2>2 DEF Inv, TypeOK, Beyond, ForeignWord, PAGE_S_FREE, PAGE_S_CONT
<1>8. \A x, y \in DOMAIN held' : x # y => held'[x].base # held'[y].base
  <2>1. \A x \in DOMAIN held : held[x].base # j
    BY <1>2 DEF Bases
  <2>. QED  BY <1>5, <2>1 DEF Inv
<1>9. \A x \in DOMAIN held' : kmem_page'[held'[x].base] = held'[x].size
  <2>1. \A x \in DOMAIN held : kmem_page'[held[x].base] = held[x].size
    <3> TAKE x \in DOMAIN held
    <3>1. kmem_page[held[x].base] = held[x].size /\ held[x].base # j /\ held[x].base \in 0..NR_PAGES
      BY <1>1, <1>2 DEF Inv, Bases
    <3>2. CASE held[x].base = j + 1
      BY <1>1, <1>4, <3>1, <3>2
    <3>3. CASE held[x].base # j + 1
      BY <1>4, <3>1, <3>3
    <3>. QED  BY <3>2, <3>3
  <2>2. held'[o].base = j /\ held'[o].size = size
    BY <1>5
  <2>3. ASSUME NEW x \in DOMAIN held' PROVE kmem_page'[held'[x].base] = held'[x].size
    <3>1. CASE x = o
      BY <1>4, <2>2, <3>1
    <3>2. CASE x # o
      BY <1>5, <2>1, <3>2
    <3>. QED  BY <3>1, <3>2
  <2>. QED  BY <2>3
<1>10. ASSUME NEW i \in (0..NR_PAGES-1) \ Bases'
       PROVE  kmem_page'[i] = IF i = 0 \/ i-1 \in Bases' THEN PAGE_S_FREE ELSE PAGE_S_CONT
  <2>1. i \in (0..NR_PAGES-1) \ Bases /\ i # j /\ i \in 0..NR_PAGES
    BY <1>1, <1>6
  <2>2. kmem_page[i] = IF i = 0 \/ i-1 \in Bases THEN 0 ELSE -1
    BY <1>1, <2>1 DEF Inv
  <2>3. CASE i = j + 1
    <3>1. i - 1 = j /\ i # 0
      BY <1>1, <2>3
    <3>2. kmem_page[i] = -1
      BY <1>2, <2>2, <3>1
    <3>. QED  BY <1>1, <1>4, <1>6, <2>3, <3>1, <3>2
  <2>4. CASE i # j + 1
    <3>1. i - 1 # j
      BY <1>1, <2>1, <2>4
    <3>. QED  BY <1>1, <1>4, <1>6, <2>1, <2>2, <2>4, <3>1
  <2>. QED  BY <2>3, <2>4
<1>. QED  BY <1>2, <1>7, <1>8, <1>9, <1>10 DEF Inv, PAGE_S_FREE, PAGE_S_CONT

(***************************************************************************)
(* The walk back of kfree ends on the head of a free stretch exactly if    *)
(* the page before the block is free.                                      *)
(***************************************************************************)
LEMMA JoinsIs ==
  ASSUME OnePage, Inv, NEW s \in Bases
  PROVE  joins_previous(s) <=> s # 0 /\ s - 1 \notin Bases
<1>1. /\ NR_PAGES \in Nat /\ NR_PAGES >= 1
      /\ PAGE_S_FREE = 0 /\ PAGE_S_CONT = -1
      /\ \A x \in DOMAIN held : /\ held[x].base \in 0..NR_PAGES-1
                                /\ held[x].size # 0 /\ held[x].size # -1
      /\ Bases \subseteq 0..NR_PAGES-1
  BY Words DEF Inv
<1>2. \A i \in Bases : kmem_page[i] # 0 /\ kmem_page[i] # -1
  BY <1>1 DEF Inv, Bases
<1>3. \A i \in (0..NR_PAGES-1) \ Bases : kmem_page[i] = IF i = 0 \/ i-1 \in Bases THEN 0 ELSE -1
  BY <1>1 DEF Inv
<1>4. CASE s = 0
  BY <1>4 DEF joins_previous
<1>5. CASE s # 0
  <2> DEFINE S == {j \in 0..s-1 : kmem_page[j] # PAGE_S_CONT}
  <2>1. s \in Nat /\ s - 1 \in Nat /\ s - 1 \in 0..NR_PAGES-1 /\ s \in 0..NR_PAGES-1
    BY <1>1, <1>5
  <2>2. 0 \in S
    <3>0. s >= 1 /\ NR_PAGES - 1 >= 0 /\ NR_PAGES \in Nat /\ s \in Nat
      BY <1>1, <2>1
    <3>1. 0 \in 0..s-1 /\ 0 \in 0..NR_PAGES-1
      BY <3>0
    <3>2. kmem_page[0] # -1
      <4>1. 0 # -1
        OBVIOUS
      <4>. QED  BY <1>2, <1>3, <3>1, <4>1
    <3>. QED  BY <1>1, <3>1, <3>2
  <2>3. PICK k : k = Max(S)
    OBVIOUS
  <2>4. k \in S /\ \A m \in S : m <= k
    <3>1. S \in SUBSET (0..s-1) /\ S # {}
      BY <2>2
    <3> HIDE DEF S
    <3>. QED  BY <2>1, <2>3, <3>1, GreatestIs
  <2>5. k \in 0..s-1 /\ kmem_page[k] # -1 /\ k \in 0..NR_PAGES-1
    BY <1>1, <2>1, <2>4
  <2>6. joins_previous(s) <=> kmem_page[k] = 0
    BY <1>1, <1>5, <2>3 DEF joins_previous
  <2>7. CASE s - 1 \in Bases
    <3>1. s - 1 \in S
      BY <1>1, <1>2, <2>1, <2>7
    <3>2. k = s - 1
      BY <2>1, <2>4, <2>5, <3>1
    <3>. QED  BY <1>2, <2>6, <2>7, <3>2
  <2>8. CASE s - 1 \notin Bases
    <3>1. k \notin Bases
      <4> SUFFICES ASSUME k \in Bases PROVE FALSE
        OBVIOUS
      <4>1. k + 1 \in 0..s-1 /\ k + 1 \in 0..NR_PAGES-1 /\ (k + 1) - 1 = k /\ ~(k + 1 <= k)
        BY <1>1, <2>1, <2>5, <2>8
      <4>2. k + 1 \notin S
        BY <2>4, <4>1
      <4>3. kmem_page[k + 1] = -1
        BY <1>1, <4>1, <4>2
      <4>. QED  BY <1>2, <1>3, <4>1, <4>3
    <3>2. kmem_page[k] = 0
      BY <1>3, <2>5, <3>1
    <3>. QED  BY <1>5, <2>6, <2>8, <3>2
  <2>. QED  BY <2>7, <2>8
<1>. QED  BY <1>4, <1>5

LEMMA FreeStep ==
  ASSUME OnePage, Inv, NEW o \in DOMAIN held, kfree(o)
  PROVE  Inv'
<1>1. /\ NR_PAGES \in Nat /\ NR_PAGES >= 1 /\ Beyond = NR_PAGES
      /\ PAGE_S_FREE = 0 /\ PAGE_S_CONT = -1
      /\ kmem_page[NR_PAGES] # 0 /\ kmem_page[NR_PAGES] # -1
      /\ \A x \in DOMAIN held : /\ held[x].base \in 0..NR_PAGES-1 /\ held[x].size \in Sizes
                                /\ held[x].size # 0 /\ held[x].size # -1
      /\ Bases \subseteq 0..NR_PAGES-1
  BY Words DEF Inv
<1>2. PICK s : s = held[o].base
  OBVIOUS
<1>3. /\ s \in Bases /\ s \in 0..NR_PAGES-1 /\ s + 1 \in 0..NR_PAGES /\ s \in 0..NR_PAGES
      /\ s # NR_PAGES /\ s # s + 1
  BY <1>1, <1>2 DEF Bases
<1>4. calc_count(kmem_page[s]) = 1
  BY <1>1, <1>2, OnePageCount DEF Inv
<1> DEFINE w == IF joins_previous(s) THEN PAGE_S_CONT ELSE PAGE_S_FREE
<1>5. kmem_page' = absorb_next([kmem_page EXCEPT ![s] = w], s + 1)
  <2>1. s + calc_count(kmem_page[s]) - 1 = s
    BY <1>1, <1>3, <1>4
  <2>. QED  BY <1>1, <1>2, <1>3, <2>1 DEF kfree
<1>6. w = IF s # 0 /\ s - 1 \notin Bases THEN -1 ELSE 0
  BY <1>1, <1>3, JoinsIs
<1>7. w \in {PAGE_S_FREE, PAGE_S_CONT}
  OBVIOUS
<1> HIDE DEF w
<1>8. /\ kmem_page' \in [0..NR_PAGES -> Sizes \cup {PAGE_S_FREE, PAGE_S_CONT, ForeignWord}]
      /\ kmem_page'[s] = w
      /\ kmem_page'[s + 1] = IF kmem_page[s + 1] = 0 THEN -1 ELSE kmem_page[s + 1]
      /\ \A i \in 0..NR_PAGES : i # s /\ i # s + 1 => kmem_page'[i] = kmem_page[i]
  <2>1. kmem_page \in [0..NR_PAGES -> Sizes \cup {PAGE_S_FREE, PAGE_S_CONT, ForeignWord}]
    BY <1>1 DEF Inv, TypeOK
  <2>. QED  BY <1>1, <1>3, <1>5, <1>7, <2>1 DEF absorb_next
<1>9. DOMAIN held' = DOMAIN held \ {o} /\ \A x \in DOMAIN held \ {o} : held'[x] = held[x]
  BY DEF kfree
<1>10. \A x \in DOMAIN held \ {o} : held[x].base # s
  BY <1>2 DEF Inv
<1>11. Bases' = Bases \ {s}
  BY <1>2, <1>9, <1>10 DEF Bases
<1>12. TypeOK'
  <2>1. kmem_page'[NR_PAGES] = kmem_page[NR_PAGES]
    BY <1>1, <1>3, <1>8
  <2>2. \A x \in DOMAIN held' : held'[x] \in [base : 0..NR_PAGES-1, size : Sizes]
    BY <1>9 DEF Inv, TypeOK
  <2>. QED  BY <1>1, <1>8, <2>1, <2>2 DEF Inv, TypeOK, Beyond, ForeignWord, PAGE_S_FREE, PAGE_S_CONT
<1>13. \A x, y \in DOMAIN held' : x # y => held'[x].base # held'[y].base
  BY <1>9 DEF Inv
<1>14. \A x \in DOMAIN held' : kmem_page'[held'[x].base] = held'[x].size
  <2> SUFFICES ASSUME NEW x \in DOMAIN held \ {o} PROVE kmem_page'[held[x].base] = held[x].size
    BY <1>9
  <2>1. kmem_page[held[x].base] = held[x].size /\ held[x].base # s /\ held[x].base \in 0..NR_PAGES
    BY <1>1, <1>10 DEF Inv
  <2>. QED  BY <1>1, <1>8, <2>1
<1>15. ASSUME NEW i \in (0..NR_PAGES-1) \ Bases'
       PROVE  kmem_page'[i] = IF i = 0 \/ i-1 \in Bases' THEN PAGE_S_FREE ELSE PAGE_S_CONT
  <2>1. i \in 0..NR_PAGES
    BY <1>1
  <2>2. CASE i = s
    <3>1. s - 1 # s
      BY <1>3
    <3>. QED  BY <1>1, <1>6, <1>8, <1>11, <2>2, <3>1
  <2>3. CASE i # s
    <3>1. i \in (0..NR_PAGES-1) \ Bases
      BY <1>11, <2>3
    <3>2. kmem_page[i] = IF i = 0 \/ i-1 \in Bases THEN 0 ELSE -1
      BY <1>1, <3>1 DEF Inv
    <3>3. CASE i = s + 1
      <4>1. i - 1 = s /\ i # 0
        BY <1>3, <3>3
      <4>. QED  BY <1>1, <1>3, <1>8, <1>11, <3>2, <3>3, <4>1
    <3>4. CASE i # s + 1
      <4>1. i - 1 # s
        BY <1>3, <2>1, <3>4
      <4>. QED  BY <1>1, <1>8, <1>11, <2>1, <2>3, <3>2, <3>4, <4>1
    <3>. QED  BY <3>3, <3>4
  <2>. QED  BY <2>2, <2>3
<1>. QED  BY <1>12, <1>13, <1>14, <1>15 DEF Inv, PAGE_S_FREE, PAGE_S_CONT

(***************************************************************************)
(* Every step keeps the invariant; a call of kmalloc that finds a page is  *)
(* one that Arena allows, and so is every call of kfree.                   *)
(***************************************************************************)
PageBlocks == [o \in DOMAIN held |-> [base |-> held[o].base, size |-> calc_count(held[o].size)]]

LEMMA MallocGives ==
  ASSUME OnePage, Inv, NEW o \in Owners \ DOMAIN held, NEW size \in Sizes,
         NEW j \in 0..NR_PAGES-1, j \notin Bases,
         held' = Hold(o, [base |-> j, size |-> size])
  PROVE  A!Give(o, calc_count(size))
<1>1. /\ NR_PAGES \in Nat
      /\ \A x \in DOMAIN held : held[x].base \in 0..NR_PAGES-1 /\ held[x].size \in Sizes
  BY Words DEF Inv
<1>2. calc_count(size) = 1 /\ \A x \in DOMAIN held : calc_count(held[x].size) = 1
  BY <1>1, OnePageCount
<1>3. /\ DOMAIN PageBlocks = DOMAIN held
      /\ \A x \in DOMAIN held : PageBlocks[x] = [base |-> held[x].base, size |-> 1]
  BY <1>2 DEF PageBlocks
<1>4. PICK new : new = [base |-> j, size |-> calc_count(size)]
  OBVIOUS
<1>5. \A x \in DOMAIN PageBlocks : A!Disjoint(new, PageBlocks[x])
  <2> TAKE x \in DOMAIN PageBlocks
  <2>1. held[x].base # j /\ held[x].base \in 0..NR_PAGES-1
    BY <1>1, <1>3 DEF Bases
  <2>2. new.base = j /\ new.size = 1 /\ PageBlocks[x].base = held[x].base /\ PageBlocks[x].size = 1
    BY <1>2, <1>3, <1>4
  <2>3. j + 1 <= held[x].base \/ held[x].base + 1 <= j
    BY <1>1, <2>1
  <2>. QED  BY <2>2, <2>3 DEF A!Disjoint
<1>6. PageBlocks' = [x \in DOMAIN PageBlocks \cup {o} |-> IF x = o THEN new ELSE PageBlocks[x]]
  <2>1. DOMAIN held' = DOMAIN held \cup {o}
    BY DEF Hold
  <2>2. \A x \in DOMAIN held' : held'[x] = IF x = o THEN [base |-> j, size |-> size] ELSE held[x]
    BY DEF Hold
  <2>3. PageBlocks' = [x \in DOMAIN held' |->
                         [base |-> held'[x].base, size |-> calc_count(held'[x].size)]]
    BY DEF PageBlocks, calc_count
  <2>4. \A x \in DOMAIN held' : [base |-> held'[x].base, size |-> calc_count(held'[x].size)]
                                  = IF x = o THEN new ELSE PageBlocks[x]
    <3> TAKE x \in DOMAIN held'
    <3>1. CASE x = o
      <4>1. held'[x] = [base |-> j, size |-> size]
        BY <2>2, <3>1
      <4>2. held'[x].base = j /\ held'[x].size = size
        BY <4>1
      <4>. QED  BY <1>4, <3>1, <4>2
    <3>2. CASE x # o
      <4>1. held'[x] = held[x] /\ x \in DOMAIN held
        BY <2>1, <2>2, <3>2
      <4>2. PageBlocks[x] = [base |-> held[x].base, size |-> calc_count(held[x].size)]
        BY <4>1 DEF PageBlocks
      <4>. QED  BY <3>2, <4>1, <4>2
    <3>. QED  BY <3>1, <3>2
  <2>. QED  BY <1>3, <2>1, <2>3, <2>4
<1>7. o \notin DOMAIN PageBlocks /\ calc_count(size) > 0 /\ j \in 0..NR_PAGES - calc_count(size)
  BY <1>1, <1>2, <1>3
<1>8. PageBlocks' = A!Holding(o, new)
  BY <1>6 DEF A!Holding, PageBlocks
<1>. QED  BY <1>4, <1>5, <1>7, <1>8 DEF A!Give, PageBlocks

LEMMA NextInv ==
  ASSUME OnePage, Inv, [Next]_vars
  PROVE  Inv' /\ [A!Next]_PageBlocks
<1>1. ASSUME UNCHANGED vars PROVE Inv' /\ UNCHANGED PageBlocks
  BY <1>1 DEF Inv, TypeOK, Bases, PageBlocks, vars
<1>2. ASSUME NEW o \in Owners \ DOMAIN held, NEW size \in Sizes, kmalloc(o, size)
      PROVE  Inv' /\ [A!Next]_PageBlocks
  <2>1. CASE UNCHANGED vars
    BY <1>1, <2>1
  <2>2. CASE ~UNCHANGED vars
    <3>1. calc_count(size) = 1
      BY OnePageCount
    <3>2. PICK j : j = Min(ScanEnds(1))
      OBVIOUS
    <3>3. /\ ScanEnds(1) # {}
          /\ kmem_page' = new_head([kmem_page EXCEPT ![free_h(j)] = size], j + 1)
          /\ held' = Hold(o, [base |-> free_h(j), size |-> size])
      BY <1>2, <2>2, <3>1, <3>2 DEF kmalloc
    <3>4. j \in 0..NR_PAGES-1 /\ kmem_page[j] = 0 /\ free_h(j) = j
      BY <3>2, <3>3, ScanIs DEF Inv
    <3>5. /\ kmem_page' = new_head([kmem_page EXCEPT ![j] = size], j + 1)
          /\ held' = Hold(o, [base |-> j, size |-> size])
      BY <3>3, <3>4
    <3>6. Inv' /\ j \notin Bases
      BY <3>4, <3>5, MallocStep
    <3>7. A!Give(o, calc_count(size))
      BY <3>4, <3>5, <3>6, MallocGives
    <3>. QED  BY <3>6, <3>7 DEF A!Next
  <2>. QED  BY <2>1, <2>2
<1>3. ASSUME NEW o \in DOMAIN held, kfree(o)
      PROVE  Inv' /\ [A!Next]_PageBlocks
  <2>1. Inv'
    BY <1>3, FreeStep
  <2>2. DOMAIN PageBlocks = DOMAIN held
    BY DEF PageBlocks
  <2>3. DOMAIN held' = DOMAIN held \ {o} /\ \A x \in DOMAIN held \ {o} : held'[x] = held[x]
    BY <1>3 DEF kfree
  <2>4. PageBlocks' = [x \in DOMAIN PageBlocks \ {o} |-> PageBlocks[x]]
    BY <2>2, <2>3 DEF PageBlocks, calc_count
  <2>5. A!Return(o)
    BY <2>4 DEF A!Return, PageBlocks
  <2>6. o \in DOMAIN PageBlocks \ DOMAIN <<>>
    BY <2>2
  <2>. QED  BY <2>1, <2>5, <2>6 DEF A!Next, PageBlocks
<1>. QED  BY <1>1, <1>2, <1>3 DEF Next

THEOREM InvHolds ==
  ASSUME OnePage
  PROVE  Spec => []Inv
<1>1. Init => Inv
  BY InitInv
<1>2. Inv /\ [Next]_vars => Inv'
  BY NextInv
<1>. QED  BY <1>1, <1>2, PTL DEF Spec

-----------------------------------------------------------------------------
(***************************************************************************)
(* The words of the table have their meanings and the word past it is read *)
(* but never written, for blocks of one page and any table.                *)
(***************************************************************************)
THEOREM TypeOKHolds ==
  ASSUME OnePage
  PROVE  Spec => []TypeOK
<1>1. Inv => TypeOK
  BY DEF Inv
<1>. QED  BY <1>1, InvHolds, PTL

LEMMA OnePageBlocks ==
  ASSUME OnePage, TypeOK
  PROVE  /\ \A o \in DOMAIN held : PagesOf(held[o]) = {held[o].base}
         /\ HeldPages = Bases
<1>1. ASSUME NEW o \in DOMAIN held PROVE PagesOf(held[o]) = {held[o].base}
  <2>1. held[o].base \in 0..NR_PAGES-1 /\ held[o].size \in Sizes /\ NR_PAGES \in Nat
    BY Words
  <2>2. calc_count(held[o].size) = 1
    BY <2>1, OnePageCount
  <2>. QED  BY <2>1, <2>2 DEF PagesOf
<1>2. HeldPages = Bases
  BY <1>1 DEF HeldPages, Bases
<1>. QED  BY <1>1, <1>2

(***************************************************************************)
(* Whatever the order of splits and joins, the table describes the pages.  *)
(***************************************************************************)
THEOREM TableDescribesPagesHolds ==
  ASSUME OnePage
  PROVE  Spec => []TableDescribesPages
<1>1. ASSUME Inv PROVE TableDescribesPages
  <2>1. /\ \A o \in DOMAIN held : PagesOf(held[o]) = {held[o].base}
        /\ HeldPages = Bases
    BY <1>1, OnePageBlocks DEF Inv
  <2>. QED  BY <1>1, <2>1 DEF Inv, TableDescribesPages
<1>. QED  BY <1>1, InvHolds, PTL

(***************************************************************************)
(* No page is lost: while one is free, kmalloc finds one.                  *)
(***************************************************************************)
THEOREM FreePageIsFoundHolds ==
  ASSUME OnePage
  PROVE  Spec => []FreePageIsFound
<1>1. ASSUME Inv, HeldPages # 0..NR_PAGES-1 PROVE ScanEnds(1) \cap (0..NR_PAGES-1) # {}
  <2>1. HeldPages = Bases /\ Bases \subseteq 0..NR_PAGES-1 /\ NR_PAGES \in Nat /\ PAGE_S_FREE = 0
    BY <1>1, OnePageBlocks, Words DEF Inv
  <2> DEFINE S == (0..NR_PAGES-1) \ Bases
  <2>2. S \in SUBSET Nat /\ S # {}
    <3>1. S \subseteq Nat
      OBVIOUS
    <3>2. \E i \in 0..NR_PAGES-1 : i \notin Bases
      BY <1>1, <2>1
    <3>. QED  BY <3>1, <3>2
  <2>3. PICK m \in S : \A k \in S : m <= k
    <3> HIDE DEF S
    <3>. QED  BY <2>2, LeastIs
  <2>4. m = 0 \/ m - 1 \in Bases
    <3> SUFFICES ASSUME m # 0 PROVE m - 1 \in Bases
      OBVIOUS
    <3>1. m - 1 \in 0..NR_PAGES-1 /\ ~(m <= m - 1)
      BY <2>1
    <3>. QED  BY <2>3, <3>1
  <2>5. kmem_page[m] = 0
    BY <1>1, <2>1, <2>4 DEF Inv
  <2>. QED  BY <1>1, <2>5, ScanIs DEF Inv
<1>2. Inv => FreePageIsFound
  BY <1>1 DEF FreePageIsFound
<1>. QED  BY <1>2, InvHolds, PTL

(***************************************************************************)
(* What kpages_overlap refutes for larger blocks holds for these: no two   *)
(* blocks share a page.                                                    *)
(***************************************************************************)
THEOREM BlocksDisjointHolds ==
  ASSUME OnePage
  PROVE  Spec => []BlocksDisjoint
<1>1. ASSUME Inv PROVE BlocksDisjoint
  <2>1. \A o \in DOMAIN held : PagesOf(held[o]) = {held[o].base}
    BY <1>1, OnePageBlocks DEF Inv
  <2>. QED  BY <1>1, <2>1 DEF Inv, BlocksDisjoint
<1>. QED  BY <1>1, InvHolds, PTL

(***************************************************************************)
(* KPages implements Arena with pages for its unit when no block is larger *)
(* than a page.                                                            *)
(***************************************************************************)
THEOREM ImplementsArenaHolds ==
  ASSUME OnePage
  PROVE  Spec => ImplementsArena
<1>1. Init => A!Init
  BY DEF Init, A!Init
<1>2. Inv /\ [Next]_vars => [A!Next]_PageBlocks
  BY NextInv
<1>. QED  BY <1>1, <1>2, InvHolds, PTL DEF Spec, A!Spec, ImplementsArena, PageBlocks
=============================================================================
