------------------------------- MODULE KPages -------------------------------
(***************************************************************************)
(* The memory of the kernel (ker/mem.c): kmalloc and kfree over kmem_page, *)
(* one word for each page.  The first page of a block in use holds the     *)
(* size asked for, the first page of a free stretch holds PAGE_S_FREE, and *)
(* every other page PAGE_S_CONT.  Both routines run with interrupts off,   *)
(* so a call is a step; kmalloc leaves them off when it succeeds, which is *)
(* part of Kernel (DoRead, HdWoken) and not of this module.                *)
(***************************************************************************)
EXTENDS Integers, FiniteSets, FiniteSetsExt

CONSTANTS
  NR_PAGES, PAGE_SIZE,   \* mem.c: 128 pages of 1024 bytes
  Owners,                \* the pointers of callers: names, buffers, their data
  Sizes                  \* the sizes callers ask for, in bytes

ASSUME KPagesAssumption ==
  /\ NR_PAGES \in Nat \ {0} /\ PAGE_SIZE \in Nat \ {0}
  /\ Sizes \subseteq Nat \ {0}

VARIABLES
  kmem_page,   \* the table and the word behind it
  held         \* owner |-> its block, as a page number and a size

vars == <<kmem_page, held>>

PAGE_S_FREE == 0
PAGE_S_CONT == -1

(***************************************************************************)
(* Both routines go one word past the table.  The statics next to it are   *)
(* kmem_base and mem_hole[0].base, on whichever side the compiler puts     *)
(* them: addresses, neither PAGE_S_FREE nor PAGE_S_CONT.                   *)
(***************************************************************************)
Beyond == NR_PAGES
ForeignWord == NR_PAGES * PAGE_SIZE + 1

-----------------------------------------------------------------------------
calc_count(size) ==
  (size \div PAGE_SIZE) + (IF size % PAGE_SIZE > 0 THEN 1 ELSE 0)

PagesOf(b) == b.base .. b.base + calc_count(b.size) - 1

Init ==
  /\ kmem_page = [i \in 0..Beyond |-> IF i = 0 THEN PAGE_S_FREE
                                      ELSE IF i = Beyond THEN ForeignWord
                                      ELSE PAGE_S_CONT]
  /\ held = <<>>

(***************************************************************************)
(* The scan of kmalloc.  At page i its counter tmp_c has been set to 1 at  *)
(* the last free head free_h and has counted the PAGE_S_CONT since, those  *)
(* of blocks in use too; a block in use does not reset it.  The scan ends  *)
(* at the first page with tmp_c = count.                                   *)
(***************************************************************************)
FreeHeads(i) == {j \in 0..i : kmem_page[j] = PAGE_S_FREE}

\* Mutant of free_h: the scan does not move it off the start of the table.
StaysAtStart(i) == 0

free_h(i) == Max(FreeHeads(i))

tmp_c(i) ==
  IF FreeHeads(i) = {} THEN 0
  ELSE 1 + Cardinality({j \in free_h(i)+1 .. i : kmem_page[j] = PAGE_S_CONT})

ScanEnds(count) == {i \in 0..Beyond : tmp_c(i) = count}

\* Mutants of the split: no head is left in the rest of the free stretch;
\* the rest is given a head without a look at what it is.
NoNewHead(page, next) == page

AlwaysNewHead(page, next) == [page EXCEPT ![next] = PAGE_S_FREE]

new_head(page, next) ==
  IF page[next] = PAGE_S_CONT THEN [page EXCEPT ![next] = PAGE_S_FREE] ELSE page

\* The caller keeps the address it got and the size it asked for.
Hold(o, b) == [x \in DOMAIN held \cup {o} |-> IF x = o THEN b ELSE held[x]]

kmalloc(o, size) ==
  LET ends == ScanEnds(calc_count(size))
      pptr == Min(ends)
  IN  \/ ends = {} /\ UNCHANGED vars
      \/ /\ ends # {}
         /\ kmem_page' = new_head([kmem_page EXCEPT ![free_h(pptr)] = size], pptr+1)
         /\ held' = Hold(o, [base |-> free_h(pptr), size |-> size])

-----------------------------------------------------------------------------
(***************************************************************************)
(* kfree: the block joins the free stretch before it, found by a walk back *)
(* over PAGE_S_CONT, and the head of a free stretch behind it is removed.  *)
(***************************************************************************)
joins_previous(start) ==
  start # 0 /\ kmem_page[Max({j \in 0..start-1 : kmem_page[j] # PAGE_S_CONT})]
                 = PAGE_S_FREE

\* Mutant of absorb_next: the free stretch behind keeps its head.
AbsorbNothing(page, next) == page

absorb_next(page, next) ==
  IF page[next] = PAGE_S_FREE THEN [page EXCEPT ![next] = PAGE_S_CONT] ELSE page

kfree(o) ==
  LET start == held[o].base
      end == start + calc_count(kmem_page[start]) - 1
      freed == [kmem_page EXCEPT ![start] = IF joins_previous(start)
                                            THEN PAGE_S_CONT ELSE PAGE_S_FREE]
  IN  /\ kmem_page' = IF end # Beyond THEN absorb_next(freed, end+1) ELSE freed
      /\ held' = [x \in DOMAIN held \ {o} |-> held[x]]

Next ==
  \/ \E o \in Owners \ DOMAIN held, size \in Sizes : kmalloc(o, size)
  \/ \E o \in DOMAIN held : kfree(o)

Spec == Init /\ [][Next]_vars

-----------------------------------------------------------------------------
HeldPages == UNION {PagesOf(held[o]) : o \in DOMAIN held}

(***************************************************************************)
(* The words of the table have one of the three meanings, and the word     *)
(* behind it, which both routines read, is never written.                  *)
(***************************************************************************)
TypeOK ==
  /\ kmem_page \in [0..Beyond -> Sizes \cup {PAGE_S_FREE, PAGE_S_CONT, ForeignWord}]
  /\ kmem_page[Beyond] = ForeignWord
  /\ \A o \in DOMAIN held : held[o] \in [base : 0..NR_PAGES-1, size : Sizes]

(***************************************************************************)
(* The table describes the pages: a block in use has its size on its first *)
(* page and PAGE_S_CONT on the rest, and exactly the first page of every   *)
(* longest free stretch is marked free, whatever the order in which blocks *)
(* were split off and joined (mem.c:178-239).                              *)
(***************************************************************************)
TableDescribesPages ==
  /\ \A o \in DOMAIN held : \A i \in PagesOf(held[o]) :
       kmem_page[i] = IF i = held[o].base THEN held[o].size ELSE PAGE_S_CONT
  /\ \A i \in (0..NR_PAGES-1) \ HeldPages :
       kmem_page[i] = IF i = 0 \/ i-1 \in HeldPages THEN PAGE_S_FREE ELSE PAGE_S_CONT

(***************************************************************************)
(* No page is lost: while one is free, a request of one page is granted.   *)
(***************************************************************************)
FreePageIsFound ==
  HeldPages # 0..NR_PAGES-1 => ScanEnds(1) \cap (0..NR_PAGES-1) # {}

(***************************************************************************)
(* Two blocks in use never share a page, whatever their sizes: kmalloc is  *)
(* the allocation function of kernel memory divided into pages             *)
(* (whatsnew.txt:51).                                                      *)
(***************************************************************************)
BlocksDisjoint ==
  \A o, x \in DOMAIN held : o # x => PagesOf(held[o]) \cap PagesOf(held[x]) = {}

(***************************************************************************)
(* KPages implements Arena with pages for its unit: no page is given to    *)
(* two owners, nor one behind the table.                                   *)
(***************************************************************************)
A == INSTANCE Arena WITH Lo <- 0, Hi <- NR_PAGES, Kept <- <<>>,
       Sizes <- {calc_count(size) : size \in Sizes},
       blocks <- [o \in DOMAIN held |-> [base |-> held[o].base,
                                         size |-> calc_count(held[o].size)]]

ImplementsArena == A!Spec
=============================================================================
