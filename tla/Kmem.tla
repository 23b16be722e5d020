-------------------------------- MODULE Kmem --------------------------------
(***************************************************************************)
(* The memory of processes (ker/mem.c): Kmem_alloc and Kmem_free over the  *)
(* list of holes, busy and free, that starts at h_head.  The list is the   *)
(* sequence of its nodes; `slots' counts the nodes left on slot_free.      *)
(* Both routines run with interrupts off from end to end and the kernel is *)
(* not preempted, so a call is a step.                                     *)
(***************************************************************************)
EXTENDS Integers, Sequences, FiniteSets, SequencesExt, FiniteSetsExt

CONSTANTS
  memory_start, memory_end,   \* the extended memory, end excluded
  NR_HOLE,                    \* nodes of mem_hole (mem.c: 30)
  KernelSize,                 \* PAGE_SIZE*NR_PAGES, the space of kmalloc
  Owners,                     \* the processes whose memory comes from here
  KERNEL,                     \* the owner of the space of kmalloc
  Sizes                       \* the sizes callers ask for

ASSUME KmemAssumption ==
  /\ memory_start \in Nat /\ memory_end \in Nat /\ NR_HOLE \in Nat /\ NR_HOLE >= 2
  /\ KernelSize \in Nat \ {0} /\ memory_start + KernelSize <= memory_end
  /\ Sizes \subseteq Nat /\ KERNEL \notin Owners

VARIABLES
  holes,   \* the list: base, size and status of each node
  slots,   \* how many nodes alloc_slot still has
  owned    \* owner |-> its block: map[D] of a process, kmem_base of KERNEL

vars == <<holes, slots, owned>>

Block(h) == [base |-> h.base, size |-> h.size]

-----------------------------------------------------------------------------
(***************************************************************************)
(* The first free hole in list order that is large enough is split, the    *)
(* low part going to the caller and the high part into a new node, or      *)
(* given whole if it fits exactly.                                         *)
(***************************************************************************)
\* Mutant of Fitting: the status is not looked at.
FittingAny(h, n) == {i \in DOMAIN h : h[i].size >= n}

Fitting(h, n) == {i \in DOMAIN h : ~h[i].busy /\ h[i].size >= n}

\* Mutant of Split: the high part keeps the base of the hole.
SplitSameBase(h, i, n) ==
  InsertAt([h EXCEPT ![i] = [base |-> @.base, size |-> n, busy |-> TRUE]], i+1,
           [base |-> h[i].base, size |-> h[i].size - n, busy |-> FALSE])

Split(h, i, n) ==
  InsertAt([h EXCEPT ![i] = [base |-> @.base, size |-> n, busy |-> TRUE]], i+1,
           [base |-> h[i].base + n, size |-> h[i].size - n, busy |-> FALSE])

(***************************************************************************)
(* mem_init: one free hole of memory_end-memory_start+1 bytes, from which  *)
(* the space of kmalloc is taken at once.                                  *)
(***************************************************************************)
ArenaEnd == memory_end + 1

KernelBlock == [x \in {KERNEL} |-> [base |-> memory_start, size |-> KernelSize]]

Init ==
  /\ holes = Split(<<[base |-> memory_start, size |-> ArenaEnd - memory_start,
                      busy |-> FALSE]>>, 1, KernelSize)
  /\ slots = NR_HOLE - 2
  /\ owned = KernelBlock

\* Mutant of must_split: an exact fit is split too.
SplitsExactFit(i, n) == holes[i].size >= n

must_split(i, n) == holes[i].size > n

\* The caller keeps the address it got and the size it asked for.
Own(o, b) == [x \in DOMAIN owned \cup {o} |-> IF x = o THEN b ELSE owned[x]]

Kmem_alloc(o, n) ==
  \/ /\ n = 0 \/ Fitting(holes, n) = {}
     /\ UNCHANGED vars
  \/ /\ n > 0 /\ Fitting(holes, n) # {}
     /\ LET i == Min(Fitting(holes, n))
        IN  \/ /\ must_split(i, n) /\ slots = 0
               /\ UNCHANGED vars
            \/ /\ must_split(i, n) /\ slots > 0
               /\ holes' = Split(holes, i, n)
               /\ slots' = slots - 1
               /\ owned' = Own(o, [base |-> holes[i].base, size |-> n])
            \/ /\ holes[i].size = n
               /\ holes' = [holes EXCEPT ![i].busy = TRUE]
               /\ owned' = Own(o, Block(holes[i]))
               /\ UNCHANGED slots

-----------------------------------------------------------------------------
(***************************************************************************)
(* Kmem_free: the busy hole with that base becomes free and is merged with *)
(* a free successor and then with a free predecessor, whose nodes return   *)
(* to slot_free.                                                           *)
(***************************************************************************)
\* Mutant of MergeNext: the size of the node dropped is lost.
MergeNextLosesSize(h, i) ==
  IF i < Len(h) /\ ~h[i+1].busy THEN RemoveAt(h, i+1) ELSE h

MergeNext(h, i) ==
  IF i < Len(h) /\ ~h[i+1].busy
  THEN RemoveAt([h EXCEPT ![i].size = @ + h[i+1].size], i+1) ELSE h

\* Mutant of MergePrev: only the successor is merged.
MergePrevNever(h, i) == h

MergePrev(h, i) ==
  IF i > 1 /\ ~h[i-1].busy
  THEN RemoveAt([h EXCEPT ![i-1].size = @ + h[i].size], i) ELSE h

\* Mutant of merged_nodes: free_slot is called for the successor only.
MergedNextOnly(h, i) == {j \in {i+1} \cap DOMAIN h : ~h[j].busy}

merged_nodes(h, i) == {j \in {i-1, i+1} \cap DOMAIN h : ~h[j].busy}

Kmem_free(o) ==
  LET found == {i \in DOMAIN holes : holes[i].base = owned[o].base /\ holes[i].busy}
      i == Min(found)
  IN  /\ holes' = IF found = {} THEN holes
                  ELSE MergePrev(MergeNext([holes EXCEPT ![i].busy = FALSE], i), i)
      /\ slots' = IF found = {} THEN slots
                  ELSE slots + Cardinality(merged_nodes(holes, i))
      /\ owned' = [x \in DOMAIN owned \ {o} |-> owned[x]]

(***************************************************************************)
(* mem_copy asks for the memory of a child, do_exit returns that of the    *)
(* process.  The kernel's own block is never freed, nor that of the init   *)
(* and idle tasks, which Kmem_alloc never saw.                             *)
(***************************************************************************)
Next ==
  \/ \E o \in Owners \ DOMAIN owned, n \in Sizes : Kmem_alloc(o, n)
  \/ \E o \in Owners \cap DOMAIN owned : Kmem_free(o)

Spec == Init /\ [][Next]_vars

-----------------------------------------------------------------------------
(***************************************************************************)
(* The nodes have the types of struct hole and the pool never runs below   *)
(* zero.                                                                   *)
(***************************************************************************)
TypeOK ==
  /\ holes \in Seq([base : memory_start..ArenaEnd, size : 1..ArenaEnd, busy : BOOLEAN])
  /\ slots \in 0..NR_HOLE

(***************************************************************************)
(* The list always tiles the memory: it starts at memory_start, every hole *)
(* begins where the one before it ends, and the last ends where the memory *)
(* does.  No split or merge loses or doubles a byte (mem.c:81-133).        *)
(***************************************************************************)
HolesTile ==
  /\ holes # <<>> /\ holes[1].base = memory_start
  /\ \A i \in 1..Len(holes)-1 : holes[i].base + holes[i].size = holes[i+1].base
  /\ holes[Len(holes)].base + holes[Len(holes)].size = ArenaEnd

(***************************************************************************)
(* Two neighbours are never both free: the merges of Kmem_free suffice to  *)
(* join all free memory that is contiguous (mem.c:118-135).                *)
(***************************************************************************)
FreeHolesMerged == \A i \in 1..Len(holes)-1 : holes[i].busy \/ holes[i+1].busy

(***************************************************************************)
(* Every node of mem_hole is on the list or on slot_free.                  *)
(***************************************************************************)
SlotsConserved == Len(holes) + slots = NR_HOLE

(***************************************************************************)
(* The busy holes are the blocks of the owners: none is forgotten, none    *)
(* belongs to two of them.                                                 *)
(***************************************************************************)
BusyIsOwned ==
  LET busy == {i \in DOMAIN holes : holes[i].busy}
  IN  /\ {Block(holes[i]) : i \in busy} = {owned[o] : o \in DOMAIN owned}
      /\ Cardinality(busy) = Cardinality(DOMAIN owned)

(***************************************************************************)
(* With k blocks out, the kernel's lowest one included, the list is at     *)
(* most 2k long, so the 30 nodes of mem_hole are enough for the kernel's   *)
(* block and those of eight children: the return of Kmem_alloc for want of *)
(* a node, which skips unlock_irq_restore, is not taken (mem.c:83).        *)
(***************************************************************************)
NodesBounded == Len(holes) <= 2 * Cardinality(DOMAIN owned)

(***************************************************************************)
(* Kmem implements Arena: a block is cut from memory no other owner has,   *)
(* and only its owner's call of Kmem_free takes it away.                   *)
(***************************************************************************)
A == INSTANCE Arena WITH Lo <- memory_start, Hi <- ArenaEnd,
                         Kept <- KernelBlock, blocks <- owned

ImplementsArena == A!Spec
=============================================================================
