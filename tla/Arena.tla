------------------------------- MODULE Arena --------------------------------
(***************************************************************************)
(* What an allocator promises its callers, Kmem_alloc and Kmem_free for    *)
(* bytes, kmalloc and kfree for pages: a stretch of memory of which no     *)
(* unit belongs to two owners at once.                                     *)
(***************************************************************************)
EXTENDS Integers

CONSTANTS Lo, Hi,      \* the arena is the addresses Lo..Hi-1
          Owners,      \* who may hold a block
          Kept,        \* the blocks held at first and never given back
          Sizes        \* the sizes asked for

VARIABLE blocks        \* owner |-> its block, for those that hold one

Disjoint(b, c) == b.base + b.size <= c.base \/ c.base + c.size <= b.base

Init == blocks = Kept

Holding(o, b) == [x \in DOMAIN blocks \cup {o} |-> IF x = o THEN b ELSE blocks[x]]

Give(o, n) ==
  /\ o \notin DOMAIN blocks /\ n > 0
  /\ \E a \in Lo..Hi-n :
       LET new == [base |-> a, size |-> n]
       IN  /\ \A x \in DOMAIN blocks : Disjoint(new, blocks[x])
           /\ blocks' = Holding(o, new)

Return(o) == blocks' = [x \in DOMAIN blocks \ {o} |-> blocks[x]]

Next == \/ \E o \in Owners, n \in Sizes : Give(o, n)
        \/ \E o \in DOMAIN blocks \ DOMAIN Kept : Return(o)

Spec == Init /\ [][Next]_blocks
=============================================================================
