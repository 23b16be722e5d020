------------------------------ MODULE RunQueue ------------------------------
(***************************************************************************)
(* The run queue of ker/proc.c at the level of its pointers: ready_head,   *)
(* ready_tail and the `next' field of every struct proc.  A process is     *)
(* its slot in proc_table; NULL is an integer that names no slot.          *)
(***************************************************************************)
EXTENDS Integers, Sequences, FiniteSets, SequencesExt

CONSTANT NR_TASK    \* slots of proc_table (const.h: 10)

ASSUME NRTaskAssumption == NR_TASK \in Nat /\ NR_TASK >= 2

NULL == -1
IDLE_TASK == 0
INIT_TASK == 1
Proc == 0..NR_TASK-1

Queue == [head : Proc \cup {NULL}, tail : Proc \cup {NULL},
          next : [Proc -> Proc \cup {NULL}]]

EmptyQueue == [head |-> NULL, tail |-> NULL, next |-> [p \in Proc |-> NULL]]

-----------------------------------------------------------------------------
(***************************************************************************)
(* What the pointers mean.  Linked(q, s): walking q from its head visits   *)
(* s and then meets NULL.  ready_tail is meaningful only while the queue   *)
(* is not empty: proc_block leaves it dangling when it removes the last    *)
(* process.  Order(q) is the walk as a sequence, Members(q) as a set.      *)
(***************************************************************************)
Orders == {s \in SeqOf(Proc \ {IDLE_TASK}, NR_TASK-1) : IsInjective(s)}

Linked(q, s) ==
  /\ s = <<>> => q.head = NULL
  /\ s # <<>> => /\ q.head = s[1]
                 /\ q.tail = s[Len(s)]
                 /\ q.next[s[Len(s)]] = NULL
  /\ \A i \in 1..Len(s)-1 : q.next[s[i]] = s[i+1]

WellLinked(q) == \E s \in Orders : Linked(q, s)

Order(q) == CHOOSE s \in Orders : Linked(q, s)

Members(q) == ToSet(Order(q))

\* Mutants of proc_ready: the new tail keeps its old link; ready_head is
\* set although the queue is not empty.
ReadyKeepsLink(q, rp) ==
  IF rp = IDLE_TASK \/ rp = NULL THEN q
  ELSE [head |-> IF q.head # NULL THEN q.head ELSE rp,
        tail |-> rp,
        next |-> IF q.head # NULL THEN [q.next EXCEPT ![q.tail] = rp] ELSE q.next]

ReadySetsHead(q, rp) ==
  IF rp = IDLE_TASK \/ rp = NULL THEN q
  ELSE LET hung == IF q.head # NULL THEN [q.next EXCEPT ![q.tail] = rp]
                                    ELSE q.next
       IN  [head |-> rp, tail |-> rp, next |-> [hung EXCEPT ![rp] = NULL]]

(***************************************************************************)
(* proc_ready: hang rp behind ready_tail, whatever rp's own links are.     *)
(***************************************************************************)
proc_ready(q, rp) ==
  IF rp = IDLE_TASK \/ rp = NULL THEN q
  ELSE LET hung == IF q.head # NULL THEN [q.next EXCEPT ![q.tail] = rp]
                                    ELSE q.next
       IN  [head |-> IF q.head # NULL THEN q.head ELSE rp,
            tail |-> rp,
            next |-> [hung EXCEPT ![rp] = NULL]]

(***************************************************************************)
(* proc_block: the head is unlinked directly; any other process by the     *)
(* walk that looks for its predecessor hp and gives up at NULL.  The walk  *)
(* dereferences ready_head first, so it must not be NULL.                  *)
(***************************************************************************)
WalkIsDefined(q, bp) == bp = IDLE_TASK \/ bp = NULL \/ q.head # NULL

proc_block(q, bp) ==
  IF bp = IDLE_TASK \/ bp = NULL THEN q
  ELSE IF q.head = bp THEN [q EXCEPT !.head = q.next[bp]]
  ELSE IF bp \notin Members(q) THEN q
  ELSE LET hp == CHOOSE h \in Members(q) : q.next[h] = bp
       IN  [q EXCEPT !.next[hp] = q.next[bp],
                     !.tail = IF q.tail = bp THEN hp ELSE q.tail]

pick_proc(q) == IF q.head # NULL THEN q.head ELSE IDLE_TASK

(***************************************************************************)
(* The four assignments of RoundRobin that move the head to the tail.      *)
(***************************************************************************)
rotate(q) ==
  LET ring == [q.next EXCEPT ![q.tail] = q.head]
  IN  [head |-> ring[q.head], tail |-> q.head,
       next |-> [ring EXCEPT ![q.head] = NULL]]
=============================================================================
