--------------------------- MODULE RunQueueProofs ---------------------------
(***************************************************************************)
(* What the pointer operations of ker/proc.c do to the sequence of         *)
(* processes that the pointers link, for every number of processes.        *)
(***************************************************************************)
EXTENDS RunQueue, FiniteSetTheorems, WellFoundedInduction, TLAPS

(***************************************************************************)
(* The natural order as a well-founded relation, kept abstract so that the *)
(* provers never see the operator inside OpToRel.                          *)
(***************************************************************************)
LEMMA NatOrder ==
  \E R : IsWellFoundedOn(R, Nat) /\ \A x, y \in Nat : <<x, y>> \in R <=> x < y
<1> DEFINE R == OpToRel(<, Nat)
<1>1. IsWellFoundedOn(R, Nat)  BY NatLessThanWellFounded
<1>2. \A x, y \in Nat : <<x, y>> \in R <=> x < y  BY DEF OpToRel
<1> HIDE DEF R
<1>. QED  BY <1>1, <1>2, Zenon

(***************************************************************************)
(* A nonempty set of naturals has a least element.  It stands in for       *)
(* induction on the position in a list.                                    *)
(***************************************************************************)
LEMMA LeastNat ==
  ASSUME NEW T \in SUBSET Nat, T # {}
  PROVE  \E x \in T : \A y \in T : x <= y
<1>1. PICK R : IsWellFoundedOn(R, Nat) /\ \A x, y \in Nat : <<x, y>> \in R <=> x < y
  BY NatOrder
<1>2. IsWellFoundedOn(R, Nat)  BY <1>1
<1>3. T \subseteq Nat  OBVIOUS
<1>4. \E x \in T : \A y \in T : ~ (<<y, x>> \in R)  BY <1>2, <1>3, WFMin, Zenon
<1>5. PICK x \in T : \A y \in T : ~ (<<y, x>> \in R)  BY <1>4
<1>6. \A y \in T : <<y, x>> \in R <=> y < x  BY <1>1
<1>7. \A y \in T : ~ (y < x)  BY <1>5, <1>6, Zenon
<1>. QED  BY <1>7

LEMMA FcnIsSeq ==
  ASSUME NEW S, NEW m \in Nat, NEW f \in [1..m -> S]
  PROVE  f \in Seq(S) /\ Len(f) = m /\ DOMAIN f = 1..m
OBVIOUS

(***************************************************************************)
(* Orders without the bound on the length that lets TLC enumerate it: a    *)
(* list without repetition over the NR_TASK-1 slots other than the idle    *)
(* task's has no more than NR_TASK-1 elements.                             *)
(***************************************************************************)
LEMMA OrdersAreSeqs ==
  ASSUME NEW s \in Orders
  PROVE  /\ s \in Seq(Proc \ {IDLE_TASK})
         /\ \A i, j \in 1..Len(s) : s[i] = s[j] => i = j
BY NRTaskAssumption DEF Orders, SeqOf, IsInjective

LEMMA SeqsAreOrders ==
  ASSUME NEW s \in Seq(Proc \ {IDLE_TASK}),
         \A i, j \in 1..Len(s) : s[i] = s[j] => i = j
  PROVE  s \in Orders
<1> DEFINE n == Len(s)
<1>1. n \in Nat /\ s \in [1..n -> 1..NR_TASK-1] /\ DOMAIN s = 1..n
  BY NRTaskAssumption DEF Proc, IDLE_TASK
<1>2. s \in Injection(1..n, 1..NR_TASK-1)
  BY <1>1 DEF Injection, IsInjective
<1>3. IsFiniteSet(1..NR_TASK-1) /\ Cardinality(1..NR_TASK-1) = NR_TASK-1
  BY FS_Interval, NRTaskAssumption
<1>4. Cardinality(1..n) <= Cardinality(1..NR_TASK-1)
  BY <1>2, <1>3, FS_Injection
<1>5. Cardinality(1..n) = n
  <2>1. 1 \in Int /\ n \in Int  BY <1>1
  <2>2. Cardinality(1..n) = IF 1 > n THEN 0 ELSE n-1+1  BY <2>1, FS_Interval
  <2>. QED  BY <1>1, <2>2
<1>6. n \in 0..NR_TASK-1
  BY <1>1, <1>3, <1>4, <1>5, NRTaskAssumption
<1>7. s \in [1..n -> Proc \ {IDLE_TASK}]
  OBVIOUS
<1>. QED  BY <1>1, <1>6, <1>7 DEF Orders, SeqOf, IsInjective

(***************************************************************************)
(* Two walks from the same head agree as far as the shorter goes ...       *)
(***************************************************************************)
LEMMA LinkedAgree ==
  ASSUME NEW q \in Queue, NEW s \in Orders, NEW t \in Orders,
         Linked(q, s), Linked(q, t), Len(s) <= Len(t)
  PROVE  \A i \in 1..Len(s) : s[i] = t[i]
<1> DEFINE D == {i \in 1..Len(s) : s[i] # t[i]}
<1> SUFFICES ASSUME D # {} PROVE FALSE
  OBVIOUS
<1>0. /\ s \in Seq(Proc \ {IDLE_TASK}) /\ t \in Seq(Proc \ {IDLE_TASK})
  BY OrdersAreSeqs
<1>1. PICK k \in D : \A y \in D : k <= y
  <2>1. D \in SUBSET Nat  BY <1>0
  <2>. QED  BY <2>1, LeastNat
<1>2. CASE k = 1
  BY <1>0, <1>1, <1>2 DEF Linked
<1>3. CASE k > 1
  <2>1. k-1 \in 1..Len(s)-1 /\ k-1 \in 1..Len(t)-1 /\ k-1 \notin D
    BY <1>0, <1>1, <1>3
  <2>2. s[k-1] = t[k-1]
    BY <2>1, <1>0
  <2>3. q.next[s[k-1]] = s[(k-1)+1] /\ q.next[t[k-1]] = t[(k-1)+1]
    BY <2>1 DEF Linked
  <2>4. (k-1)+1 = k
    BY <1>0, <1>1
  <2>. QED  BY <1>1, <2>2, <2>3, <2>4
<1>. QED  BY <1>0, <1>1, <1>2, <1>3

(***************************************************************************)
(* ... and the shorter cannot stop first, so the walk is unique.           *)
(***************************************************************************)
LEMMA LinkedNotShorter ==
  ASSUME NEW q \in Queue, NEW s \in Orders, NEW t \in Orders,
         Linked(q, s), Linked(q, t)
  PROVE  ~ (Len(s) < Len(t))
<1> SUFFICES ASSUME Len(s) < Len(t) PROVE FALSE
  OBVIOUS
<1>0. /\ s \in Seq(Proc \ {IDLE_TASK}) /\ t \in Seq(Proc \ {IDLE_TASK})
      /\ \A x \in Proc : x # NULL
  BY OrdersAreSeqs DEF Proc, NULL
<1>1. CASE s = <<>>
  BY <1>0, <1>1 DEF Linked
<1>2. CASE s # <<>>
  <2>1. \A i \in 1..Len(s) : s[i] = t[i]
    BY <1>0, LinkedAgree
  <2>2. Len(s) \in 1..Len(t)-1 /\ Len(s) \in 1..Len(s)
    BY <1>0, <1>2
  <2>3. q.next[s[Len(s)]] = NULL /\ q.next[t[Len(s)]] = t[Len(s)+1]
    BY <2>2, <1>2 DEF Linked
  <2>4. t[Len(s)+1] \in Proc
    BY <1>0, <2>2
  <2>. QED  BY <1>0, <2>1, <2>2, <2>3, <2>4
<1>. QED  BY <1>1, <1>2

LEMMA LinkedUnique ==
  ASSUME NEW q \in Queue, NEW s \in Orders, NEW t \in Orders,
         Linked(q, s), Linked(q, t)
  PROVE  s = t
<1>0. /\ s \in Seq(Proc \ {IDLE_TASK}) /\ t \in Seq(Proc \ {IDLE_TASK})
  BY OrdersAreSeqs
<1>1. ~ (Len(s) < Len(t)) /\ ~ (Len(t) < Len(s))
  BY LinkedNotShorter
<1>2. Len(s) = Len(t)
  BY <1>0, <1>1
<1>3. \A i \in 1..Len(s) : s[i] = t[i]
  BY <1>0, <1>2, LinkedAgree
<1>. QED  BY <1>0, <1>2, <1>3

(***************************************************************************)
(* Hence Order(q) is the one sequence q links.                             *)
(***************************************************************************)
LEMMA OrderIs ==
  ASSUME NEW q \in Queue, NEW s \in Orders, Linked(q, s)
  PROVE  Order(q) = s /\ Members(q) = ToSet(s)
<1>1. Order(q) \in Orders /\ Linked(q, Order(q))
  BY DEF Order
<1>. QED  BY <1>1, LinkedUnique DEF Members

-----------------------------------------------------------------------------
(***************************************************************************)
(* proc_ready of a process that is not queued appends it.                  *)
(***************************************************************************)
THEOREM ReadyAppends ==
  ASSUME NEW q \in Queue, NEW s \in Orders, Linked(q, s),
         NEW rp \in Proc \ {IDLE_TASK}, rp \notin ToSet(s)
  PROVE  /\ proc_ready(q, rp) \in Queue
         /\ Append(s, rp) \in Orders
         /\ Linked(proc_ready(q, rp), Append(s, rp))
<1> DEFINE t == Append(s, rp)
           r == proc_ready(q, rp)
<1>0. /\ s \in Seq(Proc \ {IDLE_TASK})
      /\ \A i, j \in 1..Len(s) : s[i] = s[j] => i = j
      /\ rp # NULL /\ rp # IDLE_TASK /\ \A x \in Proc : x # NULL
      /\ \A i \in 1..Len(s) : s[i] # rp
  BY OrdersAreSeqs DEF Proc, NULL, ToSet
<1>1. r \in Queue
  BY <1>0 DEF proc_ready, Queue
<1>2. t \in Orders
  <2>1. t \in Seq(Proc \ {IDLE_TASK}) /\ Len(t) = Len(s) + 1
    BY <1>0
  <2>2. \A i, j \in 1..Len(t) : t[i] = t[j] => i = j
    BY <1>0
  <2>. QED  BY <2>1, <2>2, SeqsAreOrders
<1>3. Linked(r, t)
  <2>1. CASE s = <<>>
    <3>1. t = <<rp>>  BY <2>1
    <3>2. r.head = rp /\ r.tail = rp /\ r.next[rp] = NULL
      BY <1>0, <2>1 DEF proc_ready, Linked, Queue
    <3>. QED  BY <3>1, <3>2 DEF Linked
  <2>2. CASE s # <<>>
    <3>1. q.head = s[1] /\ q.tail = s[Len(s)] /\ q.head # NULL
      BY <1>0, <2>2 DEF Linked
    <3>2. /\ r.head = s[1] /\ r.tail = rp
          /\ r.next = [[q.next EXCEPT ![s[Len(s)]] = rp] EXCEPT ![rp] = NULL]
      BY <1>0, <3>1 DEF proc_ready
    <3>3. r.next[rp] = NULL /\ r.next[s[Len(s)]] = rp
      BY <1>0, <2>2, <3>2 DEF Queue
    <3>4. \A i \in 1..Len(s)-1 : r.next[s[i]] = s[i+1]
      <4> SUFFICES ASSUME NEW i \in 1..Len(s)-1 PROVE r.next[s[i]] = s[i+1]
        OBVIOUS
      <4>1. q.next[s[i]] = s[i+1]  BY DEF Linked
      <4>2. s[i] # rp /\ s[i] # s[Len(s)] /\ s[i] \in Proc  BY <1>0
      <4>. QED  BY <3>2, <4>1, <4>2 DEF Queue
    <3>5. /\ t # <<>> /\ t[1] = s[1] /\ Len(t) = Len(s)+1 /\ t[Len(t)] = rp
          /\ \A i \in 1..Len(s) : t[i] = s[i]
      BY <1>0, <2>2
    <3>6. \A i \in 1..Len(t)-1 : r.next[t[i]] = t[i+1]
      <4> SUFFICES ASSUME NEW i \in 1..Len(t)-1 PROVE r.next[t[i]] = t[i+1]
        OBVIOUS
      <4>1. CASE i = Len(s)  BY <1>0, <2>2, <3>3, <3>5, <4>1
      <4>2. CASE i # Len(s)
        <5>1. i \in 1..Len(s)-1 /\ i+1 \in 1..Len(s)  BY <1>0, <3>5, <4>2
        <5>. QED  BY <5>1, <3>4, <3>5, <1>0
      <4>. QED  BY <4>1, <4>2
    <3> HIDE DEF r, t
    <3>. QED  BY <3>2, <3>3, <3>5, <3>6 DEF Linked
  <2>. QED  BY <2>1, <2>2
<1>. QED  BY <1>1, <1>2, <1>3

(***************************************************************************)
(* proc_ready of a process that is queued cuts the list off behind it.     *)
(***************************************************************************)
THEOREM ReadyCuts ==
  ASSUME NEW q \in Queue, NEW s \in Orders, Linked(q, s),
         NEW k \in 1..Len(s)
  PROVE  /\ proc_ready(q, s[k]) \in Queue
         /\ SubSeq(s, 1, k) \in Orders
         /\ Linked(proc_ready(q, s[k]), SubSeq(s, 1, k))
<1> DEFINE t == SubSeq(s, 1, k)
           r == proc_ready(q, s[k])
<1>0. /\ s \in Seq(Proc \ {IDLE_TASK}) /\ s # <<>> /\ k \in Nat
      /\ \A i, j \in 1..Len(s) : s[i] = s[j] => i = j
      /\ s[k] \in Proc /\ s[k] # NULL /\ s[k] # IDLE_TASK
      /\ \A x \in Proc : x # NULL
  BY OrdersAreSeqs DEF Proc, NULL
<1>1. r \in Queue
  BY <1>0 DEF proc_ready, Queue
<1>2. t \in Seq(Proc \ {IDLE_TASK}) /\ Len(t) = k /\ \A i \in 1..k : t[i] = s[i]
  BY <1>0
<1>3. t \in Orders
  <2> HIDE DEF t
  <2>1. \A i, j \in 1..Len(t) : t[i] = t[j] => i = j
    BY <1>0, <1>2
  <2>. QED  BY <1>2, <2>1, SeqsAreOrders
<1>4. q.head = s[1] /\ q.tail = s[Len(s)] /\ q.head # NULL
  BY <1>0 DEF Linked
<1>5. /\ r.head = s[1] /\ r.tail = s[k]
      /\ r.next = [[q.next EXCEPT ![s[Len(s)]] = s[k]] EXCEPT ![s[k]] = NULL]
  BY <1>0, <1>4 DEF proc_ready
<1>6. r.next[s[k]] = NULL
  BY <1>0, <1>5 DEF Queue
<1>7. \A i \in 1..k-1 : r.next[s[i]] = s[i+1]
  <2> SUFFICES ASSUME NEW i \in 1..k-1 PROVE r.next[s[i]] = s[i+1]
    OBVIOUS
  <2>1. i \in 1..Len(s)-1 /\ i # k /\ i # Len(s)  BY <1>0
  <2>2. q.next[s[i]] = s[i+1]  BY <2>1 DEF Linked
  <2>3. s[i] # s[k] /\ s[i] # s[Len(s)] /\ s[i] \in Proc  BY <1>0, <2>1
  <2>. QED  BY <1>5, <2>2, <2>3 DEF Queue
<1>8. Linked(r, t)
  <2> HIDE DEF r, t
  <2>1. t # <<>> /\ t[1] = s[1] /\ t[Len(t)] = s[k]  BY <1>0, <1>2
  <2>2. \A i \in 1..Len(t)-1 : r.next[t[i]] = t[i+1]
    BY <1>0, <1>2, <1>7
  <2>. QED  BY <1>5, <1>6, <2>1, <2>2 DEF Linked
<1>. QED  BY <1>1, <1>3, <1>8

(***************************************************************************)
(* RoundRobin's four assignments move the head of the list to its end.     *)
(***************************************************************************)
THEOREM RotateRotates ==
  ASSUME NEW q \in Queue, NEW s \in Orders, Linked(q, s), s # <<>>
  PROVE  /\ rotate(q) \in Queue
         /\ Append(Tail(s), s[1]) \in Orders
         /\ Linked(rotate(q), Append(Tail(s), s[1]))
<1> DEFINE n == Len(s)
           t == Append(Tail(s), s[1])
           r == rotate(q)
<1>0. /\ s \in Seq(Proc \ {IDLE_TASK}) /\ n \in Nat /\ n >= 1
      /\ \A i, j \in 1..n : s[i] = s[j] => i = j
      /\ \A i \in 1..n : s[i] \in Proc \ {IDLE_TASK}
      /\ \A x \in Proc : x # NULL
  BY OrdersAreSeqs DEF Proc, NULL
<1>1. q.head = s[1] /\ q.tail = s[n] /\ q.next[s[n]] = NULL
  BY DEF Linked
<1>2. /\ t \in Seq(Proc \ {IDLE_TASK}) /\ Len(t) = n /\ t[n] = s[1]
      /\ \A i \in 1..n-1 : t[i] = s[i+1]
  BY <1>0
<1>3. t \in Orders
  <2> HIDE DEF t
  <2>1. \A i, j \in 1..Len(t) : t[i] = t[j] => i = j
    <3> SUFFICES ASSUME NEW i \in 1..n, NEW j \in 1..n, t[i] = t[j] PROVE i = j
      BY <1>2
    <3>1. CASE i = n /\ j = n  BY <3>1
    <3>2. CASE i = n /\ j # n
      <4>1. j+1 \in 1..n /\ s[1] = s[j+1] /\ 1 \in 1..n  BY <1>0, <1>2, <3>2
      <4>. QED  BY <4>1, <1>0
    <3>3. CASE i # n /\ j = n
      <4>1. i+1 \in 1..n /\ s[1] = s[i+1] /\ 1 \in 1..n  BY <1>0, <1>2, <3>3
      <4>. QED  BY <4>1, <1>0
    <3>4. CASE i # n /\ j # n
      <4>1. i+1 \in 1..n /\ j+1 \in 1..n /\ s[i+1] = s[j+1]  BY <1>0, <1>2, <3>4
      <4>. QED  BY <4>1, <1>0
    <3>. QED  BY <3>1, <3>2, <3>3, <3>4
  <2>. QED  BY <1>2, <2>1, SeqsAreOrders
<1> DEFINE ring == [q.next EXCEPT ![s[n]] = s[1]]
<1>4. /\ ring \in [Proc -> Proc \cup {NULL}] /\ ring[s[n]] = s[1]
      /\ \A i \in 1..n-1 : ring[s[i]] = s[i+1]
  <2>1. ring \in [Proc -> Proc \cup {NULL}] /\ ring[s[n]] = s[1]
    BY <1>0 DEF Queue
  <2>2. ASSUME NEW i \in 1..n-1 PROVE ring[s[i]] = s[i+1]
    <3>1. q.next[s[i]] = s[i+1]  BY DEF Linked
    <3>2. s[i] # s[n] /\ s[i] \in Proc  BY <1>0
    <3>. QED  BY <3>1, <3>2 DEF Queue
  <2>. QED  BY <2>1, <2>2
<1>5. r = [head |-> ring[s[1]], tail |-> s[1], next |-> [ring EXCEPT ![s[1]] = NULL]]
  BY <1>1 DEF rotate
<1> HIDE DEF ring, r, t
<1>6. /\ r.head = ring[s[1]] /\ r.tail = s[1] /\ r.next[s[1]] = NULL
      /\ r \in Queue
  <2>1. s[1] \in Proc  BY <1>0
  <2>. QED  BY <1>4, <1>5, <2>1 DEF Queue
<1>7. ASSUME NEW i \in 1..n-1 PROVE r.next[t[i]] = t[i+1]
  <2>1. t[i] = s[i+1] /\ i+1 \in 1..n /\ s[i+1] # s[1] /\ s[i+1] \in Proc
    BY <1>0, <1>2
  <2>2. r.next[t[i]] = ring[s[i+1]]
    BY <1>4, <1>5, <2>1
  <2>3. CASE i+1 = n
    BY <1>2, <1>4, <2>2, <2>3
  <2>4. CASE i+1 # n
    <3>1. i+1 \in 1..n-1  BY <1>0, <2>4
    <3>. QED  BY <1>2, <1>4, <2>2, <3>1
  <2>. QED  BY <2>3, <2>4
<1>8. r.head = t[1]
  <2>1. CASE n = 1  BY <1>2, <1>4, <1>6, <2>1
  <2>2. CASE n > 1
    <3>1. 1 \in 1..n-1  BY <1>0, <2>2
    <3>. QED  BY <1>2, <1>4, <1>6, <3>1
  <2>3. n \in Nat /\ n >= 1  BY <1>0
  <2> HIDE DEF n
  <2>4. n = 1 \/ n > 1  BY <2>3
  <2>. QED  BY <2>1, <2>2, <2>4
<1>9. Linked(r, t)
  <2>1. t # <<>> /\ t[Len(t)] = s[1]  BY <1>0, <1>2
  <2>. QED  BY <1>2, <1>6, <1>7, <1>8, <2>1 DEF Linked
<1>. QED  BY <1>3, <1>6, <1>9 DEF r, t

(***************************************************************************)
(* proc_block unlinks a queued process and nothing else, be it the head,   *)
(* the tail, both, or in between.                                          *)
(***************************************************************************)
THEOREM BlockUnlinks ==
  ASSUME NEW q \in Queue, NEW s \in Orders, Linked(q, s),
         NEW k \in 1..Len(s)
  PROVE  /\ proc_block(q, s[k]) \in Queue
         /\ \E t \in Orders : /\ Linked(proc_block(q, s[k]), t)
                              /\ ToSet(t) = ToSet(s) \ {s[k]}
                              /\ k # 1 => t # <<>> /\ t[1] = s[1]
                              /\ k = 1 => t = Tail(s)
<1> DEFINE n == Len(s)
           t == [i \in 1..n-1 |-> IF i < k THEN s[i] ELSE s[i+1]]
           r == proc_block(q, s[k])
<1>0. /\ s \in Seq(Proc \ {IDLE_TASK}) /\ n \in Nat /\ n >= 1
      /\ \A i, j \in 1..n : s[i] = s[j] => i = j
      /\ \A i \in 1..n : s[i] \in Proc \ {IDLE_TASK}
      /\ \A x \in Proc : x # NULL
      /\ DOMAIN s = 1..n
  BY OrdersAreSeqs DEF Proc, NULL
<1>1. q.head = s[1] /\ q.tail = s[n] /\ q.next[s[n]] = NULL
  BY <1>0 DEF Linked
<1>2. /\ t \in Seq(Proc \ {IDLE_TASK}) /\ Len(t) = n-1 /\ DOMAIN t = 1..n-1
      /\ \A i \in 1..n-1 : t[i] = IF i < k THEN s[i] ELSE s[i+1]
  <2>1. n-1 \in Nat /\ t \in [1..n-1 -> Proc \ {IDLE_TASK}]  BY <1>0
  <2>2. \A i \in 1..n-1 : t[i] = IF i < k THEN s[i] ELSE s[i+1]  OBVIOUS
  <2> HIDE DEF t, n
  <2>. QED  BY <2>1, <2>2, FcnIsSeq
<1> HIDE DEF t
<1>3. t \in Orders
  <2>1. \A i, j \in 1..Len(t) : t[i] = t[j] => i = j
    BY <1>0, <1>2
  <2>. QED  BY <1>2, <2>1, SeqsAreOrders
<1>4. ToSet(t) = ToSet(s) \ {s[k]}
  <2>1. ASSUME NEW x \in ToSet(t) PROVE x \in ToSet(s) \ {s[k]}
    BY <1>0, <1>2 DEF ToSet
  <2>2. ASSUME NEW x \in ToSet(s), x # s[k] PROVE x \in ToSet(t)
    <3>1. PICK i \in 1..n : x = s[i]  BY <1>0 DEF ToSet
    <3>2. CASE i < k
      <4>1. i \in 1..n-1 /\ t[i] = s[i]  BY <1>0, <1>2, <3>2
      <4>. QED  BY <1>2, <3>1, <4>1 DEF ToSet
    <3>3. CASE i > k
      <4>1. i-1 \in 1..n-1 /\ t[i-1] = s[i]  BY <1>0, <1>2, <3>3
      <4>. QED  BY <1>2, <3>1, <4>1 DEF ToSet
    <3>. QED  BY <2>2, <3>1, <3>2, <3>3
  <2>. QED  BY <2>1, <2>2
<1>5. CASE k = 1
  <2>1. r = [q EXCEPT !.head = q.next[s[1]]]
    BY <1>0, <1>1, <1>5 DEF proc_block
  <2>2. r \in Queue /\ r.head = q.next[s[1]] /\ r.tail = q.tail /\ r.next = q.next
    BY <1>0, <2>1 DEF Queue
  <2>3. \A i \in 1..n-1 : t[i] = s[i+1] /\ q.next[s[i]] = s[i+1]
    BY <1>0, <1>2, <1>5 DEF Linked
  <2>4. t = Tail(s)
    <3>1. /\ Tail(s) \in Seq(Proc \ {IDLE_TASK}) /\ Len(Tail(s)) = n-1
          /\ \A i \in 1..n-1 : Tail(s)[i] = s[i+1]
      BY <1>0
    <3>. QED  BY <1>2, <2>3, <3>1
  <2>5. Linked(r, t)
    <3>1. CASE n = 1
      BY <1>1, <1>2, <2>2, <3>1 DEF Linked
    <3>2. CASE n > 1
      <4>1. t # <<>> /\ t[1] = s[2] /\ q.next[s[1]] = s[2] /\ t[n-1] = s[n]
        BY <1>0, <1>2, <2>3, <3>2
      <4>2. ASSUME NEW i \in 1..(n-1)-1 PROVE q.next[t[i]] = t[i+1]
        <5>1. i \in 1..n-1 /\ i+1 \in 1..n-1  BY <1>0
        <5>. QED  BY <2>3, <5>1
      <4>. QED  BY <1>1, <1>2, <2>2, <4>1, <4>2 DEF Linked
    <3>. QED  BY <1>0, <3>1, <3>2
  <2>. QED  BY <1>3, <1>4, <1>5, <2>2, <2>4, <2>5
<1>6. CASE k # 1
  <2> DEFINE hp == CHOOSE h \in Members(q) : q.next[h] = s[k]
  <2>1. Members(q) = ToSet(s)  BY OrderIs
  <2>2. k-1 \in 1..n-1 /\ k-1 \in 1..n /\ q.next[s[k-1]] = s[k]
    BY <1>0, <1>6 DEF Linked
  <2>3. hp = s[k-1]
    <3>1. s[k-1] \in Members(q)  BY <2>1, <2>2, <1>0 DEF ToSet
    <3>2. ASSUME NEW h \in Members(q), q.next[h] = s[k] PROVE h = s[k-1]
      <4>1. PICK i \in 1..n : h = s[i]  BY <1>0, <2>1, SMTT(20) DEF ToSet
      <4>2. i # n  BY <1>0, <1>1, <3>2, <4>1
      <4>a. n \in Nat  BY <1>0
      <4>b. i \in 1..n-1 /\ i+1 \in 1..n  BY <4>a, <4>2
      <4>3. s[i+1] = s[k]  BY <3>2, <4>1, <4>b DEF Linked
      <4>4. i+1 = k  BY <1>0, <4>b, <4>3
      <4>. QED  BY <1>0, <4>1, <4>4
    <3>. QED  BY <2>2, <3>1, <3>2
  <2>4. s[k] \in Members(q) /\ q.head # s[k]
    BY <1>0, <1>1, <1>6, <2>1 DEF ToSet
  <2>5. r = [q EXCEPT !.next[s[k-1]] = q.next[s[k]],
                      !.tail = IF q.tail = s[k] THEN s[k-1] ELSE q.tail]
    BY <1>0, <2>3, <2>4 DEF proc_block
  <2>6. /\ r \in Queue /\ r.head = q.head
        /\ r.tail = IF q.tail = s[k] THEN s[k-1] ELSE q.tail
        /\ r.next = [q.next EXCEPT ![s[k-1]] = q.next[s[k]]]
    <3>1. s[k] \in Proc /\ s[k-1] \in Proc  BY <1>0, <2>2
    <3> HIDE DEF r
    <3>. QED  BY <2>5, <3>1 DEF Queue
  <2>7. t # <<>> /\ t[1] = s[1] /\ n >= 2
    BY <1>0, <1>2, <1>6
  <2>8. r.tail = t[n-1] /\ r.next[t[n-1]] = NULL
    <3>1. CASE k = n
      <4>1. t[n-1] = s[n-1]  BY <1>0, <1>2, <2>7, <3>1
      <4>. QED  BY <1>0, <1>1, <2>2, <2>6, <3>1, <4>1 DEF Queue
    <3>2. CASE k < n
      <4>a. n \in Nat /\ n-1 \in 1..n-1 /\ ~(n-1 < k) /\ (n-1)+1 = n /\ n \in 1..n
        BY <1>0, <2>7, <3>2
      <4>b. s[n] # s[k] /\ s[n] # s[k-1]  BY <1>0, <2>2, <3>2, <4>a
      <4>c. t[n-1] = s[(n-1)+1]  BY <1>2, <4>a
      <4>1. t[n-1] = s[n] /\ s[n] # s[k] /\ s[n] # s[k-1]
        BY <4>a, <4>b, <4>c
      <4>. QED  BY <1>0, <1>1, <2>6, <4>1 DEF Queue
    <3>3. n \in Nat /\ k \in 1..n  BY <1>0
    <3>4. k = n \/ k < n  BY <3>3
    <3>. QED  BY <3>1, <3>2, <3>4
  <2>9. ASSUME NEW i \in 1..(n-1)-1 PROVE r.next[t[i]] = t[i+1]
    <3>0. i \in 1..n-1 /\ i+1 \in 1..n-1 /\ i \in 1..n /\ i+1 \in 1..n
      BY <1>0
    <3>1. CASE i < k-1
      <4>1. t[i] = s[i] /\ t[i+1] = s[i+1] /\ s[i] # s[k-1] /\ q.next[s[i]] = s[i+1]
        BY <1>0, <1>2, <2>2, <3>0, <3>1 DEF Linked
      <4>. QED  BY <1>0, <2>6, <3>0, <4>1 DEF Queue
    <3>2. CASE i = k-1
      <4>1. t[i] = s[k-1] /\ t[i+1] = s[k+1] /\ k \in 1..n-1
        BY <1>0, <1>2, <2>2, <3>0, <3>2
      <4>2. q.next[s[k]] = s[k+1]  BY <4>1 DEF Linked
      <4>. QED  BY <1>0, <2>2, <2>6, <4>1, <4>2 DEF Queue
    <3>3. CASE i >= k
      <4>1. t[i] = s[i+1] /\ t[i+1] = s[(i+1)+1] /\ s[i+1] # s[k-1]
        BY <1>0, <1>2, <2>2, <3>0, <3>3
      <4>2. q.next[s[i+1]] = s[(i+1)+1]  BY <3>0 DEF Linked
      <4>. QED  BY <1>0, <2>6, <3>0, <4>1, <4>2 DEF Queue
    <3>. QED  BY <1>0, <3>1, <3>2, <3>3
  <2>10. Linked(r, t)
    <3> HIDE DEF r
    <3>. QED  BY <1>1, <1>2, <2>6, <2>7, <2>8, <2>9 DEF Linked
  <2>. QED  BY <1>3, <1>4, <1>6, <2>6, <2>7, <2>10
<1>. QED  BY <1>5, <1>6
=============================================================================
