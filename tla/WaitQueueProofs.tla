-------------------------- MODULE WaitQueueProofs ---------------------------
(***************************************************************************)
(* What the operations on a queue of processes without repetition do to    *)
(* the set of processes it holds.                                          *)
(***************************************************************************)
EXTENDS WaitQueue, SequenceTheorems, TLAPS

LEMMA ConsAdds ==
  ASSUME NEW S, NEW q \in Seq(S), NEW p \in S, IsInjective(q), p \notin ToSet(q)
  PROVE  /\ add_wait_queue(q, p) \in Seq(S)
         /\ IsInjective(add_wait_queue(q, p))
         /\ ToSet(add_wait_queue(q, p)) = ToSet(q) \cup {p}
<1> DEFINE t == <<p>> \o q
<1>1. /\ t \in Seq(S) /\ DOMAIN t = 1..Len(q)+1 /\ t[1] = p
      /\ \A i \in 1..Len(q) : t[i+1] = q[i]
  OBVIOUS
<1>2. DOMAIN q = 1..Len(q) /\ Len(q) \in Nat
  OBVIOUS
<1>3. t = add_wait_queue(q, p)
  BY DEF add_wait_queue
<1> HIDE DEF t
<1>4. \A i \in 1..Len(q)+1 : i = 1 \/ (i-1 \in 1..Len(q) /\ t[i] = q[i-1])
  BY <1>1, <1>2
<1>5. IsInjective(t)
  <2>1. \A i, j \in 1..Len(q) : q[i] = q[j] => i = j
    BY <1>2 DEF IsInjective
  <2>2. \A i \in 1..Len(q) : q[i] # p
    BY <1>2 DEF ToSet
  <2>3. ASSUME NEW i \in 1..Len(q)+1, NEW j \in 1..Len(q)+1, t[i] = t[j] PROVE i = j
    BY <1>1, <1>2, <1>4, <2>1, <2>2, <2>3
  <2>. QED  BY <1>1, <2>3 DEF IsInjective
<1>6. ToSet(t) = ToSet(q) \cup {p}
  <2>1. ASSUME NEW x \in ToSet(t) PROVE x \in ToSet(q) \cup {p}
    BY <1>1, <1>2, <1>4 DEF ToSet
  <2>2. ASSUME NEW x \in ToSet(q) PROVE x \in ToSet(t)
    <3>1. PICK i \in 1..Len(q) : x = q[i]  BY <1>2 DEF ToSet
    <3>2. i+1 \in 1..Len(q)+1  BY <1>2
    <3>. QED  BY <1>1, <3>1, <3>2 DEF ToSet
  <2>3. p \in ToSet(t)
    <3>1. 1 \in 1..Len(q)+1  BY <1>2
    <3>. QED  BY <1>1, <3>1 DEF ToSet
  <2>. QED  BY <2>1, <2>2, <2>3
<1>. QED  BY <1>1, <1>3, <1>5, <1>6

LEMMA AppendAdds ==
  ASSUME NEW S, NEW q \in Seq(S), NEW p \in S, IsInjective(q), p \notin ToSet(q)
  PROVE  /\ Append(q, p) \in Seq(S) /\ Len(Append(q, p)) = Len(q) + 1
         /\ IsInjective(Append(q, p))
         /\ ToSet(Append(q, p)) = ToSet(q) \cup {p}
<1> DEFINE t == Append(q, p)
<1>1. /\ t \in Seq(S) /\ DOMAIN t = 1..Len(q)+1 /\ t[Len(q)+1] = p
      /\ \A i \in 1..Len(q) : t[i] = q[i]
      /\ Len(t) = Len(q)+1
  OBVIOUS
<1>2. DOMAIN q = 1..Len(q) /\ Len(q) \in Nat
  OBVIOUS
<1> HIDE DEF t
<1>3. \A i \in 1..Len(q)+1 : i = Len(q)+1 \/ i \in 1..Len(q)
  BY <1>2
<1>4. IsInjective(t)
  BY <1>1, <1>2, <1>3 DEF IsInjective, ToSet
<1>5. ToSet(t) = ToSet(q) \cup {p}
  <2>1. ASSUME NEW x \in ToSet(t) PROVE x \in ToSet(q) \cup {p}
    BY <1>1, <1>2, <1>3 DEF ToSet
  <2>2. ASSUME NEW x \in ToSet(q) PROVE x \in ToSet(t)
    <3>1. PICK i \in 1..Len(q) : x = q[i]  BY <1>2 DEF ToSet
    <3>2. i \in 1..Len(q)+1  BY <1>2
    <3>. QED  BY <1>1, <3>1, <3>2 DEF ToSet
  <2>3. p \in ToSet(t)
    <3>1. Len(q)+1 \in 1..Len(q)+1  BY <1>2
    <3>. QED  BY <1>1, <3>1 DEF ToSet
  <2>. QED  BY <2>1, <2>2, <2>3
<1>. QED  BY <1>1, <1>4, <1>5 DEF t

LEMMA TailDrops ==
  ASSUME NEW S, NEW q \in Seq(S), q # <<>>
  PROVE  /\ Tail(q) \in Seq(S) /\ Head(q) \in S /\ Head(q) \in ToSet(q)
         /\ Len(Tail(q)) = Len(q) - 1
         /\ ToSet(Tail(q)) \subseteq ToSet(q)
         /\ IsInjective(q) => /\ IsInjective(Tail(q))
                              /\ ToSet(Tail(q)) = ToSet(q) \ {Head(q)}
<1> DEFINE t == Tail(q)
           n == Len(q)
<1>1. /\ t \in Seq(S) /\ DOMAIN t = 1..n-1 /\ Head(q) = q[1] /\ Len(t) = n-1
      /\ \A i \in 1..n-1 : t[i] = q[i+1]
  OBVIOUS
<1>2. DOMAIN q = 1..n /\ n \in Nat /\ n >= 1 /\ q[1] \in S
  OBVIOUS
<1> HIDE DEF t, n
<1>3. Head(q) \in S /\ Head(q) \in ToSet(q)
  <2>1. 1 \in 1..n  BY <1>2
  <2>. QED  BY <1>1, <1>2, <2>1 DEF ToSet
<1>4. ToSet(t) \subseteq ToSet(q)
  <2> SUFFICES ASSUME NEW x \in ToSet(t) PROVE x \in ToSet(q)
    OBVIOUS
  <2>1. PICK i \in 1..n-1 : x = t[i]  BY <1>1 DEF ToSet
  <2>2. i+1 \in 1..n  BY <1>2
  <2>. QED  BY <1>1, <1>2, <2>1, <2>2 DEF ToSet
<1>5. ASSUME IsInjective(q) PROVE IsInjective(t)
  <2>1. \A i, j \in 1..n : q[i] = q[j] => i = j
    BY <1>2, <1>5 DEF IsInjective
  <2>2. ASSUME NEW i \in 1..n-1, NEW j \in 1..n-1, t[i] = t[j] PROVE i = j
    <3>1. i+1 \in 1..n /\ j+1 \in 1..n /\ q[i+1] = q[j+1]  BY <1>1, <1>2, <2>2
    <3>2. i+1 = j+1  BY <2>1, <3>1
    <3>. QED  BY <3>2
  <2>. QED  BY <1>1, <2>2 DEF IsInjective
<1>6. ASSUME IsInjective(q) PROVE ToSet(t) = ToSet(q) \ {Head(q)}
  <2>0. \A i, j \in 1..n : q[i] = q[j] => i = j
    BY <1>2, <1>6 DEF IsInjective
  <2>1. ASSUME NEW x \in ToSet(t) PROVE x # q[1]
    <3>1. PICK i \in 1..n-1 : x = t[i]  BY <1>1 DEF ToSet
    <3>2. i+1 \in 1..n /\ 1 \in 1..n /\ i+1 # 1 /\ x = q[i+1]  BY <1>1, <1>2, <3>1
    <3>. QED  BY <2>0, <3>2
  <2>2. ASSUME NEW x \in ToSet(q), x # q[1] PROVE x \in ToSet(t)
    <3>1. PICK i \in 1..n : x = q[i]  BY <1>2 DEF ToSet
    <3>2. i-1 \in 1..n-1 /\ (i-1)+1 = i  BY <1>2, <2>2, <3>1
    <3>3. t[i-1] = q[i]  BY <1>1, <3>2
    <3>. QED  BY <1>1, <3>1, <3>2, <3>3 DEF ToSet
  <2>. QED  BY <1>1, <1>4, <2>1, <2>2
<1>. QED  BY <1>1, <1>3, <1>4, <1>5, <1>6 DEF t, n

LEMMA RemoveDrops ==
  ASSUME NEW S, NEW q \in Seq(S), NEW p \in ToSet(q), IsInjective(q)
  PROVE  /\ remove_wait_queue(q, p) \in Seq(S)
         /\ IsInjective(remove_wait_queue(q, p))
         /\ ToSet(remove_wait_queue(q, p)) = ToSet(q) \ {p}
<1> DEFINE n == Len(q)
           k == CHOOSE i \in DOMAIN q : q[i] = p
           t == SubSeq(q, 1, k-1) \o SubSeq(q, k+1, n)
<1>1. remove_wait_queue(q, p) = t
  BY DEF remove_wait_queue, RemoveAt
<1>2. DOMAIN q = 1..n /\ n \in Nat
  OBVIOUS
<1>3. k \in 1..n /\ q[k] = p
  BY <1>2 DEF ToSet
<1> HIDE DEF k
<1>4. /\ t \in Seq(S) /\ Len(t) = n-1 /\ DOMAIN t = 1..n-1
      /\ \A i \in 1..n-1 : t[i] = IF i < k THEN q[i] ELSE q[i+1]
  <2> DEFINE a == SubSeq(q, 1, k-1)
             b == SubSeq(q, k+1, n)
  <2>0. n \in Nat /\ k \in 1..n /\ \A i \in 1..n : q[i] \in S
    BY <1>2, <1>3
  <2> HIDE DEF n
  <2>1. a \in Seq(S) /\ Len(a) = k-1 /\ \A i \in 1..k-1 : a[i] = q[i]
    <3>1. 1 \in Int /\ k-1 \in Int /\ \A i \in 1..k-1 : q[i] \in S  BY <2>0
    <3>2. /\ a \in Seq(S) /\ Len(a) = IF 1 <= k-1 THEN (k-1)-1+1 ELSE 0
          /\ \A i \in 1..(k-1)-1+1 : a[i] = q[1+i-1]
      BY <3>1, SubSeqProperties
    <3>. QED  BY <2>0, <3>2
  <2>2. b \in Seq(S) /\ Len(b) = n-k /\ \A i \in 1..n-k : b[i] = q[k+i]
    <3>1. k+1 \in Int /\ n \in Int /\ \A i \in k+1..n : q[i] \in S  BY <2>0
    <3>2. /\ b \in Seq(S) /\ Len(b) = IF k+1 <= n THEN n-(k+1)+1 ELSE 0
          /\ \A i \in 1..n-(k+1)+1 : b[i] = q[(k+1)+i-1]
      BY <3>1, SubSeqProperties
    <3>. QED  BY <2>0, <3>2
  <2> HIDE DEF a, b
  <2>3. a \o b \in Seq(S) /\ Len(a \o b) = n-1
    <3>1. a \o b \in Seq(S) /\ Len(a \o b) = Len(a) + Len(b)
      BY <2>1, <2>2, ConcatProperties
    <3>. QED  BY <2>0, <2>1, <2>2, <3>1
  <2>5. \A i \in 1..Len(a)+Len(b) :
          (a \o b)[i] = IF i <= Len(a) THEN a[i] ELSE b[i-Len(a)]
    BY <2>1, <2>2, ConcatProperties
  <2>4. ASSUME NEW i \in 1..n-1
        PROVE  (a \o b)[i] = IF i < k THEN q[i] ELSE q[i+1]
    <3>1. CASE i < k
      <4>1. i \in 1..k-1 /\ i <= Len(a) /\ i \in 1..Len(a)+Len(b)
        BY <2>0, <2>1, <2>2, <3>1
      <4>2. (a \o b)[i] = a[i]  BY <2>5, <4>1
      <4>. QED  BY <2>1, <3>1, <4>1, <4>2
    <3>2. CASE ~(i < k)
      <4>1. i-(k-1) \in 1..n-k /\ ~(i <= Len(a)) /\ k+(i-(k-1)) = i+1
            /\ i \in 1..Len(a)+Len(b)
        BY <2>0, <2>1, <2>2, <3>2
      <4>2. (a \o b)[i] = b[i-Len(a)]  BY <2>5, <4>1
      <4>. QED  BY <2>1, <2>2, <3>2, <4>1, <4>2
    <3>. QED  BY <3>1, <3>2
  <2>. QED  BY <2>3, <2>4 DEF a, b
<1> HIDE DEF t, n
<1>5. \A i, j \in 1..n : q[i] = q[j] => i = j
  BY <1>2 DEF IsInjective
<1>6. IsInjective(t)
  <2> SUFFICES ASSUME NEW i \in 1..n-1, NEW j \in 1..n-1, t[i] = t[j] PROVE i = j
    BY <1>4 DEF IsInjective
  <2>1. i \in 1..n /\ i+1 \in 1..n /\ j \in 1..n /\ j+1 \in 1..n  BY <1>2
  <2>. QED  BY <1>2, <1>3, <1>4, <1>5, <2>1
<1>7. ToSet(t) = ToSet(q) \ {p}
  <2>1. ASSUME NEW x \in ToSet(t) PROVE x \in ToSet(q) \ {p}
    <3>1. PICK i \in 1..n-1 : x = t[i]  BY <1>4 DEF ToSet
    <3>2. i \in 1..n /\ i+1 \in 1..n  BY <1>2
    <3>3. PICK j \in 1..n : j # k /\ x = q[j]  BY <1>2, <1>3, <1>4, <3>1, <3>2
    <3>. QED  BY <1>2, <1>3, <1>5, <3>3 DEF ToSet
  <2>2. ASSUME NEW x \in ToSet(q), x # p PROVE x \in ToSet(t)
    <3>1. PICK i \in 1..n : x = q[i]  BY <1>2 DEF ToSet
    <3>2. CASE i < k
      <4>1. i \in 1..n-1 /\ t[i] = q[i]  BY <1>2, <1>3, <1>4, <3>2
      <4>. QED  BY <1>4, <3>1, <4>1 DEF ToSet
    <3>3. CASE i > k
      <4>1. i-1 \in 1..n-1 /\ ~(i-1 < k) /\ (i-1)+1 = i  BY <1>2, <1>3, <3>3
      <4>2. t[i-1] = q[i]  BY <1>4, <4>1
      <4>. QED  BY <1>4, <3>1, <4>1, <4>2 DEF ToSet
    <3>4. i < k \/ i > k  BY <1>2, <1>3, <2>2, <3>1
    <3>. QED  BY <3>2, <3>3, <3>4
  <2>. QED  BY <2>1, <2>2
<1>. QED  BY <1>1, <1>4, <1>6, <1>7
=============================================================================
