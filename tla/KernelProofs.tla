---------------------------- MODULE KernelProofs ----------------------------
(***************************************************************************)
(* The safety invariants of Kernel, proved for every number of processes,  *)
(* every size of the keyboard and disk rings and every workload; which     *)
(* steps may take a process off the run queue; and that the keyboard       *)
(* delivers what was struck.                                               *)
(***************************************************************************)
EXTENDS Keyboard, RunQueueProofs, WaitQueueProofs

-----------------------------------------------------------------------------
(***************************************************************************)
(* The run queue operations again, by what they do to the members.         *)
(***************************************************************************)
LEMMA HeadIsMember ==
  ASSUME NEW q \in Queue, WellLinked(q)
  PROVE  /\ Members(q) \subseteq Proc \ {IDLE_TASK}
         /\ q.head # NULL => q.head \in Members(q)
<1>1. PICK s \in Orders : Linked(q, s)  BY DEF WellLinked
<1>2. s \in Seq(Proc \ {IDLE_TASK}) /\ Members(q) = ToSet(s)
  BY <1>1, OrdersAreSeqs, OrderIs
<1>3. DOMAIN s = 1..Len(s)  BY <1>2
<1>. QED  BY <1>1, <1>2, <1>3 DEF Linked, ToSet

LEMMA ReadyEffect ==
  ASSUME NEW q \in Queue, WellLinked(q), NEW rp \in Proc \ {IDLE_TASK}
  PROVE  /\ proc_ready(q, rp) \in Queue
         /\ WellLinked(proc_ready(q, rp))
         /\ Members(proc_ready(q, rp)) \subseteq Members(q) \cup {rp}
         /\ q.head # NULL => proc_ready(q, rp).head = q.head
<1> DEFINE r == proc_ready(q, rp)
<1>1. PICK s \in Orders : Linked(q, s)  BY DEF WellLinked
<1>2. s \in Seq(Proc \ {IDLE_TASK}) /\ Members(q) = ToSet(s)
  BY <1>1, OrdersAreSeqs, OrderIs
<1>3. DOMAIN s = 1..Len(s)  BY <1>2
<1>4. rp # NULL /\ rp # IDLE_TASK  BY DEF Proc, NULL
<1>5. q.head # NULL => r.head = q.head
  BY <1>4 DEF proc_ready
<1>6. CASE rp \notin ToSet(s)
  <2>1. r \in Queue /\ Append(s, rp) \in Orders /\ Linked(r, Append(s, rp))
    BY <1>1, <1>6, ReadyAppends
  <2>2. Members(r) = ToSet(Append(s, rp))
    BY <2>1, OrderIs
  <2>3. ToSet(Append(s, rp)) \subseteq ToSet(s) \cup {rp}
    BY <1>2, <1>3 DEF ToSet
  <2>. QED  BY <1>2, <1>5, <2>1, <2>2, <2>3 DEF WellLinked
<1>7. CASE rp \in ToSet(s)
  <2>1. PICK k \in 1..Len(s) : rp = s[k]
    BY <1>3, <1>7 DEF ToSet
  <2>2. r \in Queue /\ SubSeq(s, 1, k) \in Orders /\ Linked(r, SubSeq(s, 1, k))
    BY <1>1, <2>1, ReadyCuts
  <2>3. Members(r) = ToSet(SubSeq(s, 1, k))
    BY <2>2, OrderIs
  <2>4. ToSet(SubSeq(s, 1, k)) \subseteq ToSet(s)
    <3>1. /\ DOMAIN SubSeq(s, 1, k) = 1..k
          /\ \A i \in 1..k : SubSeq(s, 1, k)[i] = s[i] /\ i \in 1..Len(s)
      BY <1>2
    <3>. QED  BY <1>3, <3>1 DEF ToSet
  <2>. QED  BY <1>2, <1>5, <2>2, <2>3, <2>4 DEF WellLinked
<1>. QED  BY <1>6, <1>7

LEMMA RotateEffect ==
  ASSUME NEW q \in Queue, WellLinked(q), q.head # NULL
  PROVE  /\ rotate(q) \in Queue
         /\ WellLinked(rotate(q))
         /\ Members(rotate(q)) = Members(q)
<1>1. PICK s \in Orders : Linked(q, s)  BY DEF WellLinked
<1>2. s \in Seq(Proc \ {IDLE_TASK}) /\ Members(q) = ToSet(s) /\ s # <<>>
  BY <1>1, OrdersAreSeqs, OrderIs DEF Linked
<1> DEFINE t == Append(Tail(s), s[1])
<1>3. rotate(q) \in Queue /\ t \in Orders /\ Linked(rotate(q), t)
  BY <1>1, <1>2, RotateRotates
<1>4. Members(rotate(q)) = ToSet(t)
  BY <1>3, OrderIs
<1>5. ToSet(t) = ToSet(s)
  <2> DEFINE n == Len(s)
  <2>1. /\ n \in Nat /\ n >= 1 /\ DOMAIN s = 1..n /\ DOMAIN t = 1..n
        /\ t[n] = s[1] /\ \A i \in 1..n-1 : t[i] = s[i+1]
    BY <1>2
  <2> HIDE DEF t, n
  <2>2. ASSUME NEW x \in ToSet(t) PROVE x \in ToSet(s)
    <3>1. PICK i \in 1..n : x = t[i]  BY <2>1, <2>2 DEF ToSet
    <3>2. CASE i = n
      <4>1. 1 \in 1..n  BY <2>1
      <4>. QED  BY <2>1, <3>1, <3>2, <4>1 DEF ToSet
    <3>3. CASE i < n
      <4>1. i \in 1..n-1 /\ i+1 \in 1..n  BY <2>1, <3>3
      <4>. QED  BY <2>1, <3>1, <4>1 DEF ToSet
    <3>. QED  BY <2>1, <3>2, <3>3
  <2>3. ASSUME NEW x \in ToSet(s) PROVE x \in ToSet(t)
    <3>1. PICK i \in 1..n : x = s[i]  BY <2>1, <2>3 DEF ToSet
    <3>2. CASE i = 1
      <4>1. n \in 1..n  BY <2>1
      <4>. QED  BY <2>1, <3>1, <3>2, <4>1 DEF ToSet
    <3>3. CASE i > 1
      <4>1. i-1 \in 1..n-1 /\ i-1 \in 1..n /\ (i-1)+1 = i  BY <2>1, <3>3
      <4>2. t[i-1] = s[i]  BY <2>1, <4>1
      <4>. QED  BY <2>1, <3>1, <4>1, <4>2 DEF ToSet
    <3>. QED  BY <2>1, <3>2, <3>3
  <2>. QED  BY <2>2, <2>3
<1>. QED  BY <1>2, <1>3, <1>4, <1>5 DEF WellLinked

LEMMA BlockEffect ==
  ASSUME NEW q \in Queue, WellLinked(q), NEW bp \in Members(q) \cup {IDLE_TASK}
  PROVE  /\ proc_block(q, bp) \in Queue
         /\ WellLinked(proc_block(q, bp))
         /\ Members(proc_block(q, bp)) = Members(q) \ {bp}
<1>1. PICK s \in Orders : Linked(q, s)  BY DEF WellLinked
<1>2. s \in Seq(Proc \ {IDLE_TASK}) /\ Members(q) = ToSet(s)
  BY <1>1, OrdersAreSeqs, OrderIs
<1>3. DOMAIN s = 1..Len(s)  BY <1>2
<1>4. CASE bp = IDLE_TASK
  <2>1. proc_block(q, bp) = q  BY <1>4 DEF proc_block
  <2>2. IDLE_TASK \notin ToSet(s)  BY <1>2, <1>3 DEF ToSet
  <2>. QED  BY <1>2, <1>4, <2>1, <2>2
<1>5. CASE bp \in ToSet(s)
  <2>1. PICK k \in 1..Len(s) : bp = s[k]  BY <1>3, <1>5 DEF ToSet
  <2>2. proc_block(q, bp) \in Queue
        /\ \E t \in Orders : Linked(proc_block(q, bp), t) /\ ToSet(t) = ToSet(s) \ {bp}
    BY <1>1, <2>1, BlockUnlinks
  <2>. QED  BY <1>2, <2>2, OrderIs DEF WellLinked
<1>. QED  BY <1>2, <1>4, <1>5

-----------------------------------------------------------------------------
(***************************************************************************)
(* The inductive invariant: every safety property at once, since each      *)
(* action needs several of them.  That proc_block's walk finds `current'   *)
(* rests on CurrentIsHead; that the interrupt of a request readies a       *)
(* process that is not queued on ReadWaitsForData and on the match of      *)
(* requests and sleepers; that copying a father over a free slot leaves    *)
(* the list alone on FreeSlotsInert; and all of them on the kernel not     *)
(* being preempted.                                                        *)
(***************************************************************************)
Inv ==
  /\ TypeOK /\ RunQueueOK /\ CurrentIsHead /\ SleepersQueued
  /\ RequestsMatchSleepers /\ DriveServesQueue /\ ReadWaitsForData
  /\ FreeSlotsInert /\ KernelNotPreempted

LEMMA MembersType ==
  ASSUME Inv
  PROVE  IDLE_TASK \in Proc /\ Members(rq) \subseteq Proc \ {IDLE_TASK}
BY HeadIsMember, NRTaskAssumption DEF Inv, Proc, IDLE_TASK, TypeOK, RunQueueOK

(***************************************************************************)
(* get_free_proc_struct finds a free slot if there is one, and writing the *)
(* link of a process that is not queued leaves the queue as it is.         *)
(***************************************************************************)
LEMMA LeastSlot ==
  FreeSlots # {} => \E p \in FreeSlots : \A o \in FreeSlots : p <= o
<1>1. FreeSlots \in SUBSET Nat
  BY NRTaskAssumption DEF FreeSlots, Proc
<1>. QED  BY <1>1, LeastNat

LEMMA RelinkUnqueued ==
  ASSUME NEW q \in Queue, WellLinked(q), NEW p \in Proc, p \notin Members(q),
         NEW n \in Proc \cup {NULL}
  PROVE  LET r == [q EXCEPT !.next[p] = n]
         IN  /\ r \in Queue /\ r.head = q.head
             /\ WellLinked(r) /\ Members(r) = Members(q)
<1> DEFINE r == [q EXCEPT !.next[p] = n]
<1>1. PICK s \in Orders : Linked(q, s)  BY DEF WellLinked
<1>2. s \in Seq(Proc \ {IDLE_TASK}) /\ Members(q) = ToSet(s)
  BY <1>1, OrdersAreSeqs, OrderIs
<1>3. \A i \in 1..Len(s) : s[i] # p /\ s[i] \in Proc
  BY <1>2 DEF ToSet
<1>4. /\ r \in Queue /\ r.head = q.head /\ r.tail = q.tail
      /\ r.next = [q.next EXCEPT ![p] = n]
  BY DEF Queue
<1>5. \A i \in 1..Len(s) : r.next[s[i]] = q.next[s[i]]
  BY <1>3, <1>4 DEF Queue
<1> HIDE DEF r
<1>6. Linked(r, s)
  <2>1. Len(s) \in Nat /\ (s # <<>> => Len(s) \in 1..Len(s))  BY <1>2
  <2>2. \A i \in 1..Len(s)-1 : i \in 1..Len(s)  BY <2>1
  <2>. QED  BY <1>1, <1>4, <1>5, <2>1, <2>2 DEF Linked
<1>7. Members(r) = ToSet(s)  BY <1>4, <1>6, OrderIs
<1>. QED  BY <1>2, <1>4, <1>6, <1>7 DEF WellLinked, r

LEMMA StatusTypes ==
  TASK_RUNNING \in 0..TASK_INTERRUPT /\ TASK_INTERRUPT \in 0..TASK_INTERRUPT
BY DEF TASK_RUNNING, TASK_INTERRUPT

LEMMA EmptyIsLenZero ==
  ASSUME NEW S, NEW q \in Seq(S)
  PROVE  Len(q) \in Nat /\ (q = <<>> <=> Len(q) = 0)
BY EmptySeq, LenProperties

(***************************************************************************)
(* System calls and returns change only the location of the current process. *)
(***************************************************************************)
LEMMA SystemCallStep == Inv /\ SystemCall => Inv'
<1> SUFFICES ASSUME Inv, SystemCall PROVE Inv'
  OBVIOUS
<1> USE DEF Inv
<1>0. IDLE_TASK \in Proc /\ Members(rq) \subseteq Proc \ {IDLE_TASK}
  BY MembersType
<1>1. TypeOK'
  BY <1>0, KernelAssumption DEF TypeOK, Locations, TASK_RUNNING, TASK_INTERRUPT,
       SystemCall, Running, Goto, procVars, kbVars, hdVars
<1>2. /\ RunQueueOK' /\ CurrentIsHead' /\ SleepersQueued' /\ RequestsMatchSleepers'
      /\ DriveServesQueue' /\ ReadWaitsForData' /\ FreeSlotsInert'
  BY <1>0, SMTT(20) DEF TypeOK, RunQueueOK, CurrentIsHead, SleepersQueued,
     RequestsMatchSleepers, DriveServesQueue, ReadWaitsForData,
     FreeSlotsInert, SystemCall, Running, Goto, procVars, kbVars, hdVars
<1>9. KernelNotPreempted'
  <2>1. current # IDLE_TASK /\ current \in Proc
    BY KernelAssumption DEF TypeOK, SystemCall
  <2>2. /\ pc[current] = "user" /\ UNCHANGED <<cpu, current, status, fork_child, kb_wait, waking>>
        /\ \E w \in {"kb_read", "do_read", "do_fork"} : pc' = [pc EXCEPT ![current] = w]
    BY DEF SystemCall, Running, Goto, kbVars
  <2>3. cpu = "run"
    BY DEF SystemCall, Running
  <2>. QED  BY <2>1, <2>2, <2>3 DEF TypeOK, KernelNotPreempted
<1>. QED  BY <1>1, <1>2, <1>9

(***************************************************************************)
(* RetWithSchedule changes the location and hands the CPU to schedule().   *)
(***************************************************************************)
LEMMA RetWithScheduleStep == Inv /\ RetWithSchedule => Inv'
<1> SUFFICES ASSUME Inv, RetWithSchedule PROVE Inv'
  OBVIOUS
<1> USE DEF Inv
<1>0. IDLE_TASK \in Proc /\ Members(rq) \subseteq Proc \ {IDLE_TASK}
  BY MembersType
<1>1. TypeOK'
  BY <1>0, KernelAssumption DEF TypeOK, Locations, TASK_RUNNING, TASK_INTERRUPT,
       RetWithSchedule, Running, Goto, procVars, kbVars, hdVars
<1>2. /\ RunQueueOK' /\ CurrentIsHead' /\ SleepersQueued' /\ RequestsMatchSleepers'
      /\ DriveServesQueue' /\ ReadWaitsForData' /\ FreeSlotsInert' /\ KernelNotPreempted'
  BY <1>0, SMTT(20) DEF TypeOK, RunQueueOK, CurrentIsHead, SleepersQueued,
     RequestsMatchSleepers, DriveServesQueue, ReadWaitsForData,
     FreeSlotsInert, KernelNotPreempted, RetWithSchedule, Running, Goto,
     procVars, kbVars, hdVars
<1>. QED  BY <1>1, <1>2

(***************************************************************************)
(* panic() loops for ever, which changes nothing.                          *)
(***************************************************************************)
LEMMA StutterStep == Inv /\ UNCHANGED vars => Inv'
<1> SUFFICES ASSUME Inv, UNCHANGED vars PROVE Inv'
  OBVIOUS
<1>1. /\ UNCHANGED <<cpu, intr, current, rq, flags, status, counter, need_resched>>
      /\ UNCHANGED <<pc, fork_child, kb_count, kb_wait, waking>>
      /\ UNCHANGED <<req, hd_wait, filled, dev>>
  BY DEF vars, procVars, kbVars, hdVars
<1>. QED  BY <1>1 DEF Inv, TypeOK, RunQueueOK, CurrentIsHead, SleepersQueued,
       RequestsMatchSleepers, DriveServesQueue, ReadWaitsForData, FreeSlotsInert,
       KernelNotPreempted

(***************************************************************************)
(* A reader that sleeps was on no wait queue before.                       *)
(***************************************************************************)
LEMMA KbReadStep == Inv /\ KbRead => Inv'
<1> SUFFICES ASSUME Inv, KbRead PROVE Inv'
  OBVIOUS
<1> USE DEF Inv
<1>0. IDLE_TASK \in Proc /\ Members(rq) \subseteq Proc \ {IDLE_TASK}
  BY MembersType
<1>a. current \in Proc /\ current \notin ToSet(kb_wait)
  BY DEF TypeOK, SleepersQueued, KbRead, Running
<1>b. /\ add_wait_queue(kb_wait, current) \in Seq(Proc)
      /\ IsInjective(add_wait_queue(kb_wait, current))
      /\ ToSet(add_wait_queue(kb_wait, current)) = ToSet(kb_wait) \cup {current}
  BY <1>a, ConsAdds DEF TypeOK, SleepersQueued
<1>1. TypeOK'
  <2>1. kb_count' \in 0..KB_BUF_SIZE
    BY KernelAssumption DEF TypeOK, KbRead
  <2>2. status' \in [Proc -> 0..TASK_INTERRUPT]
    BY StatusTypes DEF TypeOK, KbRead, sleep_on
  <2>3. pc' \in [Proc -> Locations]
    BY DEF TypeOK, KbRead, sleep_on, Goto, Locations
  <2>4. kb_wait' \in Seq(Proc)
    BY <1>b DEF TypeOK, KbRead
  <2>5. /\ cpu' \in {"run", "schedule", "wake_up", "ret_from_int"}
        /\ intr' \in BOOLEAN /\ (cpu' # "run" => ~intr')
    BY DEF TypeOK, KbRead, Running, sleep_on
  <2>. QED  BY <2>1, <2>2, <2>3, <2>4, <2>5 DEF TypeOK, KbRead, hdVars
<1>2. /\ RunQueueOK' /\ CurrentIsHead' /\ RequestsMatchSleepers'
      /\ DriveServesQueue' /\ ReadWaitsForData' /\ FreeSlotsInert'
  BY <1>0, SMTT(20) DEF TypeOK, RunQueueOK, CurrentIsHead, RequestsMatchSleepers,
     DriveServesQueue, ReadWaitsForData, FreeSlotsInert, KbRead, Running,
     Goto, sleep_on, procVars, kbVars, hdVars
<1>4. SleepersQueued'
  <2>1. hd_wait' = hd_wait /\ pc[current] = "kb_read"
    BY DEF KbRead, Running, hdVars
  <2>2. CASE kb_wait' = kb_wait /\ pc' = [pc EXCEPT ![current] = "sysret"]
    BY <1>a, <2>1, <2>2 DEF TypeOK, SleepersQueued
  <2>3. CASE /\ kb_wait' = add_wait_queue(kb_wait, current)
             /\ pc' = [pc EXCEPT ![current] = "kb_sleep"]
    BY <1>a, <1>b, <2>1, <2>3 DEF TypeOK, SleepersQueued
  <2>. QED  BY <2>2, <2>3 DEF KbRead, sleep_on, Goto
<1>9. KernelNotPreempted'
  BY <1>0, <1>a, <1>b DEF TypeOK, KernelNotPreempted,
       KbRead, Running, Goto, sleep_on, procVars, kbVars, hdVars
<1>. QED  BY <1>1, <1>2, <1>4, <1>9

(***************************************************************************)
(* Leaving sleep_on takes the node off the queue.                          *)
(***************************************************************************)
LEMMA KbWokenStep == Inv /\ KbWoken => Inv'
<1> SUFFICES ASSUME Inv, KbWoken PROVE Inv'
  OBVIOUS
<1> USE DEF Inv
<1>0. IDLE_TASK \in Proc /\ Members(rq) \subseteq Proc \ {IDLE_TASK}
  BY MembersType
<1>a. current \in ToSet(kb_wait) /\ waking = <<>>
  BY DEF TypeOK, SleepersQueued, KernelNotPreempted, KbWoken, Running
<1>b. /\ remove_wait_queue(kb_wait, current) \in Seq(Proc)
      /\ IsInjective(remove_wait_queue(kb_wait, current))
      /\ ToSet(remove_wait_queue(kb_wait, current)) = ToSet(kb_wait) \ {current}
  BY <1>a, RemoveDrops DEF TypeOK, SleepersQueued
<1>c. ToSet(waking) = {}
  BY <1>a DEF ToSet
<1>1. TypeOK'
  BY <1>0, <1>b, KernelAssumption DEF TypeOK, Locations, TASK_RUNNING, TASK_INTERRUPT,
       KbWoken, Running, Goto, procVars, kbVars, hdVars
<1>2. /\ RunQueueOK' /\ CurrentIsHead' /\ RequestsMatchSleepers'
      /\ DriveServesQueue' /\ ReadWaitsForData' /\ FreeSlotsInert'
  BY <1>0 DEF TypeOK, RunQueueOK, CurrentIsHead, RequestsMatchSleepers,
     DriveServesQueue, ReadWaitsForData, FreeSlotsInert, KbWoken, Running,
     Goto, procVars, kbVars, hdVars
<1>4. SleepersQueued'
  BY <1>0, <1>a, <1>b DEF TypeOK, SleepersQueued,
       KbWoken, Running, Goto, procVars, kbVars, hdVars
<1>9. KernelNotPreempted'
  BY <1>0, <1>a, <1>b, <1>c DEF TypeOK, KernelNotPreempted,
       KbWoken, Running, Goto, procVars, kbVars, hdVars
<1>. QED  BY <1>1, <1>2, <1>4, <1>9

(***************************************************************************)
(* A process that queues a request has none queued and sleeps nowhere.     *)
(***************************************************************************)
LEMMA DoReadStep == Inv /\ DoRead => Inv'
<1> SUFFICES ASSUME Inv, DoRead PROVE Inv'
  OBVIOUS
<1> USE DEF Inv
<1>0. IDLE_TASK \in Proc /\ Members(rq) \subseteq Proc \ {IDLE_TASK}
  BY MembersType
<1>a. current \in Proc /\ current \notin ToSet(hd_wait) /\ current \notin ToSet(req)
  BY DEF TypeOK, SleepersQueued, RequestsMatchSleepers, DoRead, Running
<1>b. /\ add_wait_queue(hd_wait, current) \in Seq(Proc)
      /\ IsInjective(add_wait_queue(hd_wait, current))
      /\ ToSet(add_wait_queue(hd_wait, current)) = ToSet(hd_wait) \cup {current}
  BY <1>a, ConsAdds DEF TypeOK, SleepersQueued
<1>c. /\ Append(req, current) \in Seq(Proc) /\ Len(Append(req, current)) = Len(req) + 1
      /\ IsInjective(Append(req, current))
      /\ ToSet(Append(req, current)) = ToSet(req) \cup {current}
  BY <1>a, AppendAdds DEF TypeOK, RequestsMatchSleepers
<1>d. /\ Len(req) \in Nat /\ Append(req, current) # <<>>
      /\ req = <<>> <=> Len(req) = 0
  <2>1. Len(req) \in Nat /\ (req = <<>> <=> Len(req) = 0)
    BY EmptyIsLenZero DEF TypeOK
  <2>2. Append(req, current) = <<>> <=> Len(Append(req, current)) = 0
    BY <1>c, EmptyIsLenZero
  <2>. QED  BY <1>c, <2>1, <2>2
<1>e. BUF_SIZE \in Nat  BY KernelAssumption
<1>f. \/ /\ pc' = [pc EXCEPT ![current] = "panic"] \/ pc' = [pc EXCEPT ![current] = "sysret"]
         /\ intr' \in {FALSE, intr} /\ UNCHANGED <<cpu, status, req, hd_wait, filled, dev>>
      \/ /\ Len(req) < BUF_SIZE /\ req' = Append(req, current)
         /\ dev' = IF Len(req) + 1 = 1 THEN "busy" ELSE dev
         /\ filled' = [filled EXCEPT ![current] = FALSE]
         /\ hd_wait' = add_wait_queue(hd_wait, current)
         /\ status' = [status EXCEPT ![current] = TASK_INTERRUPT]
         /\ pc' = [pc EXCEPT ![current] = "hd_sleep"]
         /\ cpu' = "schedule" /\ intr' = FALSE
  <2>1. CASE ring_full
    BY <2>1 DEF DoRead, Goto, hdVars
  <2>2. CASE ~ring_full
    <3>1. Len(req) < BUF_SIZE  BY <1>d, <1>e, <2>2 DEF ring_full
    <3>. QED  BY <1>c, <2>2, <3>1 DEF DoRead, sleep_on, Goto
  <2>. QED  BY <2>1, <2>2
<1>g. /\ cpu = "run" /\ pc[current] = "do_read"
      /\ UNCHANGED <<current, rq, flags, counter, need_resched, fork_child, kb_count,
                     kb_wait, waking>>
  BY DEF DoRead, Running, kbVars
<1>1. TypeOK'
  <2>1. status' \in [Proc -> 0..TASK_INTERRUPT]
    BY <1>f, StatusTypes DEF TypeOK
  <2>5. pc' \in [Proc -> Locations]
    BY <1>f DEF TypeOK, Locations
  <2>2. req' \in Seq(Proc) /\ hd_wait' \in Seq(Proc)
    BY <1>b, <1>c, <1>f DEF TypeOK
  <2>3. filled' \in [Proc -> BOOLEAN] /\ dev' \in {"idle", "busy", "failed"}
    BY <1>f DEF TypeOK
  <2>4. /\ cpu' \in {"run", "schedule", "wake_up", "ret_from_int"}
        /\ intr' \in BOOLEAN /\ (cpu' # "run" => ~intr')
    BY <1>f, <1>g DEF TypeOK
  <2>. QED  BY <1>g, <2>1, <2>2, <2>3, <2>4, <2>5 DEF TypeOK
<1>2. /\ RunQueueOK' /\ CurrentIsHead' /\ ReadWaitsForData'
      /\ FreeSlotsInert' /\ KernelNotPreempted'
  BY <1>0 DEF TypeOK, RunQueueOK, CurrentIsHead, ReadWaitsForData,
     FreeSlotsInert, KernelNotPreempted, DoRead, Running, Goto, sleep_on,
     procVars, kbVars, hdVars
<1>4. SleepersQueued'
  BY <1>0, <1>a, <1>b DEF TypeOK, SleepersQueued,
       DoRead, Running, Goto, sleep_on, procVars, kbVars, hdVars
<1>5. RequestsMatchSleepers'
  <2>1. CASE req' = req /\ filled' = filled
    <3>1. Append(req, current) # req  BY <1>c, <1>d
    <3>2. \/ pc' = [pc EXCEPT ![current] = "panic"]
          \/ pc' = [pc EXCEPT ![current] = "sysret"]
      BY <1>f, <2>1, <3>1
    <3>. QED  BY <1>a, <1>g, <2>1, <3>2 DEF TypeOK, RequestsMatchSleepers
  <2>2. CASE req' = Append(req, current)
    <3>1. Len(req) < BUF_SIZE /\ pc' = [pc EXCEPT ![current] = "hd_sleep"]
          /\ filled' = [filled EXCEPT ![current] = FALSE]
      <4>1. Append(req, current) # req  BY <1>c, <1>d
      <4>. QED  BY <1>f, <2>2, <4>1
    <3>2. Len(req') <= BUF_SIZE  BY <1>c, <1>d, <1>e, <2>2, <3>1
    <3>3. ToSet(req') = {p \in Proc : pc'[p] = "hd_sleep" /\ ~filled'[p]}
      BY <1>a, <1>c, <2>2, <3>1 DEF TypeOK, RequestsMatchSleepers
    <3>. QED  BY <1>c, <2>2, <3>2, <3>3 DEF RequestsMatchSleepers
  <2>. QED  BY <1>f, <2>1, <2>2
<1>6. DriveServesQueue'
  <2>1. CASE req' = req /\ dev' = dev
    BY <2>1 DEF DriveServesQueue
  <2>2. CASE /\ req' = Append(req, current)
             /\ dev' = IF Len(req) + 1 = 1 THEN "busy" ELSE dev
    <3>1. CASE req = <<>>
      BY <1>d, <2>2, <3>1 DEF DriveServesQueue
    <3>2. CASE req # <<>>
      <4>1. Len(req) + 1 # 1  BY <1>d, <3>2
      <4>. QED  BY <1>d, <2>2, <3>2, <4>1 DEF DriveServesQueue
    <3>. QED  BY <3>1, <3>2
  <2>. QED  BY <1>f, <2>1, <2>2
<1>. QED  BY <1>1, <1>2, <1>4, <1>5, <1>6

(***************************************************************************)
(* The process that runs on has its data, so no request of its own is queued. *)
(***************************************************************************)
LEMMA HdWokenStep == Inv /\ HdWoken => Inv'
<1> SUFFICES ASSUME Inv, HdWoken PROVE Inv'
  OBVIOUS
<1> USE DEF Inv
<1>0. IDLE_TASK \in Proc /\ Members(rq) \subseteq Proc \ {IDLE_TASK}
  BY MembersType
<1>a. current \in ToSet(hd_wait) /\ current \in Proc /\ filled[current]
  BY DEF TypeOK, SleepersQueued, ReadWaitsForData, HdWoken, Running
<1>b. /\ remove_wait_queue(hd_wait, current) \in Seq(Proc)
      /\ IsInjective(remove_wait_queue(hd_wait, current))
      /\ ToSet(remove_wait_queue(hd_wait, current)) = ToSet(hd_wait) \ {current}
  BY <1>a, RemoveDrops DEF TypeOK, SleepersQueued
<1>1. TypeOK'
  BY <1>0, <1>b, KernelAssumption DEF TypeOK, Locations, TASK_RUNNING, TASK_INTERRUPT,
       HdWoken, Running, Goto, procVars, kbVars, hdVars
<1>2. /\ RunQueueOK' /\ CurrentIsHead' /\ DriveServesQueue'
      /\ ReadWaitsForData' /\ FreeSlotsInert' /\ KernelNotPreempted'
  BY <1>0, SMTT(20) DEF TypeOK, RunQueueOK, CurrentIsHead, DriveServesQueue,
     ReadWaitsForData, FreeSlotsInert, KernelNotPreempted, HdWoken, Running,
     Goto, procVars, kbVars, hdVars
<1>4. SleepersQueued'
  BY <1>0, <1>a, <1>b DEF TypeOK, SleepersQueued,
       HdWoken, Running, Goto, procVars, kbVars, hdVars
<1>5. RequestsMatchSleepers'
  BY <1>0, <1>a DEF TypeOK, RequestsMatchSleepers,
       HdWoken, Running, Goto, procVars, kbVars, hdVars
<1>. QED  BY <1>1, <1>2, <1>4, <1>5

(***************************************************************************)
(* The slot that *child=*father overwrites is linked nowhere.              *)
(***************************************************************************)
LEMMA ForkCopyStep == Inv /\ ForkCopy => Inv'
<1> SUFFICES ASSUME Inv, ForkCopy PROVE Inv'
  OBVIOUS
<1> USE DEF Inv
<1>0. IDLE_TASK \in Proc /\ Members(rq) \subseteq Proc \ {IDLE_TASK}
  BY MembersType
<1> DEFINE child == get_free_proc_struct
           q == [rq EXCEPT !.next[child] = rq.next[current]]
<1>a. FreeSlots # {} => child \in FreeSlots
  BY LeastSlot DEF get_free_proc_struct
<1>b. current \in Proc /\ rq \in Queue /\ WellLinked(rq)
  BY DEF TypeOK, RunQueueOK
<1>c. FreeSlots # {} => /\ child \in Proc /\ pc[child] = "none"
                       /\ child \notin Members(rq) /\ child # current
  BY <1>a DEF FreeSlots, FreeSlotsInert, ForkCopy, Running
<1>d. FreeSlots # {} => /\ q \in Queue /\ q.head = rq.head
                       /\ WellLinked(q) /\ Members(q) = Members(rq)
  BY <1>b, <1>c, RelinkUnqueued DEF Queue
<1> HIDE DEF child
<1>e. \/ /\ FreeSlots = {}
         /\ UNCHANGED <<rq, flags, status, counter, need_resched, fork_child>>
         /\ pc' = [pc EXCEPT ![current] = "sysret"]
      \/ /\ FreeSlots # {} /\ fork_child' = child /\ rq' = q
         /\ flags' = [flags EXCEPT ![child] = flags[current]]
         /\ status' = [status EXCEPT ![child] = status[current]]
         /\ counter' = [counter EXCEPT ![child] = counter[current]]
         /\ need_resched' = [need_resched EXCEPT ![child] = need_resched[current]]
         /\ pc' = [pc EXCEPT ![current] = "mem_copy"]
  BY DEF ForkCopy, child, Goto
<1>f. /\ pc[current] = "do_fork" /\ cpu = "run"
      /\ UNCHANGED <<cpu, intr, current, kb_count, kb_wait, waking, req, hd_wait,
                     filled, dev>>
  BY DEF ForkCopy, Running, kbVars, hdVars
<1>g. rq' \in Queue /\ rq'.head = rq.head /\ WellLinked(rq')
      /\ Members(rq') = Members(rq)
  BY <1>b, <1>d, <1>e
<1> HIDE DEF q
<1>1. TypeOK'
  <2>1. flags' \in [Proc -> BOOLEAN] /\ need_resched' \in [Proc -> BOOLEAN]
    BY <1>b, <1>e DEF TypeOK
  <2>2. status' \in [Proc -> 0..TASK_INTERRUPT] /\ counter' \in [Proc -> 0..Quantum]
    BY <1>b, <1>e DEF TypeOK
  <2>3. pc' \in [Proc -> Locations] /\ fork_child' \in Proc \cup {NULL}
    BY <1>b, <1>c, <1>e DEF TypeOK, Locations
  <2>. QED  BY <1>f, <1>g, <2>1, <2>2, <2>3 DEF TypeOK
<1>2. RunQueueOK'
  BY <1>g DEF RunQueueOK
<1>3. CurrentIsHead'
  BY <1>f, <1>g DEF CurrentIsHead
<1>4. SleepersQueued'
  BY <1>b, <1>e, <1>f DEF TypeOK, SleepersQueued
<1>5. RequestsMatchSleepers'
  BY <1>b, <1>e, <1>f DEF TypeOK, RequestsMatchSleepers
<1>6. DriveServesQueue'
  BY <1>f DEF DriveServesQueue
<1>7. ReadWaitsForData'
  BY <1>0, <1>b, <1>e, <1>f, <1>g DEF TypeOK, ReadWaitsForData
<1>8. FreeSlotsInert'
  <2> SUFFICES ASSUME NEW x \in Proc, ~flags'[x] \/ x = fork_child'
               PROVE  pc'[x] = "none" /\ x \notin Members(rq')
    BY DEF FreeSlotsInert
  <2>1. fork_child = NULL /\ x # NULL
    BY <1>f DEF KernelNotPreempted, Proc, NULL
  <2>2. pc[x] = "none" /\ x \notin Members(rq)
    <3>1. CASE ~flags[x]  BY <3>1 DEF FreeSlotsInert
    <3>2. CASE flags[x]
      <4>1. FreeSlots # {} /\ x = child
        BY <1>b, <1>c, <1>e, <2>1, <3>2 DEF TypeOK
      <4>. QED  BY <1>c, <4>1
    <3>. QED  BY <3>1, <3>2
  <2>3. x # current  BY <1>f, <2>2
  <2>. QED  BY <1>b, <1>e, <1>g, <2>2, <2>3 DEF TypeOK
<1>9. KernelNotPreempted'
  <2>1. \A x \in Proc : x # NULL  BY DEF Proc, NULL
  <2>2. current # IDLE_TASK  BY <1>f DEF KernelNotPreempted
  <2>. QED  BY <1>0, <1>b, <1>c, <1>e, <1>f, <2>1, <2>2 DEF TypeOK, KernelNotPreempted
<1>. QED  BY <1>1, <1>2, <1>3, <1>4, <1>5, <1>6, <1>7, <1>8, <1>9

(***************************************************************************)
(* The child is handed to the scheduler from a slot that was inert.        *)
(***************************************************************************)
LEMMA ForkDoneStep == Inv /\ ForkDone => Inv'
<1> SUFFICES ASSUME Inv, ForkDone PROVE Inv'
  OBVIOUS
<1> USE DEF Inv
<1>0. IDLE_TASK \in Proc /\ Members(rq) \subseteq Proc \ {IDLE_TASK}
  BY MembersType
<1>a. /\ cpu = "run" /\ pc[current] = "mem_copy" /\ current \in Proc
      /\ fork_child \in Proc /\ pc[fork_child] = "none"
      /\ fork_child # current /\ fork_child # IDLE_TASK /\ current # IDLE_TASK
  BY DEF TypeOK, KernelNotPreempted, FreeSlotsInert, ForkDone, Running
<1>b. /\ proc_ready(rq, fork_child) \in Queue
      /\ WellLinked(proc_ready(rq, fork_child))
      /\ Members(proc_ready(rq, fork_child)) \subseteq Members(rq) \cup {fork_child}
      /\ rq.head # NULL => proc_ready(rq, fork_child).head = rq.head
  BY <1>a, ReadyEffect DEF TypeOK, RunQueueOK
<1>c. \/ /\ flags' = [flags EXCEPT ![fork_child] = TRUE]
         /\ counter' = [counter EXCEPT ![fork_child] = Quantum]
         /\ pc' = [pc EXCEPT ![current] = "sysret", ![fork_child] = "user"]
         /\ status' = [status EXCEPT ![current] = TASK_RUNNING]
         /\ rq' = proc_ready(rq, fork_child)
      \/ /\ pc' = [pc EXCEPT ![current] = "sysret"]
         /\ UNCHANGED <<rq, flags, status, counter>>
  BY DEF ForkDone, Goto, wake_up_process
<1>d. /\ fork_child' = NULL
      /\ UNCHANGED <<cpu, intr, current, need_resched, kb_count, kb_wait, waking,
                     req, hd_wait, filled, dev>>
  BY DEF ForkDone, kbVars, hdVars
<1>e. /\ rq' \in Queue /\ WellLinked(rq')
      /\ Members(rq') \subseteq Members(rq) \cup {fork_child}
      /\ rq.head # NULL => rq'.head = rq.head
  BY <1>b, <1>c DEF TypeOK, RunQueueOK
<1>f. \A p \in Proc : p # current /\ p # fork_child => pc'[p] = pc[p]
  BY <1>a, <1>c DEF TypeOK
<1>g. pc'[current] = "sysret" /\ pc'[fork_child] \in {"none", "user"}
  BY <1>a, <1>c DEF TypeOK
<1>h. current # NULL  BY <1>a DEF Proc, NULL
<1>1. TypeOK'
  <2>1. flags' \in [Proc -> BOOLEAN] /\ pc' \in [Proc -> Locations]
    BY <1>a, <1>c DEF TypeOK, Locations
  <2>2. status' \in [Proc -> 0..TASK_INTERRUPT]
    BY <1>a, <1>c, StatusTypes DEF TypeOK
  <2>3. counter' \in [Proc -> 0..Quantum]
    <3>1. Quantum \in 0..Quantum  BY KernelAssumption
    <3>. QED  BY <1>a, <1>c, <3>1 DEF TypeOK
  <2>. QED  BY <1>d, <1>e, <2>1, <2>2, <2>3 DEF TypeOK
<1>2. RunQueueOK'
  BY <1>e DEF RunQueueOK
<1>3. CurrentIsHead'
  BY <1>d, <1>e, <1>h DEF CurrentIsHead
<1>4. SleepersQueued'
  BY <1>a, <1>d, <1>f, <1>g DEF SleepersQueued
<1>5. RequestsMatchSleepers'
  BY <1>a, <1>d, <1>f, <1>g DEF RequestsMatchSleepers
<1>6. DriveServesQueue'
  BY <1>d DEF DriveServesQueue
<1>7. ReadWaitsForData'
  BY <1>0, <1>a, <1>d, <1>e, <1>f, <1>g DEF ReadWaitsForData
<1>8. FreeSlotsInert'
  <2> SUFFICES ASSUME NEW p \in Proc, ~flags'[p] \/ p = fork_child'
               PROVE  pc'[p] = "none" /\ p \notin Members(rq')
    BY DEF FreeSlotsInert
  <2>1. p # fork_child' /\ ~flags'[p]  BY <1>d DEF Proc, NULL
  <2>2. CASE p = fork_child
    <3>1. pc' = [pc EXCEPT ![current] = "sysret"] /\ rq' = rq
      BY <1>a, <1>c, <2>1, <2>2 DEF TypeOK
    <3>. QED  BY <1>a, <2>2, <3>1 DEF TypeOK, FreeSlotsInert
  <2>3. CASE p # fork_child
    <3>1. ~flags[p]  BY <1>a, <1>c, <2>1, <2>3 DEF TypeOK
    <3>2. pc[p] = "none" /\ p \notin Members(rq)  BY <3>1 DEF FreeSlotsInert
    <3>. QED  BY <1>a, <1>e, <1>f, <2>3, <3>2
  <2>. QED  BY <2>2, <2>3
<1>9. KernelNotPreempted'
  BY <1>0, <1>a, <1>d, <1>f, <1>g DEF KernelNotPreempted
<1>. QED  BY <1>1, <1>2, <1>3, <1>4, <1>5, <1>6, <1>7, <1>8, <1>9

(***************************************************************************)
(* RoundRobin keeps the members, proc_block drops only the current process. *)
(***************************************************************************)
LEMMA ScheduleStep == Inv /\ Schedule => Inv'
<1> SUFFICES ASSUME Inv, Schedule PROVE Inv'
  OBVIOUS
<1> USE DEF Inv
<1>0. IDLE_TASK \in Proc /\ Members(rq) \subseteq Proc \ {IDLE_TASK}
  BY MembersType
<1> DEFINE rr == RoundRobin
<1>a. /\ cpu = "schedule" /\ current \in Proc /\ rq \in Queue /\ WellLinked(rq)
      /\ current \in Members(rq) \cup {IDLE_TASK}
  <2>1. cpu = "schedule" /\ current \in Proc /\ rq \in Queue /\ WellLinked(rq)
    BY DEF Schedule, TypeOK, RunQueueOK
  <2>2. current # NULL  BY <2>1 DEF Proc, NULL
  <2>. QED  BY <2>1, <2>2, HeadIsMember DEF CurrentIsHead
<1>b. rr \in Queue /\ WellLinked(rr) /\ Members(rr) = Members(rq)
  BY <1>a, RotateEffect DEF RoundRobin
<1> HIDE DEF rr
<1>c. /\ proc_block(rr, current) \in Queue /\ WellLinked(proc_block(rr, current))
      /\ Members(proc_block(rr, current)) = Members(rq) \ {current}
  BY <1>a, <1>b, BlockEffect
<1>d. rq' = IF status[current] \in {TASK_INTERRUPT, TASK_STOPED}
            THEN proc_block(rr, current) ELSE rr
  BY DEF Schedule, rr
<1>e. /\ rq' \in Queue /\ WellLinked(rq') /\ Members(rq') \subseteq Members(rq)
      /\ status[current] = TASK_INTERRUPT => Members(rq') = Members(rq) \ {current}
  BY <1>b, <1>c, <1>d
<1>f. /\ current' \in Members(rq') \cup {IDLE_TASK}
      /\ current' = IDLE_TASK \/ current' = rq'.head
  BY <1>e, HeadIsMember DEF Schedule, pick_proc
<1>g. /\ cpu' = "run" /\ current' \in Proc
      /\ UNCHANGED <<flags, status, pc, fork_child, kb_count, kb_wait, waking, req,
                     hd_wait, filled, dev>>
  BY <1>0, <1>e, <1>f DEF Schedule, kbVars, hdVars
<1>h. pc[current] \in {"user", "kb_sleep", "hd_sleep"}
  BY <1>a DEF KernelNotPreempted
<1>i. pc[current] # "user" => status[current] = TASK_INTERRUPT
  BY <1>a DEF KernelNotPreempted
<1>1. TypeOK'
  <2>1. need_resched' \in [Proc -> BOOLEAN] /\ intr' \in BOOLEAN
    BY <1>a, <1>g DEF Schedule, TypeOK
  <2>2. counter' \in [Proc -> 0..Quantum]
    BY <1>a, KernelAssumption DEF Schedule, TypeOK
  <2>. QED  BY <1>e, <1>g, <2>1, <2>2 DEF TypeOK
<1>2. RunQueueOK'
  BY <1>e DEF RunQueueOK
<1>3. CurrentIsHead'
  BY <1>f DEF CurrentIsHead
<1>4. SleepersQueued'
  BY <1>g DEF SleepersQueued
<1>5. RequestsMatchSleepers'
  BY <1>g DEF RequestsMatchSleepers
<1>6. DriveServesQueue'
  BY <1>g DEF DriveServesQueue
<1>7. ReadWaitsForData'
  <2> SUFFICES ASSUME NEW p \in Members(rq') \cup {current'}, pc[p] = "hd_sleep"
               PROVE  filled[p]
    BY <1>g DEF ReadWaitsForData
  <2>1. p # IDLE_TASK  BY DEF KernelNotPreempted
  <2>2. p \in Members(rq')  BY <1>f, <2>1
  <2>3. p # current  BY <1>e, <1>h, <1>i, <2>2
  <2>. QED  BY <1>a, <1>e, <2>2, <2>3 DEF ReadWaitsForData
<1>8. FreeSlotsInert'
  BY <1>e, <1>g DEF FreeSlotsInert
<1>9. KernelNotPreempted'
  <2>1. \A p \in Proc : pc[p] \in {"none", "user", "kb_sleep", "hd_sleep", "sysret"}
    BY <1>h DEF KernelNotPreempted
  <2>2. \A p \in Proc \ {current'} : pc[p] \in {"none", "user", "kb_sleep", "hd_sleep"}
    BY <1>h DEF KernelNotPreempted
  <2>3. fork_child = NULL /\ waking = <<>>
    BY <1>a, <1>h DEF KernelNotPreempted
  <2>4. pc[current'] # "mem_copy"
    BY <1>g, <2>1
  <2>. QED  BY <1>g, <2>2, <2>3, <2>4 DEF KernelNotPreempted
<1>. QED  BY <1>1, <1>2, <1>3, <1>4, <1>5, <1>6, <1>7, <1>8, <1>9

(***************************************************************************)
(* The clock touches only the billing fields of the current process.       *)
(***************************************************************************)
LEMMA ClockIntStep == Inv /\ ClockInt => Inv'
<1> SUFFICES ASSUME Inv, ClockInt PROVE Inv'
  OBVIOUS
<1> USE DEF Inv
<1>0. IDLE_TASK \in Proc /\ Members(rq) \subseteq Proc \ {IDLE_TASK}
  BY MembersType
<1>1. TypeOK'
  <2>1. current \in Proc /\ counter \in [Proc -> 0..Quantum] /\ Quantum \in Nat
    BY KernelAssumption DEF TypeOK
  <2>2. counter[current] > 0 => counter[current] - 1 \in 0..Quantum
    BY <2>1
  <2>3. counter' \in [Proc -> 0..Quantum]
    BY <2>1, <2>2 DEF ClockInt, bill_process_time
  <2>4. need_resched' \in [Proc -> BOOLEAN]
    BY DEF TypeOK, ClockInt, bill_process_time
  <2>. QED  BY <2>3, <2>4 DEF TypeOK, ClockInt, kbVars, hdVars
<1>2. /\ RunQueueOK' /\ CurrentIsHead' /\ SleepersQueued' /\ RequestsMatchSleepers'
      /\ DriveServesQueue' /\ ReadWaitsForData' /\ FreeSlotsInert' /\ KernelNotPreempted'
  BY <1>0 DEF TypeOK, RunQueueOK, CurrentIsHead, SleepersQueued,
     RequestsMatchSleepers, DriveServesQueue, ReadWaitsForData,
     FreeSlotsInert, KernelNotPreempted, ClockInt, Interrupted,
     bill_process_time, procVars, kbVars, hdVars
<1>. QED  BY <1>1, <1>2

(***************************************************************************)
(* The keyboard handler starts its walk with the whole wait queue.         *)
(***************************************************************************)
LEMMA KbdIntStep == Inv /\ KbdInt => Inv'
<1> SUFFICES ASSUME Inv, KbdInt PROVE Inv'
  OBVIOUS
<1> USE DEF Inv
<1>0. IDLE_TASK \in Proc /\ Members(rq) \subseteq Proc \ {IDLE_TASK}
  BY MembersType
<1>1. TypeOK'
  <2>1. kb_count' \in 0..KB_BUF_SIZE
    BY KernelAssumption DEF TypeOK, KbdInt, stored_count
  <2>. QED  BY <2>1 DEF TypeOK, KbdInt, first_to_wake, procVars, hdVars
<1>2. /\ RunQueueOK' /\ CurrentIsHead' /\ SleepersQueued' /\ RequestsMatchSleepers'
      /\ DriveServesQueue' /\ ReadWaitsForData' /\ FreeSlotsInert'
  BY <1>0 DEF TypeOK, RunQueueOK, CurrentIsHead, SleepersQueued,
     RequestsMatchSleepers, DriveServesQueue, ReadWaitsForData,
     FreeSlotsInert, KbdInt, Interrupted, procVars, kbVars, hdVars
<1>9. KernelNotPreempted'
  <2>1. /\ cpu' = "wake_up" /\ waking' = kb_wait
        /\ UNCHANGED <<current, pc, status, fork_child, kb_wait>>
    BY DEF KbdInt, first_to_wake, procVars
  <2>. QED  BY <2>1 DEF KernelNotPreempted
<1>. QED  BY <1>1, <1>2, <1>9

(***************************************************************************)
(* wake_up readies a process that sleeps in kb_read: it has no request.    *)
(***************************************************************************)
LEMMA WakeUpStep == Inv /\ WakeUp => Inv'
<1> SUFFICES ASSUME Inv, WakeUp PROVE Inv'
  OBVIOUS
<1> USE DEF Inv
<1>0. IDLE_TASK \in Proc /\ Members(rq) \subseteq Proc \ {IDLE_TASK}
  BY MembersType
<1>a. CASE waking = <<>>
  <2>1. cpu' = "ret_from_int" /\ cpu = "wake_up"
        /\ UNCHANGED <<intr, current, rq, flags, status, counter, need_resched, pc,
                       fork_child, kb_count, kb_wait, waking, req, hd_wait, filled, dev>>
    BY <1>a DEF WakeUp, hdVars
  <2>. QED  BY <1>a, <2>1 DEF TypeOK, RunQueueOK, CurrentIsHead, SleepersQueued,
         RequestsMatchSleepers, DriveServesQueue, ReadWaitsForData, FreeSlotsInert,
         KernelNotPreempted
<1>b. CASE waking # <<>>
  <2> DEFINE p == Head(waking)
  <2>1. /\ p \in Proc /\ p \in ToSet(waking) /\ Tail(waking) \in Seq(Proc)
        /\ ToSet(Tail(waking)) \subseteq ToSet(waking)
    BY <1>b, TailDrops DEF TypeOK
  <2> HIDE DEF p
  <2>2. pc[p] = "kb_sleep" /\ p # IDLE_TASK
    BY <2>1 DEF SleepersQueued, KernelNotPreempted
  <2>3. /\ rq' = proc_ready(rq, p) /\ waking' = Tail(waking) /\ cpu = "wake_up"
        /\ status' = [status EXCEPT ![current] = TASK_RUNNING]
        /\ UNCHANGED <<cpu, intr, current, flags, counter, need_resched, pc,
                       fork_child, kb_count, kb_wait, req, hd_wait, filled, dev>>
    BY <1>b DEF WakeUp, wake_up_process, hdVars, p
  <2>4. /\ rq' \in Queue /\ WellLinked(rq')
        /\ Members(rq') \subseteq Members(rq) \cup {p}
        /\ rq.head # NULL => rq'.head = rq.head
    BY <2>1, <2>2, <2>3, ReadyEffect DEF TypeOK, RunQueueOK
  <2>5. TypeOK'
    <3>1. status' \in [Proc -> 0..TASK_INTERRUPT]
      BY <2>3 DEF TypeOK, TASK_RUNNING, TASK_INTERRUPT
    <3>. QED  BY <2>1, <2>3, <2>4, <3>1 DEF TypeOK
  <2>6. RunQueueOK'  BY <2>4 DEF RunQueueOK
  <2>7. CurrentIsHead'
    BY <2>3, <2>4 DEF CurrentIsHead, TypeOK, Proc, NULL
  <2>8. SleepersQueued' /\ RequestsMatchSleepers' /\ DriveServesQueue'
    BY <2>3 DEF SleepersQueued, RequestsMatchSleepers, DriveServesQueue
  <2>9. ReadWaitsForData'
    BY <2>2, <2>3, <2>4 DEF ReadWaitsForData
  <2>10. FreeSlotsInert'
    BY <2>2, <2>3, <2>4 DEF FreeSlotsInert
  <2>11. KernelNotPreempted'
    BY <2>1, <2>3 DEF KernelNotPreempted
  <2>. QED  BY <2>5, <2>6, <2>7, <2>8, <2>9, <2>10, <2>11
<1>. QED  BY <1>a, <1>b

(***************************************************************************)
(* The disk handler serves and readies the sleeper of the oldest request.  *)
(***************************************************************************)
LEMMA HdIntStep == Inv /\ HdInt => Inv'
<1> SUFFICES ASSUME Inv, HdInt PROVE Inv'
  OBVIOUS
<1> USE DEF Inv
<1>0. IDLE_TASK \in Proc /\ Members(rq) \subseteq Proc \ {IDLE_TASK}
  BY MembersType
<1> DEFINE p == Head(req)
<1>a. req # <<>> /\ cpu = "run"
  BY DEF HdInt, Interrupted, DriveServesQueue
<1>b. /\ p \in Proc /\ p \in ToSet(req) /\ Tail(req) \in Seq(Proc)
      /\ Len(Tail(req)) = Len(req) - 1 /\ IsInjective(Tail(req))
      /\ ToSet(Tail(req)) = ToSet(req) \ {p}
  BY <1>a, TailDrops DEF TypeOK, RequestsMatchSleepers
<1>c. Len(Tail(req)) > 0 <=> Tail(req) # <<>>
  <2> DEFINE t == Tail(req)
  <2>1. t \in Seq(Proc)  BY <1>b
  <2> HIDE DEF t
  <2>2. Len(t) \in Nat /\ (t = <<>> <=> Len(t) = 0)
    BY <2>1, EmptyIsLenZero
  <2>3. Len(t) > 0 <=> t # <<>>  BY <2>2
  <2>. QED  BY <2>3 DEF t
<1> HIDE DEF p
<1>d. pc[p] = "hd_sleep" /\ p # IDLE_TASK
  BY <1>b DEF RequestsMatchSleepers, KernelNotPreempted
<1>e. /\ rq' = proc_ready(rq, p) /\ req' = Tail(req) /\ cpu' = "ret_from_int"
      /\ filled' = [filled EXCEPT ![p] = TRUE]
      /\ status' = [status EXCEPT ![current] = TASK_RUNNING]
      /\ dev' = IF Len(Tail(req)) > 0 THEN "busy" ELSE "idle"
      /\ intr' = FALSE
      /\ UNCHANGED <<current, flags, counter, need_resched, pc, fork_child, kb_count,
                     kb_wait, waking, hd_wait>>
  BY DEF HdInt, waiter, next_request, wake_up_process, kbVars, p
<1>f. /\ rq' \in Queue /\ WellLinked(rq')
      /\ Members(rq') \subseteq Members(rq) \cup {p}
      /\ rq.head # NULL => rq'.head = rq.head
  BY <1>b, <1>d, <1>e, ReadyEffect DEF TypeOK, RunQueueOK
<1>1. TypeOK'
  <2>1. status' \in [Proc -> 0..TASK_INTERRUPT]
    BY <1>e DEF TypeOK, TASK_RUNNING, TASK_INTERRUPT
  <2>2. filled' \in [Proc -> BOOLEAN] /\ dev' \in {"idle", "busy", "failed"}
    BY <1>e DEF TypeOK
  <2>3. req' \in Seq(Proc)
    BY <1>b, <1>e
  <2>. QED  BY <1>e, <1>f, <2>1, <2>2, <2>3 DEF TypeOK
<1>2. RunQueueOK'
  BY <1>f DEF RunQueueOK
<1>3. CurrentIsHead'
  BY <1>e, <1>f DEF CurrentIsHead, TypeOK, Proc, NULL
<1>4. SleepersQueued'
  BY <1>e DEF SleepersQueued
<1>5. RequestsMatchSleepers'
  <2>1. Len(req) \in Nat /\ BUF_SIZE \in Nat  BY KernelAssumption DEF TypeOK
  <2>2. IsInjective(req') /\ Len(req') <= BUF_SIZE
    BY <1>b, <1>e, <2>1 DEF RequestsMatchSleepers
  <2>3. ToSet(req') = {x \in Proc : pc'[x] = "hd_sleep" /\ ~filled'[x]}
    BY <1>b, <1>e DEF RequestsMatchSleepers, TypeOK
  <2>. QED  BY <2>2, <2>3 DEF RequestsMatchSleepers
<1>6. DriveServesQueue'
  BY <1>c, <1>e DEF DriveServesQueue
<1>7. ReadWaitsForData'
  BY <1>a, <1>b, <1>e, <1>f DEF ReadWaitsForData, TypeOK
<1>8. FreeSlotsInert'
  BY <1>d, <1>e, <1>f DEF FreeSlotsInert
<1>9. KernelNotPreempted'
  BY <1>a, <1>e DEF KernelNotPreempted
<1>. QED  BY <1>1, <1>2, <1>3, <1>4, <1>5, <1>6, <1>7, <1>8, <1>9

(***************************************************************************)
(* A failed interrupt only stops the drive.                                *)
(***************************************************************************)
LEMMA HdErrorStep == Inv /\ HdError => Inv'
<1> SUFFICES ASSUME Inv, HdError PROVE Inv'
  OBVIOUS
<1> USE DEF Inv
<1>0. IDLE_TASK \in Proc /\ Members(rq) \subseteq Proc \ {IDLE_TASK}
  BY MembersType
<1>1. TypeOK'
  BY <1>0, KernelAssumption DEF TypeOK, Locations, TASK_RUNNING, TASK_INTERRUPT,
       HdError, Interrupted, procVars, kbVars, hdVars
<1>2. /\ RunQueueOK' /\ CurrentIsHead' /\ SleepersQueued' /\ RequestsMatchSleepers'
      /\ DriveServesQueue' /\ ReadWaitsForData' /\ FreeSlotsInert' /\ KernelNotPreempted'
  BY <1>0 DEF TypeOK, RunQueueOK, CurrentIsHead, SleepersQueued,
     RequestsMatchSleepers, DriveServesQueue, ReadWaitsForData,
     FreeSlotsInert, KernelNotPreempted, HdError, Interrupted, procVars,
     kbVars, hdVars
<1>. QED  BY <1>1, <1>2

(***************************************************************************)
(* The release of a lock key changes nothing but where the CPU is.         *)
(***************************************************************************)
LEMMA KbdSkipStep == Inv /\ KbdSkip => Inv'
<1> SUFFICES ASSUME Inv, KbdSkip PROVE Inv'
  OBVIOUS
<1> USE DEF Inv
<1>1. TypeOK'
  BY DEF TypeOK, KbdSkip, procVars, kbVars, hdVars
<1>2. /\ RunQueueOK' /\ CurrentIsHead' /\ SleepersQueued' /\ RequestsMatchSleepers'
      /\ DriveServesQueue' /\ ReadWaitsForData' /\ FreeSlotsInert' /\ KernelNotPreempted'
  BY DEF TypeOK, RunQueueOK, CurrentIsHead, SleepersQueued,
     RequestsMatchSleepers, DriveServesQueue, ReadWaitsForData,
     FreeSlotsInert, KernelNotPreempted, KbdSkip, Interrupted, procVars,
     kbVars, hdVars
<1>. QED  BY <1>1, <1>2

(***************************************************************************)
(* RetFromInt hands the CPU back, or to schedule().                        *)
(***************************************************************************)
LEMMA RetFromIntStep == Inv /\ RetFromInt => Inv'
<1> SUFFICES ASSUME Inv, RetFromInt PROVE Inv'
  OBVIOUS
<1> USE DEF Inv
<1>0. IDLE_TASK \in Proc /\ Members(rq) \subseteq Proc \ {IDLE_TASK}
  BY MembersType
<1>1. TypeOK'
  BY <1>0, KernelAssumption DEF TypeOK, Locations, TASK_RUNNING, TASK_INTERRUPT,
       RetFromInt, resched, procVars, kbVars, hdVars
<1>2. /\ RunQueueOK' /\ CurrentIsHead' /\ SleepersQueued' /\ RequestsMatchSleepers'
      /\ DriveServesQueue' /\ ReadWaitsForData' /\ FreeSlotsInert' /\ KernelNotPreempted'
  BY <1>0 DEF TypeOK, RunQueueOK, CurrentIsHead, SleepersQueued,
     RequestsMatchSleepers, DriveServesQueue, ReadWaitsForData,
     FreeSlotsInert, KernelNotPreempted, RetFromInt, resched, procVars,
     kbVars, hdVars
<1>. QED  BY <1>1, <1>2

-----------------------------------------------------------------------------
(***************************************************************************)
(* The state start_kernel leaves satisfies the invariant.                  *)
(***************************************************************************)
LEMMA InitInv == Init => Inv
<1> SUFFICES ASSUME Init PROVE Inv
  OBVIOUS
<1>0. IDLE_TASK \in Proc /\ INIT_TASK \in Proc /\ INIT_TASK # IDLE_TASK
  BY NRTaskAssumption DEF Proc, IDLE_TASK, INIT_TASK
<1>1. EmptyQueue \in Queue /\ <<>> \in Orders /\ Linked(EmptyQueue, <<>>)
  <2>1. <<>> \in Orders
    <3> DEFINE s == <<>>
    <3>1. s \in Seq(Proc \ {IDLE_TASK}) /\ 1..Len(s) = {}  OBVIOUS
    <3> HIDE DEF s
    <3>2. \A i, j \in 1..Len(s) : s[i] = s[j] => i = j  BY <3>1
    <3>3. s \in Orders  BY <3>1, <3>2, SeqsAreOrders
    <3>. QED  BY <3>3 DEF s
  <2>2. EmptyQueue \in Queue  BY DEF EmptyQueue, Queue
  <2>3. Linked(EmptyQueue, <<>>)  BY DEF EmptyQueue, Linked
  <2>. QED  BY <2>1, <2>2, <2>3
<1>2. rq = proc_ready(EmptyQueue, INIT_TASK)
  BY DEF Init, proc_ready
<1>3. WellLinked(EmptyQueue) /\ Members(EmptyQueue) = {}
  <2>1. ToSet(<<>>) = {}  BY DEF ToSet
  <2>. QED  BY <1>1, <2>1, OrderIs DEF WellLinked
<1>4. rq \in Queue /\ WellLinked(rq) /\ Members(rq) \subseteq {INIT_TASK}
  BY <1>0, <1>1, <1>2, <1>3, ReadyEffect
<1>5. ToSet(<<>>) = {} /\ IsInjective(<<>>) /\ <<>> \in Seq(Proc) /\ Len(<<>>) = 0
  BY DEF ToSet, IsInjective
<1>6. \A p \in Proc : p # NULL  BY DEF Proc, NULL
<1>7. TypeOK
  <2>1. status \in [Proc -> 0..TASK_INTERRUPT]
    BY DEF Init, TASK_RUNNING, TASK_INTERRUPT
  <2>2. counter \in [Proc -> 0..Quantum]
    BY KernelAssumption DEF Init
  <2>3. /\ flags \in [Proc -> BOOLEAN] /\ need_resched \in [Proc -> BOOLEAN]
        /\ filled \in [Proc -> BOOLEAN]
    BY DEF Init
  <2>4. pc \in [Proc -> Locations]
    BY DEF Init, Locations
  <2>5. kb_count \in 0..KB_BUF_SIZE
    BY KernelAssumption DEF Init
  <2>. QED  BY <1>0, <1>4, <1>5, <2>1, <2>2, <2>3, <2>4, <2>5 DEF Init, TypeOK
<1>8. RunQueueOK /\ CurrentIsHead /\ DriveServesQueue
  BY <1>4 DEF Init, RunQueueOK, CurrentIsHead, DriveServesQueue
<1>9. SleepersQueued /\ RequestsMatchSleepers
  BY <1>5, KernelAssumption DEF Init, SleepersQueued, RequestsMatchSleepers
<1>10. ReadWaitsForData
  BY <1>0, <1>4 DEF Init, ReadWaitsForData
<1>11. FreeSlotsInert
  BY <1>0, <1>4, <1>6 DEF Init, FreeSlotsInert
<1>12. KernelNotPreempted
  BY <1>0, <1>5 DEF Init, KernelNotPreempted
<1>. QED  BY <1>7, <1>8, <1>9, <1>10, <1>11, <1>12 DEF Inv

(***************************************************************************)
(* One proof per action: the invariant is inductive.                       *)
(***************************************************************************)
LEMMA NextInv == Inv /\ [Next]_vars => Inv'
<1> SUFFICES ASSUME Inv, [Next]_vars PROVE Inv'
  OBVIOUS
<1>1. CASE UNCHANGED vars
  BY <1>1, StutterStep
<1>2. CASE Next
  BY <1>2, StutterStep, SystemCallStep, KbReadStep, KbWokenStep, DoReadStep, HdWokenStep,
     ForkCopyStep, ForkDoneStep, RetWithScheduleStep, ScheduleStep,
     WakeUpStep, RetFromIntStep, ClockIntStep, KbdIntStep,
     KbdSkipStep, HdIntStep, HdErrorStep
     DEF Next, ProcessStep, Panic
<1>. QED  BY <1>1, <1>2

LEMMA Invariance == Spec => []Inv
BY InitInv, NextInv, PTL DEF Spec

(***************************************************************************)
(* Every variable keeps the type of its C declaration, and interrupts are  *)
(* off wherever the scheduler, a handler's tail or wake_up runs.           *)
(***************************************************************************)
THEOREM TypeCorrect == Spec => []TypeOK
<1>1. Inv => TypeOK  BY DEF Inv
<1>. QED  BY <1>1, Invariance, PTL

(***************************************************************************)
(* The run queue is an acyclic NULL-terminated list with the right tail,   *)
(* in every reachable state (proc.c:108-194).                              *)
(***************************************************************************)
THEOREM RunQueueSound == Spec => []RunQueueOK
<1>1. Inv => RunQueueOK  BY DEF Inv
<1>. QED  BY <1>1, Invariance, PTL

(***************************************************************************)
(* RoundRobin rotates away `current' though it names only the head, and    *)
(* proc_block starts its walk there: `current' is the head of the run      *)
(* queue or the idle task (proc.c:131-194).                                *)
(***************************************************************************)
THEOREM CurrentSound == Spec => []CurrentIsHead
<1>1. Inv => CurrentIsHead  BY DEF Inv
<1>. QED  BY <1>1, Invariance, PTL

(***************************************************************************)
(* No node of a returned sleep_on is reachable from a wait queue           *)
(* (schedule.c:80-92).                                                     *)
(***************************************************************************)
THEOREM SleepSound == Spec => []SleepersQueued
<1>1. Inv => SleepersQueued  BY DEF Inv
<1>. QED  BY <1>1, Invariance, PTL

(***************************************************************************)
(* The CPU leaves a process that is in the kernel only when it sleeps: a   *)
(* clock interrupt in a system call switches nothing (sys.S:45-100).       *)
(***************************************************************************)
THEOREM PreemptionSound == Spec => []KernelNotPreempted
<1>1. Inv => KernelNotPreempted  BY DEF Inv
<1>. QED  BY <1>1, Invariance, PTL

(***************************************************************************)
(* Disk requests and their sleepers correspond one to one (hd.c:59-90).    *)
(***************************************************************************)
THEOREM RequestsSound == Spec => []RequestsMatchSleepers
<1>1. Inv => RequestsMatchSleepers  BY DEF Inv
<1>. QED  BY <1>1, Invariance, PTL

(***************************************************************************)
(* The drive is idle only when no request is queued (hd.c:265-283).        *)
(***************************************************************************)
THEOREM DriveSound == Spec => []DriveServesQueue
<1>1. Inv => DriveServesQueue  BY DEF Inv
<1>. QED  BY <1>1, Invariance, PTL

(***************************************************************************)
(* No read goes on without its data (hd.c:59-90).                          *)
(***************************************************************************)
THEOREM DiskReadsSound == Spec => []ReadWaitsForData
<1>1. Inv => ReadWaitsForData  BY DEF Inv
<1>. QED  BY <1>1, Invariance, PTL

(***************************************************************************)
(* A free slot, and the slot do_fork is filling, is on no queue.           *)
(***************************************************************************)
THEOREM ForkSound == Spec => []FreeSlotsInert
<1>1. Inv => FreeSlotsInert  BY DEF Inv
<1>. QED  BY <1>1, Invariance, PTL

(***************************************************************************)
(* Whenever schedule() runs, the walk of proc_block it may start does not  *)
(* dereference a NULL ready_head.                                          *)
(***************************************************************************)
THEOREM WalkDefined == Spec => [](cpu = "schedule" => WalkIsDefined(RoundRobin, current))
<1>1. ASSUME Inv PROVE cpu = "schedule" => WalkIsDefined(RoundRobin, current)
  <2>1. CASE current = IDLE_TASK  BY <2>1 DEF WalkIsDefined
  <2>2. CASE current # IDLE_TASK
    <3>1. /\ rq \in Queue /\ WellLinked(rq) /\ rq.head # NULL
      BY <1>1, <2>2 DEF Inv, TypeOK, RunQueueOK, CurrentIsHead, Proc, NULL
    <3>2. PICK s \in Orders : Linked(rq, s)  BY <3>1 DEF WellLinked
    <3>3. s # <<>> /\ s \in Seq(Proc \ {IDLE_TASK})
      BY <3>1, <3>2, OrdersAreSeqs DEF Linked
    <3>4. Append(Tail(s), s[1]) \in Seq(Proc \ {IDLE_TASK})
          /\ Append(Tail(s), s[1]) # <<>> /\ Append(Tail(s), s[1])[1] \in Proc
      <4>1. /\ Head(s) \in Proc \ {IDLE_TASK} /\ s[1] = Head(s)
            /\ Tail(s) \in Seq(Proc \ {IDLE_TASK})
        BY <3>3, TailDrops
      <4> DEFINE t == Append(Tail(s), s[1])
      <4>2. t \in Seq(Proc \ {IDLE_TASK}) /\ Len(t) = Len(Tail(s)) + 1
        BY <4>1
      <4> HIDE DEF t
      <4>3. Len(Tail(s)) \in Nat  BY <4>1, LenProperties
      <4>4. 1 \in 1..Len(t) /\ Len(t) # 0  BY <4>2, <4>3
      <4>5. t # <<>> /\ t[1] \in Proc
        BY <4>2, <4>4, EmptyIsLenZero, ElementOfSeq
      <4>. QED  BY <4>2, <4>5 DEF t
    <3>5. rotate(rq).head = Append(Tail(s), s[1])[1]
      BY <3>1, <3>2, <3>3, <3>4, RotateRotates DEF Linked
    <3>6. rotate(rq).head # NULL
      <4>1. \A p \in Proc : p # NULL  BY DEF Proc, NULL
      <4>. QED  BY <3>4, <3>5, <4>1
    <3>. QED  BY <3>1, <3>6 DEF WalkIsDefined, RoundRobin
  <2>. QED  BY <2>1, <2>2
<1>. QED  BY <1>1, Invariance, PTL

-----------------------------------------------------------------------------
(***************************************************************************)
(* Who is on the run queue after proc_ready: at least the process it was   *)
(* called for, and nobody fewer if that one was not queued.                *)
(***************************************************************************)
LEMMA ReadyAdds ==
  ASSUME NEW q \in Queue, WellLinked(q), NEW rp \in Proc \ {IDLE_TASK}
  PROVE  /\ rp \in Members(proc_ready(q, rp))
         /\ rp \notin Members(q) => Members(q) \subseteq Members(proc_ready(q, rp))
<1> DEFINE r == proc_ready(q, rp)
<1>1. PICK s \in Orders : Linked(q, s)  BY DEF WellLinked
<1>2. s \in Seq(Proc \ {IDLE_TASK}) /\ Members(q) = ToSet(s)
  BY <1>1, OrdersAreSeqs, OrderIs
<1>3. DOMAIN s = 1..Len(s)  BY <1>2
<1>6. CASE rp \notin ToSet(s)
  <2>1. r \in Queue /\ Append(s, rp) \in Orders /\ Linked(r, Append(s, rp))
    BY <1>1, <1>6, ReadyAppends
  <2>2. Members(r) = ToSet(Append(s, rp))
    BY <2>1, OrderIs
  <2>3. PICK t : t = Append(s, rp)
    OBVIOUS
  <2>4. /\ DOMAIN t = 1..(Len(s) + 1) /\ t[Len(s) + 1] = rp
        /\ \A i \in 1..Len(s) : t[i] = s[i] /\ i \in 1..(Len(s) + 1)
        /\ Len(s) + 1 \in 1..(Len(s) + 1)
    BY <1>2, <2>3
  <2>5. ToSet(s) \subseteq ToSet(t) /\ rp \in ToSet(t)
    BY <1>3, <2>4 DEF ToSet
  <2>. QED  BY <1>2, <2>2, <2>3, <2>5
<1>7. CASE rp \in ToSet(s)
  <2>1. PICK k \in 1..Len(s) : rp = s[k]
    BY <1>3, <1>7 DEF ToSet
  <2>2. r \in Queue /\ SubSeq(s, 1, k) \in Orders /\ Linked(r, SubSeq(s, 1, k))
    BY <1>1, <2>1, ReadyCuts
  <2>3. Members(r) = ToSet(SubSeq(s, 1, k))
    BY <2>2, OrderIs
  <2>4. PICK t : t = SubSeq(s, 1, k)
    OBVIOUS
  <2>5. DOMAIN t = 1..k /\ t[k] = rp /\ k \in 1..k
    BY <1>2, <2>1, <2>4
  <2>6. rp \in ToSet(t)
    BY <2>5 DEF ToSet
  <2>. QED  BY <1>2, <1>7, <2>3, <2>4, <2>6
<1>. QED  BY <1>6, <1>7

(***************************************************************************)
(* Only the programs of KbReaders are ever in kb_read.                     *)
(***************************************************************************)
OnlyReaders == \A p \in Proc : pc[p] \in {"kb_read", "kb_sleep"} => p \in KbReaders

LEMMA InitReaders == Init => OnlyReaders
<1> SUFFICES ASSUME Init PROVE OnlyReaders
  OBVIOUS
<1>1. \A p \in Proc : pc[p] \in {"sysret", "user", "none"}
  BY DEF Init
<1>. QED  BY <1>1 DEF OnlyReaders

LEMMA ReadersStep ==
  ASSUME Inv, OnlyReaders, [Next]_vars
  PROVE  OnlyReaders'
<1> USE DEF OnlyReaders
<1>0. current \in Proc /\ pc \in [Proc -> Locations]
  BY DEF Inv, TypeOK
<1>1. CASE UNCHANGED pc
  BY <1>1
<1>2. ASSUME NEW where, Goto(where),
             where \in {"kb_read", "kb_sleep"} => current \in KbReaders
      PROVE  OnlyReaders'
  BY <1>0, <1>2 DEF Goto
<1>3. CASE SystemCall
  BY <1>2, <1>3 DEF SystemCall
<1>4. CASE KbRead
  <2>1. current \in KbReaders
    BY <1>0, <1>4 DEF KbRead, Running
  <2>2. Goto("sysret") \/ Goto("kb_sleep")
    BY <1>4 DEF KbRead, sleep_on
  <2>. QED  BY <1>2, <2>1, <2>2
<1>5. CASE KbWoken
  <2>1. current \in KbReaders /\ Goto("kb_read")
    BY <1>0, <1>5 DEF KbWoken, Running
  <2>. QED  BY <1>2, <2>1
<1>6. CASE DoRead
  <2>1. Goto("panic") \/ Goto("sysret") \/ Goto("hd_sleep")
    BY <1>6 DEF DoRead, sleep_on
  <2>. QED  BY <1>2, <2>1
<1>7. CASE HdWoken
  <2>1. PICK where \in {"do_read", "sysret"} : Goto(where)
    BY <1>7 DEF HdWoken
  <2>. QED  BY <1>2, <2>1
<1>8. CASE ForkCopy
  <2>1. Goto("sysret") \/ Goto("mem_copy")
    BY <1>8 DEF ForkCopy
  <2>. QED  BY <1>2, <2>1
<1>9. CASE ForkDone
  <2>1. CASE pc' = [pc EXCEPT ![current] = "sysret", ![fork_child] = "user"]
    BY <1>0, <2>1
  <2>2. CASE Goto("sysret")
    BY <1>2, <2>2
  <2>. QED  BY <1>9, <2>1, <2>2 DEF ForkDone
<1>10. CASE RetWithSchedule
  BY <1>2, <1>10 DEF RetWithSchedule
<1>11. CASE \/ UNCHANGED vars \/ Panic \/ Schedule \/ WakeUp \/ RetFromInt \/ ClockInt
            \/ KbdInt \/ KbdSkip \/ HdInt \/ HdError
  <2>1. UNCHANGED pc
    BY <1>11 DEF vars, procVars, Panic, Schedule, WakeUp, RetFromInt, ClockInt, KbdInt,
         KbdSkip, HdInt, HdError
  <2>. QED  BY <1>1, <2>1
<1>. QED  BY <1>3, <1>4, <1>5, <1>6, <1>7, <1>8, <1>9, <1>10, <1>11
          DEF Next, ProcessStep

(***************************************************************************)
(* Outside schedule() and the walk of wake_up nobody falls off the run     *)
(* queue: a disk interrupt readies a process that is not on it.            *)
(***************************************************************************)
LEMMA QueueGrows ==
  ASSUME Inv, Next, cpu # "schedule", cpu = "wake_up" => waking = <<>>
  PROVE  Members(rq) \subseteq Members(rq')
<1>0. /\ current \in Proc /\ rq \in Queue /\ WellLinked(rq)
      /\ IDLE_TASK \in Proc /\ Members(rq) \subseteq Proc \ {IDLE_TASK}
  BY MembersType DEF Inv, TypeOK, RunQueueOK
<1>1. CASE UNCHANGED rq
  BY <1>1
<1>2. CASE HdInt
  <2>1. dev = "busy" /\ cpu = "run" /\ rq' = proc_ready(rq, waiter)
    BY <1>2 DEF HdInt, Interrupted, wake_up_process
  <2>2. req \in Seq(Proc) /\ req # <<>>
    BY <2>1 DEF Inv, TypeOK, DriveServesQueue
  <2>3. waiter \in ToSet(req)
    BY <2>2, TailDrops DEF waiter
  <2>4. waiter \in Proc /\ pc[waiter] = "hd_sleep" /\ ~filled[waiter]
    BY <2>3 DEF Inv, RequestsMatchSleepers
  <2>5. waiter \notin Members(rq) /\ waiter # IDLE_TASK
    BY <1>0, <2>1, <2>4 DEF Inv, ReadWaitsForData, KernelNotPreempted
  <2>. QED  BY <1>0, <2>1, <2>4, <2>5, ReadyAdds
<1>3. CASE ForkCopy
  <2>1. CASE FreeSlots = {}
    BY <1>1, <1>3, <2>1 DEF ForkCopy
  <2>2. CASE FreeSlots # {}
    <3>1. PICK child \in FreeSlots : child = get_free_proc_struct
      BY <2>2, LeastSlot DEF get_free_proc_struct
    <3>2. rq' = [rq EXCEPT !.next[child] = rq.next[current]]
      BY <1>3, <2>2, <3>1 DEF ForkCopy
    <3>3. child \in Proc /\ child \notin Members(rq)
      BY <3>1 DEF FreeSlots, Inv, FreeSlotsInert
    <3>4. rq.next[current] \in Proc \cup {NULL}
      BY <1>0 DEF Queue
    <3>. QED  BY <1>0, <3>2, <3>3, <3>4, RelinkUnqueued
  <2>. QED  BY <2>1, <2>2
<1>4. CASE ForkDone
  <2>1. CASE rq' = proc_ready(rq, fork_child)
    <3>1. fork_child \in Proc
      BY <1>4 DEF ForkDone, Running, Inv, TypeOK, KernelNotPreempted
    <3>2. pc[fork_child] = "none" /\ fork_child \notin Members(rq)
      BY <3>1 DEF Inv, FreeSlotsInert
    <3>3. fork_child # IDLE_TASK
      BY <3>2 DEF Inv, KernelNotPreempted
    <3>. QED  BY <1>0, <2>1, <3>1, <3>2, <3>3, ReadyAdds
  <2>. QED  BY <1>1, <1>4, <2>1 DEF ForkDone, wake_up_process
<1>5. CASE WakeUp
  BY <1>1, <1>5 DEF WakeUp
<1>6. CASE \/ SystemCall \/ KbRead \/ KbWoken \/ DoRead \/ HdWoken \/ RetWithSchedule
           \/ Panic \/ RetFromInt \/ ClockInt \/ KbdInt \/ KbdSkip \/ HdError
  BY <1>1, <1>6 DEF SystemCall, KbRead, KbWoken, DoRead, HdWoken, RetWithSchedule, Panic,
     vars, RetFromInt, ClockInt, KbdInt, KbdSkip, HdError
<1>. QED  BY <1>2, <1>3, <1>4, <1>5, <1>6 DEF Next, ProcessStep, Schedule

(***************************************************************************)
(* ReadyKeepsOthers (the comment at proc.c:105): where nobody reads the    *)
(* keyboard, only schedule() takes processes off the run queue.  The disk  *)
(* handler and do_fork only ready processes that are not on it.            *)
(***************************************************************************)
THEOREM ReadyKeepsOthersHolds ==
  ASSUME KbReaders = {}
  PROVE  Spec => ReadyKeepsOthers
<1>1. Init => Inv /\ OnlyReaders
  BY InitInv, InitReaders
<1>2. Inv /\ OnlyReaders /\ [Next]_vars => Inv' /\ OnlyReaders'
  BY NextInv, ReadersStep
<1>3. Inv /\ OnlyReaders /\ [Next]_vars
        => [cpu # "schedule" => Members(rq) \subseteq Members(rq')]_vars
  <2> SUFFICES ASSUME Inv, OnlyReaders, Next, cpu # "schedule"
               PROVE  Members(rq) \subseteq Members(rq')
    OBVIOUS
  <2>1. ToSet(kb_wait) = {}
    BY DEF Inv, SleepersQueued, OnlyReaders
  <2>2. waking \in Seq(Proc) /\ ToSet(waking) = {}
    BY <2>1 DEF Inv, TypeOK, KernelNotPreempted
  <2>3. waking = <<>>
    BY <2>2, TailDrops
  <2>. QED  BY <2>3, QueueGrows
<1>. QED  BY <1>1, <1>2, <1>3, PTL DEF Spec, ReadyKeepsOthers

-----------------------------------------------------------------------------
(***************************************************************************)
(* With one reader.  A key readies it, during the walk at the latest, and  *)
(* it stays readied until it has run: schedule() blocks only a process     *)
(* that has just gone to sleep, which it does when the ring is empty.      *)
(***************************************************************************)
OneReader == \A p, q \in KbReaders : p = q

ReaderReadied ==
  /\ \A p \in Proc : pc[p] = "kb_sleep" =>
       /\ cpu = "wake_up" => p \in Members(rq) \cup ToSet(waking)
       /\ cpu # "wake_up" /\ kb_count > 0 => p \in Members(rq)
  /\ cpu = "schedule" /\ pc[current] = "kb_sleep" => kb_count = 0

(***************************************************************************)
(* schedule() takes at most the process off the queue that called it.      *)
(***************************************************************************)
LEMMA ScheduleDrops ==
  ASSUME Inv, Schedule
  PROVE  Members(rq) \ {current} \subseteq Members(rq')
<1> DEFINE rr == RoundRobin
<1>1. /\ current \in Proc /\ rq \in Queue /\ WellLinked(rq)
      /\ current \in Members(rq) \cup {IDLE_TASK}
  <2>1. current \in Proc /\ rq \in Queue /\ WellLinked(rq)
    BY DEF Inv, TypeOK, RunQueueOK
  <2>2. current # NULL  BY <2>1 DEF Proc, NULL
  <2>. QED  BY <2>1, <2>2, HeadIsMember DEF Inv, CurrentIsHead
<1>2. rr \in Queue /\ WellLinked(rr) /\ Members(rr) = Members(rq)
  BY <1>1, RotateEffect DEF RoundRobin
<1> HIDE DEF rr
<1>3. Members(proc_block(rr, current)) = Members(rq) \ {current}
  BY <1>1, <1>2, BlockEffect
<1>4. rq' \in {proc_block(rr, current), rr}
  BY DEF Schedule, rr
<1>. QED  BY <1>2, <1>3, <1>4

LEMMA ReadiedStep ==
  ASSUME OneReader, Inv, OnlyReaders, ReaderReadied, [Next]_vars
  PROVE  ReaderReadied'
<1>0. /\ current \in Proc /\ rq \in Queue /\ WellLinked(rq) /\ pc \in [Proc -> Locations]
      /\ kb_count \in Nat /\ waking \in Seq(Proc)
      /\ IDLE_TASK \in Proc /\ Members(rq) \subseteq Proc \ {IDLE_TASK}
  BY MembersType, KernelAssumption DEF Inv, TypeOK, RunQueueOK
<1>1. ASSUME Members(rq) \subseteq Members(rq'), UNCHANGED <<kb_count>>,
             cpu # "wake_up", cpu' # "wake_up",
             \A p \in Proc : pc'[p] = "kb_sleep" => pc[p] = "kb_sleep",
             cpu' = "schedule" => pc'[current'] # "kb_sleep"
      PROVE  ReaderReadied'
  BY <1>1 DEF ReaderReadied
<1>2. CASE UNCHANGED vars
  BY <1>2 DEF ReaderReadied, vars, procVars, kbVars
<1>3. CASE KbdInt
  <2>1. cpu' = "wake_up" /\ waking' = kb_wait /\ UNCHANGED pc
    BY <1>3 DEF KbdInt, first_to_wake, procVars
  <2>2. \A p \in Proc : pc[p] = "kb_sleep" => p \in ToSet(kb_wait)
    BY DEF Inv, SleepersQueued
  <2>. QED  BY <2>1, <2>2 DEF ReaderReadied
<1>4. CASE WakeUp /\ waking # <<>>
  <2>1. /\ cpu = "wake_up" /\ cpu' = cpu /\ UNCHANGED <<pc, kb_count>>
        /\ rq' = proc_ready(rq, Head(waking))
    BY <1>4 DEF WakeUp, wake_up_process
  <2>2. Head(waking) \in Proc /\ Head(waking) \in ToSet(waking)
    BY <1>0, <1>4, TailDrops
  <2>3. pc[Head(waking)] = "kb_sleep"
    BY <2>2 DEF Inv, SleepersQueued, KernelNotPreempted
  <2>4. Head(waking) # IDLE_TASK
    BY <2>3 DEF Inv, KernelNotPreempted
  <2>5. Head(waking) \in Members(rq')
    BY <1>0, <2>1, <2>2, <2>4, ReadyAdds
  <2>6. \A p \in Proc : pc[p] = "kb_sleep" => p = Head(waking)
    BY <2>2, <2>3 DEF OnlyReaders, OneReader
  <2>. QED  BY <2>1, <2>5, <2>6 DEF ReaderReadied
<1>5. CASE WakeUp /\ waking = <<>>
  <2>1. /\ cpu = "wake_up" /\ cpu' = "ret_from_int" /\ UNCHANGED <<pc, kb_count, rq>>
    BY <1>5 DEF WakeUp
  <2>2. ToSet(waking) = {}
    BY <1>5 DEF ToSet
  <2>. QED  BY <2>1, <2>2 DEF ReaderReadied
<1>6. CASE Schedule
  <2>1. /\ cpu = "schedule" /\ cpu' = "run" /\ UNCHANGED <<pc, kb_count>>
    BY <1>6 DEF Schedule, kbVars
  <2>2. Members(rq) \ {current} \subseteq Members(rq')
    BY <1>6, ScheduleDrops
  <2>3. ASSUME NEW p \in Proc, pc[p] = "kb_sleep", kb_count > 0
        PROVE  p \in Members(rq')
    <3>1. p \in Members(rq)
      BY <2>1, <2>3 DEF ReaderReadied
    <3>2. p # current
      BY <1>0, <2>1, <2>3 DEF ReaderReadied
    <3>. QED  BY <2>2, <3>1, <3>2
  <2>. QED  BY <2>1, <2>3 DEF ReaderReadied
<1>7. CASE KbRead
  <2>1. cpu = "run" /\ pc[current] = "kb_read" /\ UNCHANGED <<rq, current>>
    BY <1>7 DEF KbRead, Running
  <2>2. CASE /\ kb_count > 0 /\ kb_count' = kb_count - 1
             /\ Goto("sysret") /\ cpu' = cpu
    <3>1. \A p \in Proc : pc'[p] = "kb_sleep" => pc[p] = "kb_sleep"
      BY <1>0, <2>2 DEF Goto
    <3>2. \A p \in Proc : pc'[p] = "kb_sleep" => p \in Members(rq')
      BY <2>1, <2>2, <3>1 DEF ReaderReadied
    <3>. QED  BY <2>1, <2>2, <3>2 DEF ReaderReadied
  <2>3. CASE kb_count = 0 /\ kb_count' = kb_count /\ cpu' = "schedule"
    BY <2>3 DEF ReaderReadied
  <2>. QED  BY <1>7, <2>2, <2>3 DEF KbRead, sleep_on
<1>8. CASE \/ SystemCall \/ KbWoken \/ DoRead \/ HdWoken \/ ForkCopy \/ ForkDone
           \/ RetWithSchedule \/ Panic
  <2>1. cpu = "run" /\ UNCHANGED <<kb_count, current>>
    BY <1>8 DEF SystemCall, KbWoken, DoRead, HdWoken, ForkCopy, ForkDone,
         RetWithSchedule, Panic, Running, kbVars, vars
  <2>2. Members(rq) \subseteq Members(rq')
    BY <1>8, <2>1, QueueGrows DEF Next, ProcessStep
  <2>3. /\ cpu' # "wake_up"
        /\ \/ \E where \in {"kb_read", "do_read", "do_fork", "panic", "sysret", "hd_sleep",
                            "mem_copy", "user"} : Goto(where)
           \/ pc' = [pc EXCEPT ![current] = "sysret", ![fork_child] = "user"]
           \/ pc' = pc /\ cpu' = cpu
    <3>1. CASE SystemCall  BY <2>1, <3>1 DEF SystemCall
    <3>2. CASE KbWoken  BY <2>1, <3>2 DEF KbWoken
    <3>3. CASE DoRead  BY <2>1, <3>3 DEF DoRead, sleep_on
    <3>4. CASE HdWoken  BY <2>1, <3>4 DEF HdWoken
    <3>5. CASE ForkCopy  BY <2>1, <3>5 DEF ForkCopy
    <3>6. CASE ForkDone  BY <2>1, <3>6 DEF ForkDone
    <3>7. CASE RetWithSchedule  BY <2>1, <3>7 DEF RetWithSchedule
    <3>8. CASE Panic  BY <2>1, <3>8 DEF Panic, vars, procVars
    <3>. QED  BY <1>8, <3>1, <3>2, <3>3, <3>4, <3>5, <3>6, <3>7, <3>8
  <2>4. /\ \A p \in Proc : pc'[p] = "kb_sleep" => pc[p] = "kb_sleep"
        /\ cpu' = "schedule" => pc'[current'] # "kb_sleep"
    BY <1>0, <2>1, <2>3 DEF Goto
  <2>. QED  BY <1>1, <2>1, <2>2, <2>3, <2>4
<1>9. CASE ClockInt \/ KbdSkip \/ HdInt \/ HdError
  <2>1. /\ cpu = "run" /\ cpu' = "ret_from_int" /\ UNCHANGED <<kb_count, pc>>
    BY <1>9 DEF ClockInt, KbdSkip, HdInt, HdError, Interrupted, kbVars, procVars
  <2>2. Members(rq) \subseteq Members(rq')
    BY <1>9, <2>1, QueueGrows DEF Next
  <2>. QED  BY <1>1, <2>1, <2>2
<1>10. CASE RetFromInt
  <2>1. /\ cpu = "ret_from_int" /\ UNCHANGED <<kb_count, pc, rq, current>>
        /\ cpu' \in {"schedule", "run"} /\ (cpu' = "schedule" => pc[current] = "user")
    BY <1>10 DEF RetFromInt, kbVars, procVars, resched
  <2>. QED  BY <1>1, <2>1
<1>. QED  BY <1>2, <1>3, <1>4, <1>5, <1>6, <1>7, <1>8, <1>9, <1>10
          DEF Next, ProcessStep

(***************************************************************************)
(* KeyNotMissed: a byte that is in the ring, whenever its interrupt came,  *)
(* never finds its reader asleep and off the run queue, because kb_read    *)
(* tests and goes to sleep under one cli (kb.c:154-161).  The hypothesis   *)
(* is that one program reads the keyboard, as in the image: with two, the  *)
(* first to be readied can be cut off by the second (kernel_requeue).      *)
(***************************************************************************)
THEOREM KeyNotMissedHolds ==
  ASSUME OneReader
  PROVE  Spec => []KeyNotMissed
<1> DEFINE I == Inv /\ OnlyReaders /\ ReaderReadied
<1>1. Init => I
  <2> SUFFICES ASSUME Init PROVE I
    OBVIOUS
  <2>1. cpu = "run" /\ kb_count = 0
    BY DEF Init
  <2>. QED  BY <2>1, InitInv, InitReaders DEF ReaderReadied
<1>2. I /\ [Next]_vars => I'
  BY NextInv, ReadersStep, ReadiedStep
<1>3. I => KeyNotMissed
  BY DEF ReaderReadied, KeyNotMissed
<1>. QED  BY <1>1, <1>2, <1>3, PTL DEF Spec

-----------------------------------------------------------------------------
(***************************************************************************)
(* Keyboard: what kb_line holds, beyond the number of bytes Kernel knows.  *)
(*                                                                         *)
(* The invariant replays kb_read on the bytes in the ring: sh and lk are   *)
(* shift and capslock as they will be before each of them is read.  At the *)
(* end they are what the keyboard is now, and on the way each key gets the *)
(* character that was meant.                                               *)
(***************************************************************************)
next_shift(code, s) ==
  IF code \in Shifts THEN TRUE ELSE IF code - 128 \in Shifts THEN FALSE ELSE s

next_caps(code, c) == IF code = CAPSLOCK THEN ~c ELSE c

character(code, s, c) == IF released(code) THEN "none" ELSE map_key(code, s, c)

At(k) == IF tail + k < KB_BUF_SIZE THEN tail + k ELSE tail + k - KB_BUF_SIZE

Replays(sh, lk) ==
  /\ sh[0] = shift /\ lk[0] = capslock
  /\ sh[kb_count] = (held # {}) /\ lk[kb_count] = caps
  /\ \A k \in 0..(kb_count - 1) :
       /\ sh[k + 1] = next_shift(buf[At(k)], sh[k])
       /\ lk[k + 1] = next_caps(buf[At(k)], lk[k])
       /\ meant[k + 1] = character(buf[At(k)], sh[k + 1], lk[k + 1])

History ==
  /\ held # Shifts /\ meant \in Seq({"none", "A", "a"}) /\ Len(meant) = kb_count
  /\ \E sh, lk \in [0..kb_count -> BOOLEAN] : Replays(sh, lk)

KeyLine ==
  /\ head \in 0..(KB_BUF_SIZE - 1) /\ tail \in 0..(KB_BUF_SIZE - 1)
  /\ head = At(kb_count) /\ DOMAIN buf = 0..(KB_BUF_SIZE - 1)
  /\ shift \in BOOLEAN /\ capslock \in BOOLEAN /\ caps \in BOOLEAN
  /\ held \subseteq Shifts /\ exact \in BOOLEAN
  /\ exact => History

LEMMA LineType ==
  ASSUME Inv
  PROVE  KB_BUF_SIZE \in Nat \ {0} /\ kb_count \in 0..KB_BUF_SIZE
BY KernelAssumption DEF Inv, TypeOK

LEMMA CharacterType ==
  ASSUME NEW code, NEW s, NEW c
  PROVE  character(code, s, c) \in {"none", "A", "a"}
BY DEF character, map_key, keymap

LEMMA InitLine == KeyInit => KeyLine
<1> SUFFICES ASSUME KeyInit PROVE KeyLine
  OBVIOUS
<1>1. /\ head = 0 /\ tail = 0 /\ kb_count = 0 /\ shift = FALSE /\ capslock = FALSE
      /\ held = {} /\ caps = FALSE /\ meant = <<>> /\ exact = TRUE
      /\ DOMAIN buf = 0..(KB_BUF_SIZE - 1)
  BY DEF KeyInit, kb_init, Init
<1>2. KB_BUF_SIZE \in Nat \ {0}
  BY KernelAssumption
<1>3. head \in 0..(KB_BUF_SIZE - 1) /\ tail \in 0..(KB_BUF_SIZE - 1) /\ head = At(kb_count)
  BY <1>1, <1>2 DEF At
<1>4. held # Shifts /\ meant \in Seq({"none", "A", "a"}) /\ Len(meant) = kb_count
  BY <1>1 DEF Shifts
<1>5. PICK off : off = [k \in 0..kb_count |-> FALSE]
  OBVIOUS
<1>6. off \in [0..kb_count -> BOOLEAN] /\ off[0] = FALSE /\ off[kb_count] = FALSE
  BY <1>1, <1>5
<1>7. Replays(off, off)
  <2>1. 0..(kb_count - 1) = {} /\ (held # {}) = FALSE
    BY <1>1
  <2>. QED  BY <1>1, <1>6, <2>1 DEF Replays
<1>8. History
  BY <1>4, <1>6, <1>7 DEF History
<1>. QED  BY <1>1, <1>3, <1>8 DEF KeyLine

(***************************************************************************)
(* kb_read takes the first byte: the replay has said what it will do.      *)
(***************************************************************************)
LEMMA TakeMeans ==
  ASSUME Inv, KeyLine, TakeKey, exact
  PROVE  /\ returned(buf[tail]) = meant[1] /\ returned(buf[tail]) = Head(meant)
         /\ shift' = next_shift(buf[tail], shift) /\ capslock' = next_caps(buf[tail], capslock)
<1>1. PICK n \in Nat : n = kb_count
  BY LineType
<1>2. kb_count > 0 /\ status_process(buf[tail]) /\ tail \in 0..(KB_BUF_SIZE - 1)
  BY DEF TakeKey, KeyLine
<1>3. PICK sh, lk : Replays(sh, lk)
  BY DEF KeyLine, History
<1>4. 0 \in 0..(kb_count - 1) /\ At(0) = tail
  BY <1>1, <1>2, LineType DEF At
<1>5. /\ sh[0] = shift /\ lk[0] = capslock
      /\ sh[0 + 1] = next_shift(buf[tail], sh[0])
      /\ lk[0 + 1] = next_caps(buf[tail], lk[0])
      /\ meant[0 + 1] = character(buf[tail], sh[0 + 1], lk[0 + 1])
  BY <1>3, <1>4 DEF Replays
<1>6. shift' = next_shift(buf[tail], shift) /\ capslock' = next_caps(buf[tail], capslock)
  BY <1>2 DEF status_process, next_shift, next_caps
<1>7. shift' = sh[0 + 1] /\ capslock' = lk[0 + 1]
  BY <1>5, <1>6
<1>8. returned(buf[tail]) = meant[0 + 1]
  BY <1>5, <1>7 DEF returned, character
<1>9. Head(meant) = meant[1]
  BY <1>1, <1>2 DEF KeyLine, History
<1>. QED  BY <1>6, <1>8, <1>9

LEMMA TakeLine ==
  ASSUME Inv, KeyLine, TakeKey
  PROVE  KeyLine'
<1>1. PICK n \in Nat \ {0} : n = kb_count
  BY LineType DEF TakeKey
<1>2. PICK size \in Nat \ {0} : size = KB_BUF_SIZE
  BY LineType
<1>3. PICK t \in 0..(size - 1) : t = tail
  BY <1>2 DEF KeyLine
<1>4. /\ n <= size /\ kb_count' = n - 1 /\ tail' = (IF t + 1 = size THEN 0 ELSE t + 1)
      /\ tail' \in 0..(size - 1)
  <2>1. n <= size
    BY <1>1, <1>2, LineType
  <2>2. kb_count' = n - 1
    BY <1>1 DEF TakeKey, KbRead
  <2>. QED  BY <1>2, <1>3, <2>1, <2>2 DEF TakeKey, wrap
<1>5. ASSUME NEW k \in 0..(n - 1) PROVE At(k)' = At(k + 1)
  BY <1>2, <1>3, <1>4 DEF At
<1>6. ASSUME NEW k \in 1..(n - 1) PROVE At(k) # t /\ At(k) \in 0..(size - 1)
  BY <1>2, <1>3, <1>4 DEF At
<1>7. /\ head' = head /\ held' = held /\ caps' = caps /\ exact' = exact
      /\ buf' = [buf EXCEPT ![tail] = NO_CHAR]
      /\ meant' = (IF exact THEN Tail(meant) ELSE <<>>)
  BY DEF TakeKey
<1>8. head' = At(kb_count)'
  <2>1. head = At(n) /\ n - 1 \in 0..(n - 1) /\ (n - 1) + 1 = n
    BY <1>1 DEF KeyLine
  <2>2. At(n - 1)' = At(n)
    BY <1>5, <2>1
  <2>3. At(kb_count)' = At(n - 1)'
    BY <1>4 DEF At
  <2>. QED  BY <1>7, <2>1, <2>2, <2>3
<1>9. shift' \in BOOLEAN /\ capslock' \in BOOLEAN
  BY DEF TakeKey, status_process, KeyLine
<1>10. ASSUME exact PROVE History'
  <2>1. PICK sh \in [0..n -> BOOLEAN], lk \in [0..n -> BOOLEAN] : Replays(sh, lk)
    BY <1>1, <1>10 DEF KeyLine, History
  <2>2. PICK sh1 : sh1 = [k \in 0..(n - 1) |-> sh[k + 1]]
    OBVIOUS
  <2>3. PICK lk1 : lk1 = [k \in 0..(n - 1) |-> lk[k + 1]]
    OBVIOUS
  <2>4. \A k \in 0..(n - 1) : k + 1 \in 0..n
    BY <1>1
  <2>5. /\ sh1 \in [0..kb_count' -> BOOLEAN] /\ lk1 \in [0..kb_count' -> BOOLEAN]
    BY <1>4, <2>2, <2>3, <2>4
  <2>6. 0 \in 0..(n - 1) /\ n - 1 \in 0..(n - 1) /\ (n - 1) + 1 = n /\ 0 + 1 = 1
        /\ At(0) = tail
    BY <1>1, <1>2, <1>3 DEF At
  <2>7. /\ sh[0] = shift /\ lk[0] = capslock /\ sh[n] = (held # {}) /\ lk[n] = caps
        /\ \A k \in 0..(n - 1) :
             /\ sh[k + 1] = next_shift(buf[At(k)], sh[k])
             /\ lk[k + 1] = next_caps(buf[At(k)], lk[k])
             /\ meant[k + 1] = character(buf[At(k)], sh[k + 1], lk[k + 1])
    BY <1>1, <2>1 DEF Replays
  <2>8. sh1[0] = shift' /\ lk1[0] = capslock'
    <3>1. sh1[0] = sh[1] /\ lk1[0] = lk[1]
      BY <2>2, <2>3, <2>6
    <3>2. sh[1] = next_shift(buf[tail], shift) /\ lk[1] = next_caps(buf[tail], capslock)
      BY <2>6, <2>7
    <3>. QED  BY <1>10, <3>1, <3>2, TakeMeans
  <2>9. sh1[kb_count'] = (held' # {}) /\ lk1[kb_count'] = caps'
    BY <1>4, <1>7, <2>2, <2>3, <2>6, <2>7
  <2>10. meant' = Tail(meant) /\ meant \in Seq({"none", "A", "a"}) /\ Len(meant) = n
    BY <1>1, <1>7, <1>10 DEF KeyLine, History
  <2>11. ASSUME NEW k \in 0..(n - 2)
         PROVE  /\ sh1[k + 1] = next_shift(buf'[At(k)'], sh1[k])
                /\ lk1[k + 1] = next_caps(buf'[At(k)'], lk1[k])
                /\ meant'[k + 1] = character(buf'[At(k)'], sh1[k + 1], lk1[k + 1])
    <3>1. PICK j \in 1..(n - 1) : j = k + 1
      BY <1>1
    <3>2. /\ k \in 0..(n - 1) /\ j \in 0..(n - 1) /\ n \in Nat
      BY <1>1, <3>1
    <3>3. At(k)' = At(j)
      BY <1>5, <3>1, <3>2
    <3>4. buf'[At(k)'] = buf[At(j)]
      BY <1>2, <1>3, <1>6, <1>7, <3>1, <3>3 DEF KeyLine
    <3>5. /\ sh1[k] = sh[j] /\ sh1[j] = sh[j + 1] /\ lk1[k] = lk[j] /\ lk1[j] = lk[j + 1]
      BY <2>2, <2>3, <3>1, <3>2
    <3>6. meant'[j] = meant[j + 1]
      BY <1>1, <2>10, <3>1
    <3>7. /\ sh[j + 1] = next_shift(buf[At(j)], sh[j])
          /\ lk[j + 1] = next_caps(buf[At(j)], lk[j])
          /\ meant[j + 1] = character(buf[At(j)], sh[j + 1], lk[j + 1])
      BY <2>7, <3>2
    <3>. QED  BY <3>1, <3>4, <3>5, <3>6, <3>7
  <2>12. 0..(kb_count' - 1) = 0..(n - 2)
    BY <1>1, <1>4
  <2>13. Replays(sh1, lk1)'
    BY <2>8, <2>9, <2>11, <2>12 DEF Replays
  <2>14. held' # Shifts'
    BY <1>7, <1>10 DEF KeyLine, History, Shifts, LSHIFT, RSHIFT
  <2>15. meant' \in Seq({"none", "A", "a"}) /\ Len(meant') = kb_count'
    BY <1>1, <1>4, <2>10
  <2>. QED  BY <2>5, <2>13, <2>14, <2>15 DEF History
<1>11. DOMAIN buf' = 0..(KB_BUF_SIZE - 1)
  BY <1>7 DEF KeyLine
<1>12. /\ head' \in 0..(KB_BUF_SIZE - 1) /\ tail' \in 0..(KB_BUF_SIZE - 1)
       /\ caps' \in BOOLEAN /\ held' \subseteq Shifts /\ exact' \in BOOLEAN
  BY <1>2, <1>4, <1>7 DEF KeyLine
<1>13. exact' => History'
  BY <1>7, <1>10
<1>. QED  BY <1>8, <1>9, <1>11, <1>12, <1>13 DEF KeyLine

(***************************************************************************)
(* A step that leaves the bytes and the states alone.                      *)
(***************************************************************************)
LEMMA UnkeyedLine ==
  ASSUME KeyLine, Unkeyed, kb_count' = kb_count
  PROVE  KeyLine'
<1>1. /\ UNCHANGED <<buf, head, tail, shift, capslock, held, caps, meant, exact, kb_count>>
  BY DEF Unkeyed, lineVars, history
<1>. QED  BY <1>1 DEF KeyLine, History, Replays, At

(***************************************************************************)
(* kbd_int stores the last byte behind the others, or none.  While at most *)
(* one shift key is down, the one variable of kb.c can tell whether any is.*)
(***************************************************************************)
LEMMA ShiftFollows ==
  ASSUME held \subseteq Shifts, held # Shifts, NEW code, Possible(code),
         NEW down, down = IF code \in Shifts THEN held \cup {code} ELSE held \ {code - 128}
  PROVE  next_shift(code, held # {}) = (down # {})
<1>1. CASE code \in Shifts
  BY <1>1 DEF next_shift
<1>2. CASE code \notin Shifts /\ code - 128 \in Shifts
  <2>1. code - 128 \in held /\ held \subseteq Shifts /\ held # Shifts
    BY <1>2 DEF Possible
  <2>2. \A a, b \in held : a = b
    BY <2>1 DEF Shifts
  <2>3. down = {}
    BY <1>2, <2>1, <2>2
  <2>. QED  BY <1>2, <2>3 DEF next_shift
<1>3. CASE code \notin Shifts /\ code - 128 \notin Shifts
  <2>1. down = held
    BY <1>3
  <2>. QED  BY <1>3, <2>1 DEF next_shift
<1>. QED  BY <1>1, <1>2, <1>3

LEMMA StoreLine ==
  ASSUME Inv, KeyLine, NEW bytes, Last(bytes) \in Codes, kbd_int(bytes)
  PROVE  KeyLine'
<1>1. PICK n \in Nat : n = kb_count
  BY LineType
<1>2. PICK size \in Nat \ {0} : size = KB_BUF_SIZE /\ n <= size
  BY <1>1, LineType
<1>3. PICK t \in 0..(size - 1) : t = tail
  BY <1>2 DEF KeyLine
<1>4. PICK h \in 0..(size - 1) : h = head /\ h = At(n)
  BY <1>1, <1>2 DEF KeyLine
<1>c. PICK code : code = Last(bytes) /\ code \in Codes
  OBVIOUS
<1>5. PICK down : down = IF code \in Shifts THEN held \cup {code} ELSE held \ {code - 128}
  OBVIOUS
<1>6. PICK lock : lock = IF code = CAPSLOCK THEN ~caps ELSE caps
  OBVIOUS
<1>7. PICK char : char = character(code, down # {}, lock)
  OBVIOUS
<1>s. PICK st \in BOOLEAN : st = stores(code)
  BY DEF stores
<1>8. PICK still \in BOOLEAN :
        still = (exact /\ unseen(bytes) \cap Modifiers = {} /\ down # Shifts)
  BY DEF KeyLine
<1>9. /\ exact' = still /\ held' = (IF still THEN down ELSE {}) /\ caps' = (still /\ lock)
      /\ meant' = (IF ~still THEN <<>> ELSE IF st THEN Append(meant, char) ELSE meant)
  <2>1. Struck(code, unseen(bytes))
    BY <1>c DEF kbd_int
  <2>. QED  BY <2>1, <1>5, <1>6, <1>7, <1>8, <1>s DEF Struck, character
<1>k. /\ IF code = LOCK_UP THEN KbdSkip ELSE KbdInt
      /\ StoreKey(code)
      /\ UNCHANGED <<tail, shift, capslock>>
  BY <1>c DEF kbd_int
<1>10. /\ tail' = tail /\ shift' = shift /\ capslock' = capslock
       /\ kb_count' = IF st THEN n + 1 ELSE n
       /\ (st <=> code # LOCK_UP /\ n < size)
  BY <1>1, <1>2, <1>s, <1>k DEF KbdInt, KbdSkip, kbVars, stored_count, stores
<1>11. CASE ~st
  <2>1. buf' = buf /\ head' = head /\ kb_count' = kb_count
    BY <1>1, <1>s, <1>k, <1>10, <1>11 DEF StoreKey
  <2>2. At(kb_count)' = At(kb_count)
    BY <1>10, <2>1 DEF At
  <2>3. ASSUME still
        PROVE  exact /\ exact' /\ held' = held /\ caps' = caps /\ meant' = meant
    <3>1. exact /\ code \notin Modifiers
      BY <1>8, <1>c, <1>s, <1>11, <2>3 DEF unseen
    <3>2. code # CAPSLOCK /\ code \notin Shifts /\ \A s \in Shifts : code # s + 128
      BY <3>1 DEF Modifiers
    <3>3. code \in Int /\ held \subseteq Shifts /\ Shifts \subseteq Int
      BY <1>c DEF KeyLine, Codes, Modifiers, LETTER, NO_CHAR, LOCK_UP, CAPSLOCK, Shifts,
         LSHIFT, RSHIFT
    <3>4. code - 128 \notin held
      BY <3>2, <3>3
    <3>5. down = held /\ lock = caps
      BY <1>5, <1>6, <3>2, <3>4
    <3>. QED  BY <1>9, <1>11, <2>3, <3>1, <3>5 DEF KeyLine
  <2>4. ASSUME ~still PROVE exact' = FALSE /\ held' = {} /\ caps' = FALSE
    BY <1>9, <2>4
  <2>5. exact' => History'
    <3>1. still => History
      BY <2>3 DEF KeyLine
    <3>2. ASSUME still PROVE History'
      <4>1. Unkeyed /\ kb_count' = kb_count
        BY <1>10, <2>1, <2>3, <3>2 DEF Unkeyed, lineVars, history
      <4>2. KeyLine' /\ exact'
        BY <2>3, <3>2, <4>1, UnkeyedLine
      <4>. QED  BY <4>2 DEF KeyLine
    <3>. QED  BY <1>9, <3>2
  <2>6. held' \subseteq Shifts /\ caps' \in BOOLEAN /\ exact' \in BOOLEAN
    BY <1>9, <2>3, <2>4 DEF KeyLine
  <2>7. Shifts' = Shifts
    BY DEF Shifts, LSHIFT, RSHIFT
  <2>. QED  BY <1>10, <2>1, <2>2, <2>5, <2>6, <2>7 DEF KeyLine
<1>12. CASE st
  <2>1. /\ buf' = [buf EXCEPT ![h] = code] /\ kb_count' = n + 1 /\ n < size
        /\ head' = IF h + 1 = size THEN 0 ELSE h + 1
    BY <1>2, <1>4, <1>s, <1>k, <1>10, <1>12 DEF StoreKey, wrap
  <2>2. /\ DOMAIN buf' = 0..(size - 1) /\ DOMAIN buf = 0..(size - 1)
        /\ head' \in 0..(size - 1)
    BY <1>2, <1>4, <2>1 DEF KeyLine
  <2>3. head' = At(kb_count)'
    BY <1>2, <1>3, <1>4, <1>10, <2>1 DEF At
  <2>4. ASSUME NEW k \in 0..(n - 1)
        PROVE  At(k)' = At(k) /\ buf'[At(k)'] = buf[At(k)]
    <3>1. At(k)' = At(k)
      BY <1>10 DEF At
    <3>2. At(k) # h /\ At(k) \in 0..(size - 1)
      BY <1>1, <1>2, <1>3, <1>4, <2>1 DEF At
    <3>. QED  BY <2>1, <2>2, <3>1, <3>2
  <2>5. At(n)' = h /\ buf'[At(n)'] = code
    <3>1. At(n)' = At(n)
      BY <1>10 DEF At
    <3>. QED  BY <1>4, <2>1, <2>2, <3>1
  <2>6. ASSUME still PROVE History'
    <3>1. exact /\ down # Shifts /\ Possible(code)
      BY <1>8, <1>c, <2>6 DEF kbd_int
    <3>2. PICK sh \in [0..n -> BOOLEAN], lk \in [0..n -> BOOLEAN] : Replays(sh, lk)
      BY <1>1, <3>1 DEF KeyLine, History
    <3>3. /\ sh[0] = shift /\ lk[0] = capslock /\ sh[n] = (held # {}) /\ lk[n] = caps
          /\ \A k \in 0..(n - 1) :
               /\ sh[k + 1] = next_shift(buf[At(k)], sh[k])
               /\ lk[k + 1] = next_caps(buf[At(k)], lk[k])
               /\ meant[k + 1] = character(buf[At(k)], sh[k + 1], lk[k + 1])
      BY <1>1, <3>2 DEF Replays
    <3>4. PICK sh1 : sh1 = [k \in 0..(n + 1) |-> IF k = n + 1 THEN down # {} ELSE sh[k]]
      OBVIOUS
    <3>5. PICK lk1 : lk1 = [k \in 0..(n + 1) |-> IF k = n + 1 THEN lock ELSE lk[k]]
      OBVIOUS
    <3>6. lock \in BOOLEAN
      BY <1>6 DEF KeyLine
    <3>7. /\ sh1 \in [0..(n + 1) -> BOOLEAN] /\ lk1 \in [0..(n + 1) -> BOOLEAN]
      <4>1. \A k \in 0..(n + 1) : k # n + 1 => k \in 0..n
        OBVIOUS
      <4>2. \A k \in 0..(n + 1) : (IF k = n + 1 THEN down # {} ELSE sh[k]) \in BOOLEAN
        BY <4>1
      <4>3. \A k \in 0..(n + 1) : (IF k = n + 1 THEN lock ELSE lk[k]) \in BOOLEAN
        BY <3>6, <4>1
      <4>. QED  BY <3>4, <3>5, <4>2, <4>3
    <3>8. /\ sh1[n + 1] = (down # {}) /\ lk1[n + 1] = lock
          /\ \A k \in 0..n : sh1[k] = sh[k] /\ lk1[k] = lk[k]
      BY <3>4, <3>5
    <3>9. 0 \in 0..n /\ n \in 0..n
      OBVIOUS
    <3>10. held \subseteq Shifts /\ held # Shifts /\ meant \in Seq({"none", "A", "a"})
           /\ Len(meant) = n
      BY <1>1, <3>1 DEF KeyLine, History
    <3>11. meant' = Append(meant, char) /\ char \in {"none", "A", "a"}
      BY <1>7, <1>9, <1>12, <2>6, CharacterType
    <3>12. /\ meant' \in Seq({"none", "A", "a"}) /\ Len(meant') = n + 1
           /\ meant'[n + 1] = char /\ \A k \in 0..(n - 1) : meant'[k + 1] = meant[k + 1]
      BY <3>10, <3>11
    <3>13. ASSUME NEW k \in 0..(n - 1)
           PROVE  /\ sh1[k + 1] = next_shift(buf'[At(k)'], sh1[k])
                  /\ lk1[k + 1] = next_caps(buf'[At(k)'], lk1[k])
                  /\ meant'[k + 1] = character(buf'[At(k)'], sh1[k + 1], lk1[k + 1])
      <4>1. k \in 0..n /\ k + 1 \in 0..n
        OBVIOUS
      <4>2. sh1[k] = sh[k] /\ lk1[k] = lk[k] /\ sh1[k + 1] = sh[k + 1] /\ lk1[k + 1] = lk[k + 1]
        BY <3>8, <4>1
      <4>. QED  BY <2>4, <3>3, <3>12, <4>2
    <3>14. /\ sh1[n + 1] = next_shift(buf'[At(n)'], sh1[n])
           /\ lk1[n + 1] = next_caps(buf'[At(n)'], lk1[n])
           /\ meant'[n + 1] = character(buf'[At(n)'], sh1[n + 1], lk1[n + 1])
      <4>1. sh1[n] = (held # {}) /\ lk1[n] = caps
        BY <3>3, <3>8, <3>9
      <4>2. (down # {}) = next_shift(code, held # {})
        BY <1>5, <3>1, <3>10, ShiftFollows
      <4>3. lock = next_caps(code, caps)
        BY <1>6 DEF next_caps
      <4>. QED  BY <1>7, <2>5, <3>8, <3>12, <4>1, <4>2, <4>3
    <3>15. \A k \in 0..(kb_count' - 1) : k \in 0..(n - 1) \/ k = n
      BY <2>1
    <3>16. sh1[0] = shift' /\ lk1[0] = capslock'
      BY <1>10, <3>3, <3>8, <3>9
    <3>17. sh1[kb_count'] = (held' # {}) /\ lk1[kb_count'] = caps'
      BY <1>9, <2>1, <2>6, <3>6, <3>8
    <3>18. Replays(sh1, lk1)'
      BY <3>13, <3>14, <3>15, <3>16, <3>17 DEF Replays
    <3>19. held' # Shifts'
      BY <1>9, <2>6, <3>1 DEF Shifts, LSHIFT, RSHIFT
    <3>20. meant' \in Seq({"none", "A", "a"}) /\ Len(meant') = kb_count'
      BY <2>1, <3>12
    <3>21. sh1 \in [0..kb_count' -> BOOLEAN] /\ lk1 \in [0..kb_count' -> BOOLEAN]
      BY <2>1, <3>7
    <3>. QED  BY <3>18, <3>19, <3>20, <3>21 DEF History
  <2>7. held' \subseteq Shifts
    BY <1>5, <1>9 DEF KeyLine
  <2>8. caps' \in BOOLEAN
    BY <1>6, <1>9 DEF KeyLine
  <2>9. /\ shift' \in BOOLEAN /\ capslock' \in BOOLEAN /\ tail' \in 0..(KB_BUF_SIZE - 1)
    BY <1>10 DEF KeyLine
  <2>10. exact' \in BOOLEAN /\ (exact' => History')
    BY <1>9, <2>6
  <2>11. head' \in 0..(KB_BUF_SIZE - 1) /\ DOMAIN buf' = 0..(KB_BUF_SIZE - 1)
    BY <1>2, <2>2
  <2>12. Shifts' = Shifts
    BY DEF Shifts, LSHIFT, RSHIFT
  <2>. QED  BY <2>3, <2>7, <2>8, <2>9, <2>10, <2>11, <2>12 DEF KeyLine
<1>. QED  BY <1>11, <1>12

LEMMA LineStep ==
  ASSUME Inv, KeyLine, [KeyNext]_keyVars
  PROVE  KeyLine'
<1>1. CASE UNCHANGED keyVars
  BY <1>1, UnkeyedLine DEF keyVars, Unkeyed, vars, kbVars
<1>2. CASE TakeKey
  BY <1>2, TakeLine
<1>3. ASSUME NEW n \in 1..MaxBytes, NEW bytes \in [1..n -> Codes], kbd_int(bytes)
      PROVE  KeyLine'
  <2>1. Last(bytes) \in Codes
    BY KeyboardAssumption DEF Last
  <2>. QED  BY <1>3, <2>1, StoreLine
<1>4. CASE KbRead /\ kb_count = 0 /\ Unkeyed
  BY <1>4, UnkeyedLine DEF KbRead
<1>5. CASE /\ Unkeyed
           /\ \/ KbWoken \/ DoRead \/ HdWoken \/ ForkCopy \/ ForkDone \/ RetWithSchedule
              \/ Panic \/ Schedule \/ WakeUp \/ RetFromInt \/ ClockInt
              \/ SystemCall \/ HdInt \/ HdError
  <2>1. kb_count' = kb_count
    BY <1>5 DEF KbWoken, DoRead, HdWoken, ForkCopy, ForkDone, RetWithSchedule, Panic,
       vars, kbVars, Schedule, WakeUp, RetFromInt, ClockInt, SystemCall, HdInt, HdError
  <2>. QED  BY <1>5, <2>1, UnkeyedLine
<1>. QED  BY <1>1, <1>2, <1>3, <1>4, <1>5 DEF KeyNext, KeyProcessStep, CpuStep, Tick

(***************************************************************************)
(* Keyboard implements Kernel: with the bytes forgotten, every step is one *)
(* of Kernel's, so all its invariants hold of Keyboard as well.            *)
(***************************************************************************)
THEOREM KeyboardIsKernel == KeySpec => Spec
<1>1. KeyInit => Init
  BY DEF KeyInit
<1>2. [KeyNext]_keyVars => [Next]_vars
  <2>1. KeyNext => Next
    BY DEF KeyNext, KeyProcessStep, TakeKey, CpuStep, Tick, kbd_int, Next, ProcessStep
  <2>2. UNCHANGED keyVars => UNCHANGED vars
    BY DEF keyVars
  <2>. QED  BY <2>1, <2>2
<1>. QED  BY <1>1, <1>2, PTL DEF KeySpec, Spec

(***************************************************************************)
(* KeysAsStruck (kb.c:73-177): for every number of readers, every size of  *)
(* the ring, whatever is struck and however many bytes an interrupt finds, *)
(* what kb_read returns is what the key stood for when it was struck,      *)
(* until a byte of a shift or of caps lock is lost or both shifts are down.*)
(***************************************************************************)
THEOREM KeysAsStruckHolds == KeySpec => KeysAsStruck
<1>1. KeySpec => []Inv
  BY KeyboardIsKernel, Invariance, PTL
<1>2. KeyInit => KeyLine
  BY InitLine
<1>3. Inv /\ KeyLine /\ [KeyNext]_keyVars => KeyLine'
  BY LineStep
<1>4. Inv /\ KeyLine /\ [KeyNext]_keyVars
        => [TakeKey /\ exact => returned(buf[tail]) = Head(meant)]_keyVars
  BY TakeMeans
<1>. QED  BY <1>1, <1>2, <1>3, <1>4, PTL DEF KeySpec, KeysAsStruck
=============================================================================
