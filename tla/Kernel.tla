------------------------------- MODULE Kernel -------------------------------
(***************************************************************************)
(* The multitasking core of KITOS: processes, the round-robin scheduler,   *)
(* sleep_on/wake_up, fork, the blocking keyboard and disk reads, and the   *)
(* clock, keyboard and disk interrupts that interleave with them.          *)
(*                                                                         *)
(* One CPU runs it all.  `cpu' says what that CPU executes: the code of    *)
(* process `current' ("run"), schedule(), the loop of wake_up() in the     *)
(* keyboard handler, or the tail of an interrupt, ret_from_int.  `intr' is *)
(* the IF flag: an interrupt is taken only while it is TRUE.  The kernel   *)
(* never preempts itself, so between two points at which IF is set the     *)
(* code of one process is one step.                                        *)
(***************************************************************************)
EXTENDS RunQueue, WaitQueue

CONSTANTS
  Quantum,        \* ticks given to a process (the 10 of proc.c and fork.c)
  KB_BUF_SIZE,    \* bytes of the keyboard ring (kb.h: 32)
  BUF_SIZE,       \* slots of the disk request ring (hd.c: 5)
  KbReaders,      \* processes whose program calls kbread()
  DiskReaders,    \* processes whose program reads files
  Forkers,        \* processes whose program calls fork()
  HdMayFail       \* may the drive interrupt without offering data?

ASSUME KernelAssumption ==
  /\ Quantum \in Nat /\ KB_BUF_SIZE \in Nat \ {0} /\ BUF_SIZE \in Nat \ {0}
  /\ KbReaders \subseteq Proc \ {IDLE_TASK}
  /\ DiskReaders \subseteq Proc \ {IDLE_TASK}
  /\ Forkers \subseteq Proc \ {IDLE_TASK}
  /\ HdMayFail \in BOOLEAN

VARIABLES
  cpu, intr, current,    \* the CPU, its IF flag, the process it serves
  rq,                    \* ready_head, ready_tail and the next pointers
  flags,                 \* p |-> is P_IN_USE set
  status,                \* p |-> TASK_RUNNING, TASK_INTERRUPT, ...
  counter, need_resched, \* p |-> the fields of struct proc
  pc,                    \* p |-> where p's kernel thread stands
  fork_child,            \* do_fork's local `child'
  kb_count, kb_wait,     \* kb_line.count and kb_wait_list, head first
  waking,                \* the part of kb_wait_list wake_up has yet to visit
  req, hd_wait,          \* waiters of the queued requests; hd_wait_list
  filled,                \* p |-> has in_words() filled p's buffer
  dev                    \* the drive: "idle", "busy" or "failed"

procVars == <<flags, status, counter, need_resched, pc, fork_child>>
kbVars == <<kb_count, kb_wait, waking>>
hdVars == <<req, hd_wait, filled, dev>>
vars == <<cpu, intr, current, rq, procVars, kbVars, hdVars>>

TASK_RUNNING == 1
TASK_STOPED == 2
TASK_INTERRUPT == 3

-----------------------------------------------------------------------------
(***************************************************************************)
(* start_kernel, at the jump into ret_with_schedule: proc_init has made    *)
(* the idle task current and readied init; every driver has run its init   *)
(* routine with interrupts off.                                            *)
(***************************************************************************)
Init ==
  /\ cpu = "run" /\ intr = FALSE /\ current = IDLE_TASK
  /\ rq = proc_ready(proc_ready(EmptyQueue, IDLE_TASK), INIT_TASK)
  /\ flags = [p \in Proc |-> p \in {IDLE_TASK, INIT_TASK}]
  /\ status = [p \in Proc |-> IF p <= INIT_TASK THEN TASK_RUNNING ELSE 0]
  /\ counter = [p \in Proc |-> IF p <= INIT_TASK THEN Quantum ELSE 0]
  /\ need_resched = [p \in Proc |-> p = IDLE_TASK]
  /\ pc = [p \in Proc |-> IF p = IDLE_TASK THEN "sysret"
                          ELSE IF p = INIT_TASK THEN "user" ELSE "none"]
  /\ fork_child = NULL
  /\ kb_count = 0 /\ kb_wait = <<>> /\ waking = <<>>
  /\ req = <<>> /\ hd_wait = <<>> /\ dev = "idle"
  /\ filled = [p \in Proc |-> FALSE]

-----------------------------------------------------------------------------
(***************************************************************************)
(* The current process.  A program in user mode may make a system call,    *)
(* which enters the kernel with interrupts on (the sti of system_call).    *)
(***************************************************************************)
Running(where) == cpu = "run" /\ pc[current] = where

Goto(where) == pc' = [pc EXCEPT ![current] = where]

SystemCall ==
  /\ Running("user")
  /\ \/ current \in KbReaders /\ Goto("kb_read")
     \/ current \in DiskReaders /\ Goto("do_read")
     \/ current \in Forkers /\ Goto("do_fork")
  /\ UNCHANGED <<cpu, intr, current, rq, flags, status, counter, need_resched,
                 fork_child, kbVars, hdVars>>

(***************************************************************************)
(* sleep_on up to its call of schedule(): both callers hold interrupts off *)
(* across it, so nothing can come between the two.                         *)
(***************************************************************************)
sleep_on(where) ==
  /\ status' = [status EXCEPT ![current] = TASK_INTERRUPT]
  /\ Goto(where)
  /\ cpu' = "schedule" /\ intr' = FALSE

(***************************************************************************)
(* kb_read from its loop test: take a byte, or sleep until there is one.   *)
(***************************************************************************)
KbRead ==
  /\ Running("kb_read")
  /\ \/ /\ kb_count > 0
        /\ kb_count' = kb_count - 1
        /\ Goto("sysret") /\ intr' = TRUE
        /\ UNCHANGED <<cpu, status, kb_wait>>
     \/ /\ kb_count = 0
        /\ kb_wait' = add_wait_queue(kb_wait, current)
        /\ sleep_on("kb_sleep")
        /\ UNCHANGED kb_count
  /\ UNCHANGED <<current, rq, flags, counter, need_resched, fork_child, waking,
                 hdVars>>

(***************************************************************************)
(* The rest of sleep_on, once the process runs again; back to the loop.    *)
(***************************************************************************)
KbWoken ==
  /\ Running("kb_sleep")
  /\ kb_wait' = remove_wait_queue(kb_wait, current)
  /\ Goto("kb_read")
  /\ UNCHANGED <<cpu, intr, current, rq, flags, status, counter, need_resched,
                 fork_child, kb_count, waking, hdVars>>

(***************************************************************************)
(* do_read: a full ring is refused, and get_block answers with panic() (it *)
(* came through kmalloc, which left interrupts off) while partition_check  *)
(* ignores the refusal.  Otherwise the request is queued, the drive is     *)
(* started if it was alone, and the process sleeps, once.                  *)
(***************************************************************************)
\* Mutant of ring_full: the test allows one request too many.
RingFullLate == Len(req) > BUF_SIZE

ring_full == Len(req) >= BUF_SIZE

DoRead ==
  /\ Running("do_read")
  /\ \/ /\ ring_full
        /\ \/ Goto("panic") /\ intr' = FALSE
           \/ Goto("sysret") /\ UNCHANGED intr
        /\ UNCHANGED <<cpu, status, hdVars>>
     \/ /\ ~ring_full
        /\ req' = Append(req, current)
        /\ dev' = IF Len(req') = 1 THEN "busy" ELSE dev
        /\ filled' = [filled EXCEPT ![current] = FALSE]
        /\ hd_wait' = add_wait_queue(hd_wait, current)
        /\ sleep_on("hd_sleep")
  /\ UNCHANGED <<current, rq, flags, counter, need_resched, fork_child, kbVars>>

(***************************************************************************)
(* The rest of sleep_on and do_read.  The call goes on to its next block   *)
(* or ends; IF is restored to what it was: off if get_block called, on if  *)
(* partition_check did.                                                    *)
(***************************************************************************)
HdWoken ==
  /\ Running("hd_sleep")
  /\ hd_wait' = remove_wait_queue(hd_wait, current)
  /\ \E where \in {"do_read", "sysret"} : Goto(where)
  /\ intr' \in BOOLEAN
  /\ UNCHANGED <<cpu, current, rq, flags, status, counter, need_resched,
                 fork_child, kbVars, req, filled, dev>>

(***************************************************************************)
(* do_fork, first half: get_free_proc_struct and *child = *father, which   *)
(* copies P_IN_USE, the status and the run queue link too.                 *)
(***************************************************************************)
\* Mutant of FreeSlots: tests the status of a slot instead of P_IN_USE.
FreeByStatus == {p \in Proc : status[p] # TASK_RUNNING}

FreeSlots == {p \in Proc : ~flags[p]}

get_free_proc_struct == CHOOSE p \in FreeSlots : \A o \in FreeSlots : p <= o

ForkCopy ==
  /\ Running("do_fork")
  /\ \/ /\ FreeSlots = {}
        /\ Goto("sysret")
        /\ UNCHANGED <<rq, flags, status, counter, need_resched, fork_child>>
     \/ /\ FreeSlots # {}
        /\ LET child == get_free_proc_struct
           IN  /\ fork_child' = child
               /\ rq' = [rq EXCEPT !.next[child] = rq.next[current]]
               /\ flags' = [flags EXCEPT ![child] = flags[current]]
               /\ status' = [status EXCEPT ![child] = status[current]]
               /\ counter' = [counter EXCEPT ![child] = counter[current]]
               /\ need_resched' =
                    [need_resched EXCEPT ![child] = need_resched[current]]
        /\ Goto("mem_copy")
  /\ UNCHANGED <<cpu, intr, current, kbVars, hdVars>>

(***************************************************************************)
(* wake_up_process(p) marks `current', the process it interrupts or runs   *)
(* in, as running; p's own status is left alone.                           *)
(***************************************************************************)
wake_up_process(p) ==
  /\ status' = [status EXCEPT ![current] = TASK_RUNNING]
  /\ rq' = proc_ready(rq, p)

(***************************************************************************)
(* do_fork, second half: mem_copy has the memory or has not.  If not, the  *)
(* call fails and the slot keeps the P_IN_USE it has just been given.      *)
(***************************************************************************)
ForkDone ==
  /\ Running("mem_copy")
  /\ \/ /\ flags' = [flags EXCEPT ![fork_child] = TRUE]
        /\ counter' = [counter EXCEPT ![fork_child] = Quantum]
        /\ pc' = [pc EXCEPT ![current] = "sysret", ![fork_child] = "user"]
        /\ wake_up_process(fork_child)
     \/ /\ Goto("sysret")
        /\ UNCHANGED <<rq, flags, status, counter>>
  /\ fork_child' = NULL
  /\ UNCHANGED <<cpu, intr, current, need_resched, kbVars, hdVars>>

(***************************************************************************)
(* ret_with_schedule: cli, then schedule() if the process was billed out,  *)
(* then back to user mode.                                                 *)
(***************************************************************************)
RetWithSchedule ==
  /\ Running("sysret")
  /\ Goto("user")
  /\ cpu' = IF need_resched[current] THEN "schedule" ELSE "run"
  /\ intr' = ~need_resched[current]
  /\ UNCHANGED <<current, rq, flags, status, counter, need_resched, fork_child,
                 kbVars, hdVars>>

Panic ==
  /\ Running("panic")
  /\ UNCHANGED vars

-----------------------------------------------------------------------------
(***************************************************************************)
(* schedule(): RoundRobin, proc_block of a process that is not running,    *)
(* pick_proc, and the switch.  The next process either returns to user     *)
(* mode, its IF set by the iret, or resumes inside sleep_on with IF clear. *)
(***************************************************************************)
RoundRobin == IF rq.head # NULL /\ counter[current] <= 0 THEN rotate(rq) ELSE rq

Schedule ==
  /\ cpu = "schedule"
  /\ counter' = IF rq.head # NULL /\ counter[current] <= 0
                THEN [counter EXCEPT ![current] = Quantum] ELSE counter
  /\ rq' = IF status[current] \in {TASK_INTERRUPT, TASK_STOPED}
           THEN proc_block(RoundRobin, current) ELSE RoundRobin
  /\ current' = pick_proc(rq')
  /\ need_resched' = [need_resched EXCEPT ![current] = FALSE,
                                          ![current'] = FALSE]
  /\ cpu' = "run"
  /\ intr' = (pc[current'] = "user")
  /\ UNCHANGED <<flags, status, pc, fork_child, kbVars, hdVars>>

-----------------------------------------------------------------------------
(***************************************************************************)
(* Interrupts.  do_IRQ runs the handler with interrupts on, but all that a *)
(* handler shares with other code is touched under cli, so each handler is *)
(* a step that ends in ret_from_int.                                       *)
(***************************************************************************)
Interrupted == cpu = "run" /\ intr = TRUE

\* Mutant of bill_process_time: only the idle task is ever billed out.
BillIdleOnly ==
  /\ counter' = IF current # IDLE_TASK /\ counter[current] > 0
                THEN [counter EXCEPT ![current] = @ - 1] ELSE counter
  /\ need_resched' = IF current = IDLE_TASK
                     THEN [need_resched EXCEPT ![current] = TRUE]
                     ELSE need_resched

bill_process_time ==
  /\ counter' = IF current # IDLE_TASK /\ counter[current] > 0
                THEN [counter EXCEPT ![current] = @ - 1] ELSE counter
  /\ need_resched' = IF current = IDLE_TASK \/ counter[current] <= 0
                     THEN [need_resched EXCEPT ![current] = TRUE]
                     ELSE need_resched

ClockInt ==
  /\ Interrupted
  /\ bill_process_time
  /\ cpu' = "ret_from_int" /\ intr' = FALSE
  /\ UNCHANGED <<current, rq, flags, status, pc, fork_child, kbVars, hdVars>>

(***************************************************************************)
(* kbd_int: of the bytes the controller has, store the last, or discard it *)
(* if the ring is full; either way walk the whole wait queue and ready     *)
(* every process on it.                                                    *)
(***************************************************************************)
\* Mutants: kbd_int stores without looking at count; wake_up starts its
\* walk one node too far.
StoreAlways == kb_count + 1

WakeAllButFirst == IF kb_wait = <<>> THEN <<>> ELSE Tail(kb_wait)

stored_count == IF kb_count < KB_BUF_SIZE THEN kb_count + 1 ELSE kb_count

first_to_wake == kb_wait

KbdInt ==
  /\ Interrupted
  /\ kb_count' = stored_count
  /\ waking' = first_to_wake
  /\ cpu' = "wake_up" /\ intr' = FALSE
  /\ UNCHANGED <<current, rq, procVars, kb_wait, hdVars>>

(***************************************************************************)
(* The same handler for the release of a lock key: it stores nothing and   *)
(* wakes nobody.                                                           *)
(***************************************************************************)
KbdSkip ==
  /\ Interrupted
  /\ cpu' = "ret_from_int" /\ intr' = FALSE
  /\ UNCHANGED <<current, rq, procVars, kbVars, hdVars>>

(***************************************************************************)
(* wake_up, one node of the list at a time.                                *)
(***************************************************************************)
WakeUp ==
  /\ cpu = "wake_up"
  /\ \/ /\ waking # <<>>
        /\ wake_up_process(Head(waking))
        /\ waking' = Tail(waking)
        /\ UNCHANGED cpu
     \/ /\ waking = <<>>
        /\ cpu' = "ret_from_int"
        /\ UNCHANGED <<rq, status, waking>>
  /\ UNCHANGED <<intr, current, flags, counter, need_resched, pc, fork_child,
                 kb_count, kb_wait, hdVars>>

(***************************************************************************)
(* hd_handlerp: the data of the oldest request is read, its waiter woken,  *)
(* and the drive started on the next request.                              *)
(***************************************************************************)
\* Mutants: the handler wakes the newest sleeper of hd_wait_list; it goes on
\* only while two requests are left.
WakeNewest == Head(hd_wait)

StopsEarly(r) == IF Len(r) > 1 THEN "busy" ELSE "idle"

waiter == Head(req)

next_request(r) == IF Len(r) > 0 THEN "busy" ELSE "idle"

HdInt ==
  /\ Interrupted /\ dev = "busy"
  /\ filled' = [filled EXCEPT ![Head(req)] = TRUE]
  /\ wake_up_process(waiter)
  /\ req' = Tail(req)
  /\ dev' = next_request(req')
  /\ cpu' = "ret_from_int" /\ intr' = FALSE
  /\ UNCHANGED <<current, flags, counter, need_resched, pc, fork_child, kbVars,
                 hd_wait>>

(***************************************************************************)
(* The same handler when DTRQ stays clear for 1000 polls: it returns with  *)
(* the request still at the head of the ring and nobody woken.             *)
(***************************************************************************)
HdError ==
  /\ HdMayFail
  /\ Interrupted /\ dev = "busy"
  /\ dev' = "failed"
  /\ cpu' = "ret_from_int" /\ intr' = FALSE
  /\ UNCHANGED <<current, rq, procVars, kbVars, req, hd_wait, filled>>

(***************************************************************************)
(* ret_from_int: an interrupt of user mode goes through ret_with_schedule, *)
(* an interrupt of the kernel returns to it.                               *)
(***************************************************************************)
\* Mutant of resched: the test of the interrupted CS is missing.
ReschedAnywhere == need_resched[current]

resched == pc[current] = "user" /\ need_resched[current]

RetFromInt ==
  /\ cpu = "ret_from_int"
  /\ cpu' = IF resched THEN "schedule" ELSE "run"
  /\ intr' = ~resched
  /\ UNCHANGED <<current, rq, procVars, kbVars, hdVars>>

-----------------------------------------------------------------------------
ProcessStep == KbRead \/ KbWoken \/ DoRead \/ HdWoken \/ ForkCopy \/ ForkDone
               \/ RetWithSchedule \/ Panic

Next == SystemCall \/ ProcessStep \/ Schedule \/ WakeUp \/ RetFromInt
        \/ ClockInt \/ KbdInt \/ KbdSkip \/ HdInt \/ HdError

Spec == Init /\ [][Next]_vars

(***************************************************************************)
(* The CPU executes kernel code without pause, and between two interrupts  *)
(* it executes some of the code they interrupt: a handler's own line is    *)
(* masked, and a tick lasts far longer than a handler.  The 8254 keeps     *)
(* ticking and the 8259 latches its request, and the drive's, across a     *)
(* cli, so neither waits for ever once IF is set again and again.  Nothing *)
(* is assumed of the keyboard or of user programs.                         *)
(***************************************************************************)
LiveSpec ==
  Spec /\ SF_vars(ProcessStep) /\ WF_vars(Schedule \/ WakeUp \/ RetFromInt)
       /\ SF_vars(ClockInt) /\ SF_vars(HdInt)

-----------------------------------------------------------------------------
Locations == {"none", "user", "sysret", "kb_read", "kb_sleep", "do_read",
              "hd_sleep", "do_fork", "mem_copy", "panic"}

(***************************************************************************)
(* The variables have the types of the C declarations, the wait queues and *)
(* the disk ring hold processes, and IF is clear in every stretch of the   *)
(* kernel that runs between cli and sti.                                   *)
(***************************************************************************)
TypeOK ==
  /\ cpu \in {"run", "schedule", "wake_up", "ret_from_int"}
  /\ intr \in BOOLEAN /\ (cpu # "run" => ~intr)
  /\ current \in Proc
  /\ rq \in Queue
  /\ flags \in [Proc -> BOOLEAN]
  /\ status \in [Proc -> 0..TASK_INTERRUPT]
  /\ counter \in [Proc -> 0..Quantum]
  /\ need_resched \in [Proc -> BOOLEAN]
  /\ pc \in [Proc -> Locations]
  /\ fork_child \in Proc \cup {NULL}
  /\ kb_count \in 0..KB_BUF_SIZE
  /\ kb_wait \in Seq(Proc) /\ waking \in Seq(Proc)
  /\ req \in Seq(Proc) /\ hd_wait \in Seq(Proc)
  /\ filled \in [Proc -> BOOLEAN]
  /\ dev \in {"idle", "busy", "failed"}

(***************************************************************************)
(* Whatever proc_ready, proc_block and RoundRobin do to the three kinds of *)
(* pointers, and in whatever order interrupts make them do it, the run     *)
(* queue stays a NULL-terminated list without a cycle, ready_tail is its   *)
(* last element and the idle task is never on it (proc.c:108-194).         *)
(***************************************************************************)
RunQueueOK == WellLinked(rq)

(***************************************************************************)
(* The process the CPU serves is the idle task or the head of the run      *)
(* queue: RoundRobin rotates away `current' though it names only the head, *)
(* and proc_block's walk never starts from a NULL head (proc.c:131-194).   *)
(***************************************************************************)
CurrentIsHead == current = IDLE_TASK \/ current = rq.head

(***************************************************************************)
(* A process is on a wait queue exactly while it is inside sleep_on on     *)
(* that queue, and only once, so the node on its kernel stack is never     *)
(* reachable after sleep_on has returned (schedule.c:80-92).               *)
(***************************************************************************)
SleepersQueued ==
  /\ IsInjective(kb_wait) /\ ToSet(kb_wait) = {p \in Proc : pc[p] = "kb_sleep"}
  /\ IsInjective(hd_wait) /\ ToSet(hd_wait) = {p \in Proc : pc[p] = "hd_sleep"}

(***************************************************************************)
(* The disk ring holds one request for each process that sleeps in do_read *)
(* with its buffer still unfilled, and no other: an interrupt completes    *)
(* the read of the process it wakes, never another's (hd.c:59-90).         *)
(***************************************************************************)
RequestsMatchSleepers ==
  /\ IsInjective(req) /\ Len(req) <= BUF_SIZE
  /\ ToSet(req) = {p \in Proc : pc[p] = "hd_sleep" /\ ~filled[p]}

(***************************************************************************)
(* The drive is idle exactly when no request is queued: do_read starts the *)
(* first one and the handler the next, and neither starts one twice.       *)
(***************************************************************************)
DriveServesQueue == dev = "idle" <=> req = <<>>

(***************************************************************************)
(* do_read sleeps once and does not look again, so nothing may ready a     *)
(* process whose data has not arrived: it is not on the run queue and the  *)
(* CPU does not serve it past schedule() (hd.c:280).                       *)
(***************************************************************************)
ReadWaitsForData ==
  /\ cpu # "schedule" =>
       \A p \in Members(rq) \cup {current} : pc[p] = "hd_sleep" => filled[p]
  /\ cpu = "schedule" =>
       \A p \in Members(rq) \ {current} : pc[p] = "hd_sleep" => filled[p]

(***************************************************************************)
(* A free slot of proc_table is inert: it is on no queue, so *child=*father*)
(* may overwrite its link, and so is the slot do_fork is filling until     *)
(* wake_up_process hands it to the scheduler (fork.c:49-73).               *)
(***************************************************************************)
FreeSlotsInert ==
  \A p \in Proc : (~flags[p] \/ p = fork_child)
                    => pc[p] = "none" /\ p \notin Members(rq)

(***************************************************************************)
(* The kernel is never preempted: the CPU leaves a process only when it    *)
(* returns to user mode or inside sleep_on, where its status is still      *)
(* TASK_INTERRUPT when schedule() looks at it; do_fork's half-made child   *)
(* and wake_up's walk belong to the one thread in the kernel, and the idle *)
(* task never sleeps (sys.S:45-100, schedule.c:45-92).                     *)
(***************************************************************************)
KernelNotPreempted ==
  /\ \A p \in Proc \ {current} : pc[p] \in {"none", "user", "kb_sleep", "hd_sleep"}
  /\ cpu = "schedule" => \/ pc[current] = "user"
                         \/ /\ pc[current] \in {"kb_sleep", "hd_sleep"}
                            /\ status[current] = TASK_INTERRUPT
  /\ pc[current] = "mem_copy" <=> fork_child # NULL
  /\ waking # <<>> => cpu = "wake_up"
  /\ ToSet(waking) \subseteq ToSet(kb_wait)
  /\ pc[IDLE_TASK] \in {"user", "sysret"}
=============================================================================
