----------------------------- MODULE KernelExit -----------------------------
(***************************************************************************)
(* Kernel with the call _exit().  do_exit is the one caller of schedule()  *)
(* that leaves interrupts on, so here schedule() is taken apart into the   *)
(* assignments an interrupt can come between: those of RoundRobin,         *)
(* proc_block, and the switch.  `self' is the process whose kernel thread  *)
(* executes it, which is no longer `current' once proc_block has run.      *)
(*                                                                         *)
(* It also has what do_exit takes from a process and what every process    *)
(* needs: the selector of its LDT, which prot_init gives to each slot of   *)
(* proc_table once and do_fork leaves as it is in the slot.  The programs  *)
(* compute, fork, read the disk and exit; they do not read the keyboard    *)
(* (KbReaders is empty).                                                   *)
(***************************************************************************)
EXTENDS Kernel

CONSTANT Exiters    \* processes whose program calls _exit()

VARIABLES
  self,             \* the process in do_exit's call of schedule(), or NULL
  stage, next,      \* where it is, and its local `next'
  ldt_selector      \* p |-> the field of struct proc, 0 if it has none

exitVars == <<self, stage, next, ldt_selector>>
allVars == <<vars, exitVars>>

(***************************************************************************)
(* prot_init builds an LDT descriptor, and so a selector, for each slot.   *)
(***************************************************************************)
FIRST_LDT_INDEX == 6

prot_init == ldt_selector = [p \in Proc |-> 8 * (FIRST_LDT_INDEX + p)]

ExitInit == Init /\ prot_init /\ self = NULL /\ stage = "none" /\ next = NULL

-----------------------------------------------------------------------------
(***************************************************************************)
(* do_exit.  Init must not exit.  Any other process gives up its slot, its *)
(* memory and its selector; no interrupt looks at these, so they go in one *)
(* step with the status, and schedule() begins.                            *)
(***************************************************************************)
sys_exit ==
  /\ Running("user") /\ current \in Exiters
  /\ Goto("do_exit")
  /\ UNCHANGED <<cpu, intr, current, rq, flags, status, counter, need_resched,
                 fork_child, kbVars, hdVars, exitVars>>

do_exit ==
  /\ Running("do_exit")
  /\ \/ /\ current = INIT_TASK
        /\ Goto("panic")
        /\ UNCHANGED <<flags, status, exitVars>>
     \/ /\ current # INIT_TASK
        /\ flags' = [flags EXCEPT ![current] = FALSE]
        /\ ldt_selector' = [ldt_selector EXCEPT ![current] = 0]
        /\ status' = [status EXCEPT ![current] = TASK_STOPED]
        /\ self' = current /\ stage' = "policy"
        /\ Goto("exited")
        /\ UNCHANGED next
  /\ UNCHANGED <<cpu, intr, current, rq, counter, need_resched, fork_child,
                 kbVars, hdVars>>

-----------------------------------------------------------------------------
(***************************************************************************)
(* schedule() with interrupts on.                                          *)
(***************************************************************************)
At(where) == cpu = "run" /\ self # NULL /\ stage = where

(***************************************************************************)
(* RoundRobin looks whether it has to do anything ...                      *)
(***************************************************************************)
Policy ==
  /\ At("policy")
  /\ stage' = IF rq.head # NULL /\ counter[current] <= 0 THEN "close" ELSE "status"
  /\ UNCHANGED <<vars, self, next, ldt_selector>>

(***************************************************************************)
(* ... and moves the head to the tail: the last process points to the      *)
(* first, the first becomes the tail, its successor the head, and the new  *)
(* tail is cut off.  An interrupt between two of them may call proc_ready. *)
(***************************************************************************)
Rotate ==
  /\ \/ /\ At("close") /\ stage' = "tail"
        /\ rq' = [rq EXCEPT !.next[rq.tail] = rq.head]
        /\ UNCHANGED counter
     \/ /\ At("tail") /\ stage' = "head"
        /\ rq' = [rq EXCEPT !.tail = rq.head]
        /\ UNCHANGED counter
     \/ /\ At("head") /\ stage' = "cut"
        /\ rq' = [rq EXCEPT !.head = rq.next[rq.head]]
        /\ UNCHANGED counter
     \/ /\ At("cut") /\ stage' = "status"
        /\ rq' = [rq EXCEPT !.next[rq.tail] = NULL]
        /\ counter' = [counter EXCEPT ![current] = Quantum]
  /\ UNCHANGED <<cpu, intr, current, flags, status, need_resched, pc, fork_child,
                 kbVars, hdVars, self, next, ldt_selector>>

(***************************************************************************)
(* The status decides: an interrupt may have set it back to TASK_RUNNING.  *)
(* proc_block unlinks the head directly, and only then sets `current'; for *)
(* any other process it walks the list, whatever an interrupt made of it.  *)
(***************************************************************************)
Walk[n \in 0..NR_TASK] ==
  IF n = 0 THEN rq.head ELSE IF Walk[n - 1] = NULL THEN NULL ELSE rq.next[Walk[n - 1]]

Before(bp) == {hp \in {Walk[n] : n \in 0..NR_TASK} \ {NULL} : rq.next[hp] = bp}

Block ==
  /\ \/ /\ At("status") /\ stage' = "pick"
        /\ status[self] \notin {TASK_INTERRUPT, TASK_STOPED}
        /\ UNCHANGED <<rq, current>>
     \/ /\ At("status") /\ stage' = "current"
        /\ status[self] \in {TASK_INTERRUPT, TASK_STOPED} /\ rq.head = self
        /\ rq' = [rq EXCEPT !.head = rq.next[self]]
        /\ UNCHANGED current
     \/ /\ At("status") /\ stage' = "pick"
        /\ status[self] \in {TASK_INTERRUPT, TASK_STOPED} /\ rq.head # self
        /\ rq' = IF Before(self) = {} THEN rq
                 ELSE LET hp == CHOOSE h \in Before(self) : TRUE
                      IN  [rq EXCEPT !.next[hp] = rq.next[self],
                                     !.tail = IF rq.tail = self THEN hp ELSE rq.tail]
        /\ UNCHANGED current
     \/ /\ At("current") /\ stage' = "pick"
        /\ current' = pick_proc(rq)
        /\ UNCHANGED rq
  /\ UNCHANGED <<cpu, intr, procVars, kbVars, hdVars, self, next, ldt_selector>>

(***************************************************************************)
(* The next process is chosen, and the CPU is switched to it, unless it is *)
(* the one that wanted to exit: then do_exit returns -1 to it.             *)
(***************************************************************************)
Pick ==
  /\ At("pick") /\ stage' = "switch"
  /\ need_resched' = [need_resched EXCEPT ![self] = FALSE]
  /\ next' = pick_proc(rq)
  /\ UNCHANGED <<cpu, intr, current, rq, flags, status, counter, pc, fork_child,
                 kbVars, hdVars, self, ldt_selector>>

Switch ==
  /\ At("switch")
  /\ \/ /\ next = self
        /\ pc' = [pc EXCEPT ![self] = "sysret"]
        /\ UNCHANGED <<current, need_resched>>
     \/ /\ next # self
        /\ pc' = [pc EXCEPT ![self] = "none"]
        /\ current' = next
        /\ need_resched' = [need_resched EXCEPT ![next] = FALSE]
  /\ self' = NULL /\ stage' = "none" /\ next' = NULL
  /\ UNCHANGED <<cpu, intr, rq, flags, status, counter, fork_child, kbVars, hdVars,
                 ldt_selector>>

(***************************************************************************)
(* An interrupt of that thread returns to it: its CS is the kernel's.      *)
(***************************************************************************)
RetToKernel ==
  /\ cpu = "ret_from_int" /\ self # NULL
  /\ cpu' = "run" /\ intr' = TRUE
  /\ UNCHANGED <<current, rq, procVars, kbVars, hdVars, exitVars>>

-----------------------------------------------------------------------------
ExitStep ==
  \/ self = NULL /\ (sys_exit \/ do_exit)
  \/ Policy \/ Rotate \/ Block \/ Pick \/ Switch \/ RetToKernel

\* What Kernel has, as long as no thread is in do_exit.
KernelStep ==
  /\ self = NULL
  /\ SystemCall \/ DoRead \/ HdWoken \/ ForkCopy \/ ForkDone \/ RetWithSchedule
     \/ Panic \/ Schedule \/ RetFromInt
  /\ UNCHANGED exitVars

Interrupt == (ClockInt \/ HdInt \/ HdError) /\ UNCHANGED exitVars

ExitNext == ExitStep \/ KernelStep \/ Interrupt

ExitSpec == ExitInit /\ [][ExitNext]_allVars

-----------------------------------------------------------------------------
(***************************************************************************)
(* Whoever the CPU is given is a process: it has not given up its slot,    *)
(* and it has the LDT that _switch_to loads ("prepare switch to next       *)
(* process,load LDT", schedule.c:35) and that prot_init built "for each    *)
(* process" (protect.c:162).                                               *)
(***************************************************************************)
RunsWithLDT ==
  cpu = "run" /\ self = NULL => flags[current] /\ ldt_selector[current] # 0
=============================================================================
