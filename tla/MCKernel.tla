------------------------------ MODULE MCKernel ------------------------------
(***************************************************************************)
(* Kernel with the properties only TLC checks: liveness under LiveSpec,    *)
(* and what comments of ker/proc.c say of the run queue.                   *)
(***************************************************************************)
EXTENDS Kernel

(***************************************************************************)
(* Every disk read ends: the interrupt of its request comes, the request   *)
(* ring moves on to it, its process is readied and the scheduler gets to   *)
(* it, although schedule() may have dropped other processes meanwhile.     *)
(***************************************************************************)
ReadReturns == \A p \in Proc : pc[p] = "hd_sleep" ~> pc[p] # "hd_sleep"

(***************************************************************************)
(* A process on the run queue gets the CPU, even if the one that has it    *)
(* never makes a system call: the clock bills it out and RoundRobin        *)
(* reaches everyone (proc.c:169-194).                                      *)
(***************************************************************************)
ReadyRuns == \A p \in Proc : p \in Members(rq) ~> current = p

(***************************************************************************)
(* No key is missed: while a byte is in the ring, a process asleep in      *)
(* kb_read has been readied, unless wake_up is still walking the queue.    *)
(* The test and the sleep in kb_read are one step because of its cli.      *)
(***************************************************************************)
KeyNotMissed ==
  kb_count > 0 /\ cpu # "wake_up"
    => \A p \in Proc : pc[p] = "kb_sleep" => p \in Members(rq)

(***************************************************************************)
(* A byte in the ring ends the sleep of a process waiting for it.          *)
(***************************************************************************)
KeyDelivered ==
  \A p \in Proc : pc[p] = "kb_sleep" /\ kb_count > 0 ~> pc[p] # "kb_sleep"

(***************************************************************************)
(* Readying a process puts it on the tail and disturbs nobody else: only   *)
(* schedule() takes processes off the run queue (comment at proc.c:105).   *)
(***************************************************************************)
ReadyKeepsOthers == [][cpu # "schedule" => Members(rq) \subseteq Members(rq')]_vars

(***************************************************************************)
(* A program that used up its quantum is moved to the end of the run       *)
(* queue by schedule(), so that it runs again (comment at proc.c:182).     *)
(***************************************************************************)
PreemptedGoesLast ==
  [][cpu = "schedule" /\ current # IDLE_TASK /\ pc[current] = "user"
       => current \in Members(rq') /\ rq'.tail = current]_vars
=============================================================================
