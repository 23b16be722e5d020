# A TLA+ model of KITOS (myos-ia32)

KITOS is a small IA-32 kernel: a boot loader, a multitasking core with a
round-robin scheduler, fork, interrupt-driven keyboard and IDE drivers, two
memory allocators and a read-only FAT file system.  This directory models the
multitasking core, the two allocators, the keyboard, and the mounting, opening
and reading of files, and checks them with TLC.  Every safety property a run checks is
also proved with TLAPS, for every number of processes, every ring and table size,
every disk and every FAT its hypotheses admit; both allocators are proved to
implement their abstract specification.  Liveness is model-checked.

## 1. Inventory

| component | source | state | operations | interacts with |
|---|---|---|---|---|
| run queue, scheduler | `ker/proc.c`, `ker/schedule.c` | `ready_head`, `ready_tail`, `next`, `status`, `counter`, `need_resched`, `current` | `proc_ready`, `proc_block`, `pick_proc`, `RoundRobin`, `bill_process_time`, `schedule` | called from interrupts and from sleeping processes |
| sleep and wake-up | `ker/schedule.c`, `include/wait.h`, `include/list.h` | wait queues whose nodes lie on kernel stacks | `sleep_on`, `wake_up`, `wake_up_process` | keyboard, disk, super block lock |
| entry code | `ker/sys.S`, `ker/irq.c`, `ker/trap.c` | IF, the 8259 masks | `system_call`, `do_IRQ`, `ret_from_int`, `ret_with_schedule` | decides where a process can be switched away |
| clock | `ker/clock.c` | ticks | `clock_handler` | bills `current` |
| fork, exit | `ker/fork.c`, `ker/exit.c` | `proc_table` slots | `do_fork`, `mem_copy`, `do_exit` | process memory, run queue |
| keyboard | `ker/kb.c` | `kb_line` ring, `kb_wait_list`, shift and lock keys | `kbd_int`, `kb_read`, `map_key` | wakes readers |
| disk driver | `ker/hd.c` | `req_buf` ring, `hd_wait_list` | `do_read`, `do_request`, `hd_handlerp` | wakes one reader per request |
| process memory | `ker/mem.c` | list of holes, pool of nodes | `Kmem_alloc`, `Kmem_free`, `mem_init` | `mem_copy`, `do_exit`, the space of `kmalloc` |
| kernel memory | `ker/mem.c` | `kmem_page[]` | `kmalloc`, `kfree` | block buffers, names |
| mounting, opening | `fs/open.c`, `fs/super.c`, `fs/filedes.c`, `include/slot.h`, `ker/partition.c` | super block and its lock, inode and file slots, descriptors, the root of each process | `fs_init`, `partition_check`, `mount_fs`, `sys_open` | disk driver, kernel memory, fork (which copies descriptors) |
| file reading, block buffers | `fs/read.c`, `fs/inode.c`, `fs/block.c` | file positions, the map of an inode | `sys_read`, `read_map`, `get_block`, `put_block` | disk driver, kernel memory |
| segments, console, probing, boot | `ker/protect.c`, `ker/console.c`, `ker/pci.c`, `boot/`, ... | descriptors, cursor | I/O | - |

What is hard in this code.  One CPU runs everything, but the clock, the
keyboard and the drive interrupt any stretch of a process in which IF is set,
and their handlers write the run queue that `schedule()` rearranges.  The
queue has no ownership rule: `proc_ready` does not look whether its process is
already linked, `proc_block` leaves `ready_tail` dangling, `RoundRobin` rotates
the head and bills `current`, and `wake_up_process(p)` writes the status of
`current`.  `do_read` sleeps exactly once and trusts whoever wakes it.  `do_fork`
copies the whole `struct proc`, links included, with interrupts on, and `do_exit`
calls `schedule()` with interrupts on.  Mounting and opening sleep at every block
and go on with what they saw before; several paths of `sys_open` give back
nothing of what they took, and `read_map` stores the map of a file without looking
where its array ends.  Shift and caps lock are followed only when keys are
read, and of several bytes that come with one interrupt only the last is kept.  The drive
may interrupt without data and nothing ever times out.  The allocators have
hand-written splitting and merging, and pools that can run out.  PROJECT.json
lists these hazards at their lines.

What makes the components correct: the run queue is one acyclic list ending at
`ready_tail`; sleepers and wait-queue nodes correspond; a read goes on only
with its data, and every read goes on; no key is slept through, and each means
what it meant when it was struck; a ready process
runs; a free process slot is on no queue; who runs has an LDT; a descriptor leads
to the file of its name, a root to the root directory; every page in use is
accounted for; memory blocks never overlap and
nothing is lost at a split or a merge.

## 2. Modules

| module | models | 
|---|---|
| `RunQueue` | the run queue pointer by pointer: `proc_ready`, `proc_block`, `pick_proc`, the rotation of `RoundRobin`; `Linked(q, s)` says that the pointers spell the sequence `s` |
| `WaitQueue` | `add_wait_queue`, `remove_wait_queue` on the sequence of sleepers |
| `Kernel` | the composition: processes, CPU, IF, the three interrupts, `fork`, `kb_read`, `do_read`, `sleep_on`, `wake_up`, `schedule` |
| `MCKernel` | `Kernel` with the liveness and action properties |
| `Arena` | abstract: each owner holds at most one block, and blocks never overlap |
| `Kmem` | `Kmem_alloc`, `Kmem_free`, `mem_init`; implements `Arena` |
| `KPages` | `kmalloc`, `kfree`, `kmem_page_init`; implements `Arena` with pages for bytes |
| `Fat` | `FATEntryVal` and `read_map` over the bytes of a FAT12, FAT16 or FAT32 |
| `FileRead`, `MCFileRead` | `sys_read`, `filp_read`, `ClusterRead` by several processes |
| `Keyboard` | `MCKernel` with the bytes, the shift and lock states and the key map of `kb.c` |
| `KernelExit` | `Kernel` with `_exit()`, an interruptible `schedule()` and the LDT selectors |
| `Files`, `MCFiles` | mounting, opening, `fork` of descriptors, the disk ring with its pointers, the pages of buffers; and the disks it is checked on |
| `RunQueueProofs`, `WaitQueueProofs`, `KernelProofs` | theorems about the core and the keyboard |
| `KmemProofs`, `KPagesProofs` | theorems about the allocators |
| `FilesProofs`, `FileReadProofs`, `FatProofs` | theorems about the file system |

`Kernel` uses `RunQueue` and `WaitQueue`; `MCKernel`, `Keyboard` and `KernelExit`
extend it.  The others do not extend `Kernel` but use what it shows: `FileRead`
and `Files` that the kernel is not preempted (`KernelNotPreempted`) and that every
read returns with its data (`ReadReturns`), `Files` also that a page is got
exactly when one is free (`KPages`, `FreePageIsFound`).

### How Kernel corresponds to the code

A process is its index in `proc_table`.  `pc[p]` is where its kernel thread
stands: in its program (`"user"`), in one of the three system calls that change
shared state, inside `sleep_on` (`"kb_sleep"`, `"hd_sleep"`), or at
`ret_with_schedule` (`"sysret"`).  `cpu` is `"run"` while the code of `current`
executes; the other values are the stretches that run with IF clear:
`schedule()`, the loop of `wake_up`, and `ret_from_int`.

* *Steps.*  The kernel is not preempted (`ret_from_int` schedules only when it
  returns to user mode), so code of one process between two points at which an
  interrupt can be taken is one action.  `sleep_on` is split at its call of
  `schedule()`: `KbRead` and `DoRead` contain the half before, `KbWoken` and
  `HdWoken` the half after.  `do_fork` is split before `mem_copy`, since
  `Kmem_alloc` and the copy take long with interrupts on.
* *Interrupts.*  `do_IRQ` runs a handler with IF set, so handlers can nest.
  They are atomic in the model (the walk of `wake_up` apart): what they share is
  touched under `cli` or belongs to their own masked line, and an inner handler
  returns to the kernel without scheduling, so a nested run has the effect of
  the two handlers one after the other.  A key that is only the release of a
  lock key stores nothing and wakes nobody (`KbdSkip`).
* *do_read* fills the fields of the request before its `cli`; the disk handler
  does not touch `req_tail`, so this belongs to the same step.  `get_block`
  turns a refused request into `panic()`; `partition_check` ignores it.
* *IF after a read.*  `get_block` reaches `do_read` from `kmalloc`, which
  returns with IF clear, and `partition_check` with IF set; `HdWoken` leaves IF
  either way.
* *fork.*  The child starts at `ret_with_schedule` with `need_resched` just
  cleared by `schedule()`, which is `"user"` in the model.  If `mem_copy` fails
  the slot keeps the `P_IN_USE` it got from its father, and is lost.
* *The drive* is external: it interrupts once for a command, and only after one.
  With `HdMayFail` it may also interrupt without DTRQ, on which `hd_handlerp`
  gives up: the request stays at the head and nothing restarts it.
* *Init* is the state at the end of `start_kernel`: idle is current, init is on
  the run queue.  The reads `fs_init` makes are those of init's program.

Which programs make which calls is given by `KbReaders`, `DiskReaders` and
`Forkers`; the idle task makes none.

### How Kmem corresponds to the code

`holes` is the list from `h_head`, in order; `slots` counts `slot_free`.  Each
call runs with IF clear from end to end, so it is a step.  The first hole is
one byte longer than the memory, as `mem_init` makes it.  A hole that does not
fit exactly needs a node for the rest; without one `Kmem_alloc` gives up, even if
a later hole fits.  `owned` says which process holds
which block: its `map[D]`.  An owner frees only what it holds, so the branch of
`Kmem_free` that finds nothing is not taken.

### How KPages corresponds to the code

`kmem_page` is the table and the one word behind it that the loop of `kmalloc`
and the test of `kfree` reach.  That word belongs to a neighbouring static,
`kmem_base` or `mem_hole[0].base`, an address either way: neither of the two
marks.  The scan of `kmalloc` is given in closed form: at page `i` its counter is
one more than the number of `PAGE_S_CONT` since the last free head, and the scan
ends at the first page where the counter is the number of pages wanted.  Callers
free what they hold in any order, as several processes that sleep between
`get_block` and `put_block` do.  That `kmalloc` returns with IF clear is part of
`Kernel`.

### How Fat and FileRead correspond to the code

`Fat` packs a table of entries into bytes as the disk has them and lets
`FATEntryVal` take them out again through `get_block`'s two sectors; one round of
the loop of `read_map` is a step.  Its tables are those of a file that has a cluster and a
chain of clusters with an end mark or a cycle; an empty file (first cluster 0), free,
bad and out-of-range entries are left out.  `FATEntryVal` returns 0 when `get_block`
finds no page; within `sys_open` this does not happen, as three pages have been put back just
before the first entry and two before each later one.

In `FileRead` a reader leaves the CPU only in
`get_block`: the head of the loop of `filp_read` runs before the sleep
(`filp_read`), the copy and the move of `f_pos` after it (`ClusterRead`).  `mem` is the
memory the calls under way have filled, by linear address; a byte is
named by its cluster and its place in it.

* *Where the bytes go.*  `sys_read` computes `kbuf=umap(current,buf)`, returns if that is
  NULL, and passes on `buf` itself (`read.c:92-98`), so the addresses filled are
  those of `window(p)`, in the kernel's segment, whatever the base `Phys[p]` of the reader.
  Father and child that give the same address fill the same memory.
* *Rounds without a copy.*  `ClusterRead` refuses a cluster number above 10, and returns
  if `get_block` gave NULL (`read.c:23`, `read.c:32`); either way `filp_read` counts the round as
  read (`Advance`), and the pointer into the buffer stays.  Which rounds find no page depends on the other
  users of `kmalloc`: any may.
* *Entry 10* passes the test though `block` has entries 0..9.  It lies over `i_op`, where
  `read_map` has stored the right number, so the round delivers its bytes.
* The history `whole` says of a call that no round was refused and that no other call under way
  fills the same addresses.

Left out: the panic of `get_block` when the ring is full or only one page is left, which `Files`
has, and `size = 0`, on which `sys_read` divides by zero.

### How Keyboard corresponds to the code

Each `KbdInt` or `KbdSkip` of `Kernel` is an interrupt with one byte or several (`kbd_int(bytes)`), of which
the loop of `kb.c:108-113` keeps the last; each `KbRead` that finds a byte takes
it.  Both are conjunctions of `Kernel`'s actions with the bytes, so every interleaving of
`Kernel` is there.  A byte is lost if another follows it in the same interrupt, or if the ring is
full; the release of a lock key is never stored, and loses what came before it all the same.  `buf`, `head` and `tail` are `kb_line`, whose `count` is
`kb_count`; `shift` and `capslock` are the statics of `kb.c`, changed by
`status_process` in `kb_read`.  The history says what the keyboard was like when
the key was struck; it ends (`exact`) when a byte of a shift or of caps lock is lost or both shift keys are
down, since `kb.c` then no longer knows.  The loss of letters does not end it.  Keys are those a keyboard can send: no
key goes down twice.  An auto-repeating caps lock, which toggles at each repeat, is
the same as striking it again.

### How KernelExit corresponds to the code

`do_exit` is the only caller that enters `schedule()` with IF set.  `stage` is
where it stands: the test of `RoundRobin`, each of the four pointer assignments of the
rotation, the look at `curr->status`, the two assignments of `proc_block`, the choice of the
next process, the switch.  Between any two an interrupt may come, which returns
to it (`RetToKernel`), as its code segment is the kernel's.  `self` is the process whose thread it is.
`ldt_selector` is set for all slots by `prot_init`, cleared by `do_exit` and left
alone by `do_fork`, which saves it from the copy.

### How Files corresponds to the code

`pc[p]` is where the call of `p` sleeps: in `get_part_table` (`"table"`), in
`read_super` (`"super"`), on the directory (`"dir"`), or in `read_map` (`"fat"`).  Each
action is the stretch from one sleep to the next, with everything it does on the
way: `partition_check` contains `filp_init`, `inode_init`, the test of `get_super`
and, if the volume is mounted already, the rest of `fs_init`.  `get_block` takes a
page for the head, one for the data and a slot of the ring; its outcomes are the
sleep and `panic()` (no second page, or the ring full).  With no page for the head it stores to address 0,
which is memory, and returns NULL.  `read_super` panics on that.  `sys_open` does not look: it
scans what lies at address 0 for the name, which may itself have been copied there, finds no
such entry as a rule, and fails with the page of the name lost (`get_name`); that it finds
one is the outcome `"wild"`, from which nothing moves.  In the request ring `req_head`, `req_tail`
and `req_count` are the variables of `hd.c`.

The lists of free slots are `inode_head` and `filp_head`.  Nothing ever puts a slot
back, and `fs_init` makes new lists.  Programs mount before they use files
(`MountingOver` guards `get_name`): `init_task` calls `fs_check()` first, and a
child forked before that may do the same (`EarlyChildren`).  A disk is its boot
sector, its partition table and its directory; `kind`, `root`, `data` and `written` say what the
volume *is* and how a name is usually written, so that `MountFindsRoot` and
`OpenedIsNamed` compare what the code computes with something independent of it.

`Fat` is about which entries `read_map` visits; here it matters where they are stored
(`ip->block[i++]=index`, `inode.c:114`).  `struct inode` is laid out in words: `i_sb`, `size`, the name,
`block[]`, `i_op`, `free`; `block_word(slot, i)` is the word entry `i` goes to, in this slot
or in one behind.  `scrap` is the set of words that hold such an entry instead of what they
were declared for; `clusters` is how often the loop of `read_map` runs for the file.  What the code does with an overwritten word:

* a slot is filled when an open takes it (`filled`), which repairs its first words;
* a free slot whose link is overwritten makes the next slot of the list a stray pointer
  (`Astray`): the open that takes it ends in `"wild"`;
* `i_sb` overwritten under a `read_map` in progress (`lost_sb`): the end of the chain is
  judged by a stray super block, so the loop ends now or goes astray (`read_map_astray`);
* a map that leaves the table of inodes altogether is `"wild"` as well.

## 3. Runs

| run | states | what it shows |
|---|---|---|
| `kernel_safety` | 493,000 | all nine invariants of `Kernel`, and no deadlock |
| `kernel_live_disk` | 59,000 | every disk read returns; readying a disk reader never drops another process |
| `kernel_live_kb` | 115,000 | no key is missed, a key ends the sleep of its reader, what it returns is what was struck, every ready process runs |
| `kernel_requeue` | counterexample | `proc_ready` of a process already on the queue cuts the queue behind it |
| `kernel_preempt` | counterexample | a program that returned from a disk read is taken off the run queue by its next preemption |
| `kmem` | 22,000 | the list of holes tiles the memory, free neighbours are merged, nodes are conserved and at most two per block, and `Kmem` implements `Arena` |
| `kpages` | 4,400 | with blocks of one page: the table describes the pages, no page is lost, the word behind the table is not written, and `KPages` implements `Arena` |
| `kpages_overlap` | counterexample | with blocks of two pages `kmalloc` gives out pages in use |
| `fat` | 1,068,000 | `read_map` copies the chain for each width of entry, far enough, and one entry too far at most, cycles included |
| `files` | 137,000 | with up to two processes mounting and three opening at once: an open file stays the file of its name, a mounted volume is laid out as it is, only failing opens lose pages, a process gets the sector it asked for, every open ends |
| `kernel_exit` | counterexample | a child made in the slot of a process that exited runs without an LDT |
| `fileread` | 152,000 | a reader of its own file moves over exactly the next stretch of it and gets it, if each round gets a block and nobody fills the same addresses; nothing is put elsewhere than a call asked for; every read ends |

*Bounds.*  `kernel_safety` has four slots, so that a queue has a head, a middle
and a tail besides the idle task and `proc_block` meets all three; two forkers,
so that forks compete for the last slot and fail for want of one; a keyboard
ring of one byte and a disk ring of two, so that both overflow (three readers
against two requests); a quantum of one, so that every process is billed out;
and a drive that fails.  `kernel_live_disk` gives three readers a ring of
three, as the kernel's five requests exceed its usual number of readers: with a
full ring `get_block` panics and nothing returns.  `kernel_live_kb` is the
workload of the image: init forks a shell and loops, the shell reads keys.
`kmem` has twelve units of memory, four processes that ask for up to three
units each, and six nodes: holes
are split, fitted exactly, merged on both sides, and the nodes run out.  `kpages` has four pages and
five callers, so that a block is freed with free and used neighbours on either
side, at both ends of the table and when it is full, and a call is refused; its
sizes are a full and a partly used page.  `fat` takes all tables of four
clusters, so chains of every length, joined and cyclic, from every first cluster, with
sectors of four bytes that cut a 12-bit entry and with both kinds of the bits around
the entries (`Marks`), which `FATEntryVal` must mask away.  `fileread` has clusters of two bytes and a block
array of one, so that the last cluster is partly used, full, or missing and the entry behind the array is read; two readers share a file and
the address of their buffer, a third has its own file and a buffer that overlaps theirs.  The ring of `kernel_live_kb` holds
two bytes, so it wraps and overflows, and an interrupt brings up to two, so that one is lost in the loop.  `files` has three processes; three inode slots, one file
slot, one descriptor and five pages, so that each of them runs
out, a ring of two, which wraps and fills up (that it refuses a request is in `kernel_safety`), inodes of five words with a map of one (`NAME_WORDS` 0, `NR_BLOCK` 1), so that the map of a long file covers two slots, four of five directory entries within the sectors read (a piece of a long name, a deleted
entry, a name with and one without an extension, and one behind), and disks on both
sides of 4085 and of 65525 clusters, one without a partition table and one with
another sector size.  That two files open at the same time keep apart needs more
slots than TLC can afford here; `DescriptorsStay` covers every number.
`kernel_exit` has no disk reader and no keyboard reader, so that the counterexample is
the reuse of a slot; with a disk reader TLC first finds an interrupt between
`do_exit`'s change of the status and `schedule()`'s look at it.  No
symmetry is used: processes differ in their slots.

*Fairness* (`LiveSpec`).  The CPU executes the kernel without pause: weak
fairness of `Schedule`, `WakeUp` and `RetFromInt`, which run with IF clear, and
strong fairness of the steps of the current process, which interrupts disable
for a moment but do not starve, as a line is masked while its handler runs and
a tick lasts far longer than a handler.  Strong fairness of `ClockInt`
and `HdInt`: the 8254 ticks for ever, and the 8259 latches a request that
arrives while IF is clear.  Nothing is assumed of the keyboard or of programs:
a process may stay in user mode for ever, and keys may never come.  `FileRead`
assumes that a process in the kernel goes on and that a block asked for
arrives, which is `ReadReturns`.  `Files` assumes the same, as weak fairness of
`hd_handlerp` and of each woken process: its drive does not fail.  `KeySpec` has the
fairness of `LiveSpec` for the same steps but those of the drive, which nobody reads there.

*Mutants.*  For each property checked by a passing run PROJECT.json names a
definition and a variant of it with a plausible mistake (in the module, marked
as a mutant, and not used by the specification) under which TLC finds the
property violated.

### Findings

* `wake_up` readies each waiter at each key, also one that the key before has
  readied and that has not run yet.  `proc_ready` then hangs it behind the tail
  and clears its link: if it stood in the middle, everything behind it falls off
  the run queue (`kernel_requeue`).  `RunQueueOK` holds all the same: the queue
  is shorter, not corrupt.  `ReadyKeepsOthers` passes when each sleeper is woken
  once, as the disk driver does.
* `wake_up_process(p)` sets `current->status`.  A woken process therefore runs
  on with `TASK_INTERRUPT`, and `schedule()` blocks it at its next preemption
  unless some interrupt has reset the status meanwhile (`kernel_preempt`).
  That `ReadReturns` passes shows that a process *inside* a read is not lost
  this way: the clock does not schedule in the kernel.
* `kmalloc` keeps its counter across a block in use, so with blocks of several
  pages it hands out pages of another block (`kpages_overlap`).  `get_block`
  asks for such blocks when a cluster is larger than 1024 bytes (`ClusterRead`).
  With blocks of one page, which is all the other callers ask for, `kpages`
  passes.
* `do_exit` clears the LDT selector of its slot, `do_fork` keeps the slot's own
  selector, and only `prot_init` ever sets one: a child in a reused slot has
  none (`kernel_exit`).  The programs of the image never exit.

Two more defects are in the models; no run is spent on them, as a line of a property says where they bite:

* `sys_read` passes on the address it was given and not the one it computed: what a
  forked child reads goes to the same linear address as its father's reads and not into
  its own buffer, which begins at `umap(p, start[p])`.  In the first process, whose segment begins at 0, the two
  are the same.  `ReadDeliversFile` and `BufferSafe` are therefore about `window(p)`; with the addresses of `umap` in its place, `BufferSafe`
  fails at the first round of a child.
* `read_map` has no bound: a file of more than ten clusters overwrites `i_op` and the link of
  its own slot, which a slot in use does not need, and one of more than twelve the inodes behind,
  one of which may be open: an open that began earlier and has the longer chain stores over an inode
  that was opened meanwhile.  `OpenedIsNamed` and `MountFindsRoot` say that this is the only way;
  without the guard `OutOfReach`, and with slots for two open files, `OpenedIsNamed` fails.

## 4. Proofs

The theorems about the core hold for every `NR_TASK >= 2` and every value of the other
constants allowed by `KernelAssumption` (rings of at least one slot, the idle task
makes no calls).

*Run queue* (`RunQueueProofs`).  `LinkedUnique`: the pointers spell at most one
sequence, by taking the least position at which two differ; so `Order(q)` is
that sequence (`OrderIs`).  From there the effect of each routine on the
sequence: `ReadyAppends` (a process not queued is appended), `ReadyCuts` (one
that is queued is moved to the end and all behind it are dropped),
`RotateRotates`, `BlockUnlinks`.  `WaitQueueProofs` has what adding and removing
do to an injective sequence.

*Kernel* (`KernelProofs`).  The inductive invariant `Inv` is the conjunction of
the nine invariants of `kernel_safety`; none is inductive alone:

* `RunQueueOK` needs `CurrentIsHead`, because `schedule()` blocks or rotates
  `current` and the list operations were written for its head, and `TypeOK`;
* `CurrentIsHead` needs that interrupts never remove the head;
* `SleepersQueued` needs `KernelNotPreempted`: only `current` changes its `pc`;
* `ReadWaitsForData` needs `RequestsMatchSleepers` (the process an interrupt
  wakes is the one whose buffer it filled), `SleepersQueued` (a keyboard wake-up
  never reaches a disk reader), and that a sleeper enters `schedule()` with
  status `TASK_INTERRUPT`, which is part of `KernelNotPreempted`;
* `FreeSlotsInert` is what lets `ForkCopy` overwrite a link (`RelinkUnqueued`).

There is one lemma per action (`...Step`), each with one step for each conjunct
the action can disturb; `ReadyEffect`, `RotateEffect` and `BlockEffect` restate
the run-queue theorems in terms of `Members`.  The results: `TypeCorrect`,
`RunQueueSound`, `CurrentSound`, `SleepSound`, `PreemptionSound`, `RequestsSound`,
`DriveSound`, `DiskReadsSound`, `ForkSound`, and `WalkDefined`, that `proc_block` never
dereferences a NULL `ready_head`.

Two properties of the steps come from the same invariant:

* `ReadyKeepsOthersHolds`: outside `schedule()` nobody falls off the run queue
  (`QueueGrows`).  The hypothesis is `KbReaders = {}`, as in the run; with a keyboard
  reader it is false (`kernel_requeue`).
* `KeyNotMissedHolds`: with at most one keyboard reader (`OneReader`), which is the workload of the
  image.  `ReaderReadied` says where the wake-up is at each point of its way: still
  in the walk, or on the run queue.  With two readers it is false, again because of
  `proc_ready`: a sleeper readied first is cut off when the other is readied again.

*Keyboard* (`KernelProofs`).  `KeyboardIsKernel`: each behaviour of `Keyboard` is one of `Kernel`, so
`Inv` holds of it.  `KeysAsStruckHolds` needs the invariant `KeyLine`: the bytes from
`tail` to `head`, as many as `kb_count` says, replayed one after the other from
the driver's own shift and lock state, give each key the meaning it had when it was
struck and end in what the keyboard is like now.  A byte that is lost and is neither of a shift nor of caps lock changes
neither the line nor the keyboard, so the invariant survives it.  The replay is stated by two functions, the shift and the lock
state before each byte, that exist; a step shifts them (`TakeKey`) or extends them
(`StoreKey`).

*Opening* (`FilesProofs`).  `DescriptorsStay`: `OpenedIsNamed` holds for every number of
processes, slots, descriptors, pages and requests (`FilesAssumption`), and every set of
disks on which the usual way to write a name is the 8.3 name without blanks
(`UsualNames`, a hypothesis of the theorem; the disks of `files` satisfy it).  `OpenedIsNamed` is not inductive: the
next open could take a slot that is in use.  `Inv` adds that

* the free lists name each slot at most once (`FreeLists`) and none that a
  descriptor or an open in progress points to (`FileOK`, `Named`);
* an open that has its inode carries the right one through `read_map` (`BeingOpened`);
* while anybody is mounting, which makes new lists, nothing is open (`Quiet`).

That no word of an open inode is overwritten out of reach of the maps in earlier slots is a
second invariant, `Spilt`: every overwritten word lies behind the block array of some slot in use, at an entry its
file has (`OverStays`, `SpiltNext`), and slots lie one behind the other (`SlotsApart`).  The link of the slot that
holds a long map is overwritten as well, but that slot is on no list.

`TakeSlot` and `InitSlot` are about the lists, `ScanFinds` about `scan_dentry_buf`; its
first match exists because the naturals are well-founded.

Another invariant, `Core` with `Tables`, carries `TypeOKHolds`, `DataIsAskedHolds` and
`PagesAccountedHolds`:

* `Ring`: the slots between the pointers are requests of different processes, and whoever has no
  request there has got what it asked for.  Since `fs_init` does not look whether the ring is
  full, its request must fit: `FirstAskFits` counts, by pigeonhole, that those who mount are
  fewer than the slots, which is what `BUF_SIZE > Cardinality(EarlyChildren)` is for;
* `Books`: free, held and lost pages add up, where what is held depends only on where each
  process sleeps (`Cost`, `MoveBooks`);
* `Phases`: nobody opens while somebody mounts.

`MountFindsRootHolds` needs one more, `Mount`: before the volume is mounted nobody has a root and
who sleeps on the boot sector left the full list of inodes (`Unmounted`); afterwards the one
who is still mounting finds the first inode, and only it, taken (`Mounted`); and no root is in
the free list (`RootsKept`).  That no map overwrites a root is `RootsSafe`: the free list is in ascending order
(`Increasing`), so every root lies below every slot an open is given (`TakeLowest`, `OpenSafe`), and maps only run upwards.  `FilledIsVolume` shows that what `read_super` computes is the layout of a volume whose
formatter rounded as one must (`Formatted`; the disks of `files` satisfy it).  The other
hypothesis, `TwoMounters`, says that init forked at most one child before it mounted: the
third process to mount would make a new list with only the first inode taken off, and the root inode of
the second would be in it; TLC finds this with three early mounters.  The image mounts in init alone, before its first fork
(`proc.c:51`, `proc.c:67`).

*Process memory* (`KmemProofs`).  For every memory, pool and set of sizes.  `HolesTile`,
`FreeHolesMerged`, `SlotsConserved` and `BusyIsOwned` are inductive only together:
merging at most once on either side suffices because the list was merged before, the block
freed is found because it is owned, and a split leaves distinct bases because the holes
tile.  `Inv` adds that the kernel's block is the lowest hole and never freed.  `NodesBounded`
follows by counting: every free node has a used one in front of it.  `ImplementsArenaHolds`: a
used hole lies apart from all others, so the block cut from a free one overlaps
nobody's.

*Kernel memory* (`KPagesProofs`).  The theorems have the hypothesis `OnePage`
(`Sizes \subseteq 1..PAGE_SIZE`), under which `kmalloc` ends its scan at the first page marked free and
is right; `kpages_overlap` shows what happens without it.  The invariant is the table's
description together with the blocks in use being different pages (`BlocksDisjointHolds`).

*Reading* (`FileReadProofs`).  For any number of readers and files, bases of segments, buffers, cluster sizes and
block arrays.  `HasRoom`: what a reader has got and what is left are together never more than
was asked for, also when others moved `f_pos` while it slept; `RoundInFile`: the piece it is about
to copy was cut to the file before the sleep; `InPlace` and `Delivered`: for a private file, the position is
as far on as was read, and a call that is still `whole` has that stretch in memory from `buf` on; `Apart`: such a
call shares no address with another under way.

*FAT* (`FatProofs`).  `EntryValHolds`: for every table, `FATEntryVal` undoes the packing of the
disk: 12-bit entries at odd and even clusters, wherever the sector ends, any value
of the reserved bits.  The one assumption about sizes is `sector_size >= 4`, that no entry
takes more than two sectors.  `MapFollowsChainHolds`, `MapCoversFileHolds` and `MapBoundedHolds` follow from
`Chain` (the map so far is the chain, `index` the entry after its last) and `Counted`
(`count` is what the size still needs).  The hypothesis on the tables is that of `Init`: clusters and end marks.

*Only model-checked*: liveness under fairness (`ReadReturns`, `ReadyRuns`, `KeyDelivered`, `ReadEnds`,
`OpenReturns`), which is outside the prover, and the four counterexamples.

## 5. Not modelled

* The 8259 masks and nested handlers, exceptions (they print and halt), the
  encodings of descriptors and gates, the console and `printk`, PCI and CPU
  probing, the boot sector, the keyboard controller and its LEDs: I/O or encodings
  that run once or carry no protocol with the rest.
* The unlucky cases no text promises anything about: `fs_init` while files are
  open or with a third mounter, keys with both shifts down or after a lost byte of a shift or of caps lock, FATs with cycles under
  `sys_open` (`Fat` has them), FAT entries that are neither a cluster nor an end mark, what the machine does after it has followed a stray pointer (`"wild"`).
* Readers of the keyboard together with `_exit()`: `KbReaders` is empty in
  `kernel_exit`.
* A drive that fails under `Files`: `hd_handlerp` then wakes nobody and every later
  read sleeps for ever, which `kernel_safety` has.

## 6. Plan

1. The rings of `Keyboard` and `Files` as refinements of the counter and the
   sequence of `Kernel`; a proof that the mounting and opening of `Files` makes only
   disk requests `Kernel` has.
2. `KernelExit` with the invariants of `Kernel` that survive an interruptible
   `schedule()`.
3. The cursor and the scrolling of the console.
