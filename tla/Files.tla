------------------------------- MODULE Files --------------------------------
(***************************************************************************)
(* Mounting and opening: the calls fs_init (fs_check() in programs) and    *)
(* sys_open, with what they share: the super block, the slots of inodes    *)
(* and files, the pages of kmalloc, and the ring of disk requests through  *)
(* which every block is read.                                              *)
(*                                                                         *)
(* The kernel is not preempted (KernelNotPreempted of Kernel), so a call   *)
(* runs undisturbed from one do_read, where it sleeps, to the next: that   *)
(* stretch is one action.  A woken process may go on at any later time.    *)
(* Pages are counted: KPages shows that a request of one page is served    *)
(* exactly when a page is free, and everything asked for here is one page. *)
(***************************************************************************)
EXTENDS Integers, Sequences, FiniteSets

CONSTANTS
  NULL,
  MaxProc,        \* processes are 1..MaxProc; init is 1
  EarlyChildren,  \* slots forked before their program called fs_check()
  INODE_NR, FILP_NR, maxopen,  \* 20, 8 and 5 in the sources
  NR_BLOCK,       \* entries of inode.block (10)
  NAME_WORDS,     \* words of inode.name (64)
  NR_PAGES,       \* pages of kernel memory (128)
  BUF_SIZE,       \* slots of the disk request ring (5)
  SCANNED,        \* directory entries in the 1024 bytes sys_open reads (32)
  Disks,          \* disks the machine may have
  Names           \* names programs ask for

ASSUME FilesAssumption ==
  /\ MaxProc \in Nat \ {0} /\ EarlyChildren \subseteq 2..MaxProc
  /\ INODE_NR \in Nat \ {0} /\ FILP_NR \in Nat \ {0} /\ maxopen \in Nat \ {0}
  /\ NR_BLOCK \in Nat \ {0} /\ NAME_WORDS \in Nat
  /\ NR_PAGES \in Nat /\ SCANNED \in Nat
  /\ BUF_SIZE \in Nat /\ BUF_SIZE > Cardinality(EarlyChildren)
  /\ INODE_NR > Cardinality(EarlyChildren)
  /\ \A d \in Disks : /\ DOMAIN d.dir \subseteq Nat
                      /\ \A i \in DOMAIN d.dir : d.dir[i].clusters \in Nat

Proc == 1..MaxProc
Fds == 0..(maxopen - 1)

VARIABLES
  disk,           \* the disk: partition table, boot sector, root directory
  halted,         \* "no"; "panic"; "wild": a stray pointer was followed, and
                  \* what the machine does then is not modelled
  pc,             \* p |-> where its system call sleeps, or "start", "user"
  root,           \* p |-> p->fs.root, an inode slot
  openfd, fd_array,   \* p |-> the bits and the pointers of p->files
  super,          \* super_block[0]
  inode, inode_head,  \* inode slots and the free ones, first one first
  scrap,          \* words of the inode table that a long map has overwritten
  filp, filp_head,    \* file slots, as the inode each points to; free ones
  pages,          \* free pages of kernel memory
  req_buf, req_head, req_tail, req_count,
  data,           \* p |-> the sector in_words() has put into its buffer
  local,          \* p |-> locals of its call: name, inode, FAT entries left
  want,           \* history, p |-> the sector it is waiting for
  lost,           \* history: pages nobody will ever free
  opened          \* history, p |-> fd |-> the name it was opened under

callVars == <<pc, local, want>>
fdVars == <<root, openfd, fd_array, opened>>
slotVars == <<super, inode, inode_head, scrap, filp, filp_head>>
ringVars == <<req_buf, req_head, req_tail, req_count, data>>
vars == <<disk, halted, callVars, fdVars, slotVars, pages, lost, ringVars>>

NoLocal == [name |-> NULL, dip |-> NULL, left |-> 0]

-----------------------------------------------------------------------------
(***************************************************************************)
(* slot.h: init_slot links all slots of a table, alloc_slot takes the      *)
(* first of the list.  Nothing ever calls free_slot for files or inodes.   *)
(***************************************************************************)
init_slot(num) == [i \in 1..num |-> i]

first_slot(head) == IF head = <<>> THEN NULL ELSE Head(head)

rest_slots(head) == IF head = <<>> THEN <<>> ELSE Tail(head)

filp_init == init_slot(FILP_NR)
inode_init == init_slot(INODE_NR)

get_filp == first_slot(filp_head)
get_inode == first_slot(inode_head)

(***************************************************************************)
(* struct inode, word by word: i_sb, size, the name, block[], i_op, and    *)
(* the link that chains the free slots.  Nothing stops read_map at the end *)
(* of block[]: entry i of a longer map is stored over what is there, in    *)
(* this slot and in the next ones.  A pointer read from such a word is     *)
(* stray; a link that is makes Astray the only slot on the list.           *)
(***************************************************************************)
INODE_WORDS == 2 + NAME_WORDS + NR_BLOCK + 2

i_sb(slot) == (slot - 1) * INODE_WORDS
block_word(slot, i) == i_sb(slot) + 2 + NAME_WORDS + i
link(slot) == block_word(slot, NR_BLOCK) + 1

Astray == 0

next_slots == IF link(get_inode) \in scrap THEN <<Astray>> ELSE rest_slots(inode_head)

\* Opening fills the slot up to block[0].
filled(slot) == i_sb(slot)..block_word(slot, 0)

overruns(i) == i >= NR_BLOCK

leaves_table(slot, i) == block_word(slot, i) >= INODE_NR * INODE_WORDS

store_entry(slot, i) ==
  scrap' = IF overruns(i) THEN scrap \cup {block_word(slot, i)} ELSE scrap \ {block_word(slot, i)}

-----------------------------------------------------------------------------
(***************************************************************************)
(* The request ring.  do_read fills the slot at req_tail and sleeps; the   *)
(* interrupt serves the slot at req_head.  A served slot is dead: it is    *)
(* cleared here so that states do not differ in it.                        *)
(***************************************************************************)
NoRequest == [block |-> NULL, waiter |-> NULL]

ring_full == req_count >= BUF_SIZE

\* Mutant of wrap: a pointer goes one slot too far.
WrapLate(slot) == IF slot > BUF_SIZE THEN 0 ELSE slot

wrap(slot) == IF slot = BUF_SIZE THEN 0 ELSE slot

do_read(p, block) ==
  /\ req_buf' = [req_buf EXCEPT ![req_tail] = [block |-> block, waiter |-> p]]
  /\ req_tail' = wrap(req_tail + 1)
  /\ req_count' = req_count + 1
  /\ data' = [data EXCEPT ![p] = NULL]
  /\ want' = [want EXCEPT ![p] = block]
  /\ UNCHANGED req_head

hd_handlerp ==
  /\ halted = "no" /\ req_count > 0
  /\ data' = [data EXCEPT ![req_buf[req_head].waiter] = req_buf[req_head].block]
  /\ req_buf' = [req_buf EXCEPT ![req_head] = NoRequest]
  /\ req_head' = wrap(req_head + 1)
  /\ req_count' = req_count - 1
  /\ UNCHANGED <<disk, halted, callVars, fdVars, slotVars, pages, lost, req_tail>>

(***************************************************************************)
(* Process p, woken with its data in `where', goes on.                     *)
(***************************************************************************)
Woken(p, where) == halted = "no" /\ pc[p] = where /\ data[p] # NULL

Goto(p, where, locals) ==
  /\ pc' = [pc EXCEPT ![p] = where]
  /\ local' = [local EXCEPT ![p] = locals]

Return(p) ==
  /\ Goto(p, "user", NoLocal)
  /\ want' = [want EXCEPT ![p] = NULL]
  /\ data' = [data EXCEPT ![p] = NULL]
  /\ UNCHANGED <<halted, req_buf, req_head, req_tail, req_count>>

Halt(how) ==
  /\ halted' = how
  /\ UNCHANGED <<callVars, pages, ringVars>>

(***************************************************************************)
(* get_block with `avail' pages left: a page for the head, one for the     *)
(* data, and the read; bread refuses a NULL buffer and a full ring, and    *)
(* either refusal is a panic.  Without a head the store of bp->data goes   *)
(* to address 0, where memory is, and NULL is returned: read_super panics  *)
(* on it, get_name below says what sys_open does, and read_map, which has  *)
(* just put back two pages, never gets it.                                 *)
(***************************************************************************)
get_block(p, block, avail, where, locals) ==
  \/ /\ avail >= 2 /\ ~ring_full
     /\ pages' = avail - 2
     /\ do_read(p, block)
     /\ Goto(p, where, locals)
     /\ UNCHANGED halted
  \/ (avail < 2 \/ ring_full) /\ Halt("panic")

\* Mutant of put_block: the buffer head is kept.
FreesDataOnly(n) == n + 1

put_block(n) == n + 2

-----------------------------------------------------------------------------
(***************************************************************************)
(* fs_init, up to the sleep in get_part_table.  Programs mount before they *)
(* use files: a second fs_init links the slots of open files as free, and  *)
(* init_task calls it first of all.                                        *)
(***************************************************************************)
fs_init(p) ==
  /\ halted = "no" /\ pc[p] = "start"
  /\ do_read(p, 0)
  /\ Goto(p, "table", NoLocal)
  /\ UNCHANGED <<disk, halted, fdVars, slotVars, pages, lost>>

(***************************************************************************)
(* The end of mount_fs and of fs_init: an inode for the root directory,    *)
(* and an empty descriptor table whose root it is.                         *)
(***************************************************************************)
mount_root(p, sb, free) ==
  LET rip == first_slot(free)
  IN  /\ inode_head' = rest_slots(free)
      /\ super' = [sb EXCEPT !.rootdir = rip]
      /\ inode' = [inode EXCEPT ![rip] = [id |-> NULL, block |-> sb.dir_first_sec,
                                         clusters |-> 0]]
      /\ root' = [root EXCEPT ![p] = rip]
      /\ openfd' = [openfd EXCEPT ![p] = {}]
      /\ opened' = [opened EXCEPT ![p] = [fd \in Fds |-> NULL]]
      /\ UNCHANGED <<fd_array, scrap>>
      /\ Return(p)

(***************************************************************************)
(* partition_check and mount_fs up to the next sleep.  Without the         *)
(* signature the table keeps its zeros and sector 0 is taken for the boot  *)
(* sector.  get_super finds a super block that is mounted already; if      *)
(* there is none, get_empty_super returns the first, and the boot sector   *)
(* is read before anything marks it as taken.                              *)
(***************************************************************************)
first_log == IF disk.signature THEN disk.first_log ELSE 0

get_super(dev) == super.dev = dev

partition_check(p) ==
  /\ Woken(p, "table")
  /\ filp_head' = filp_init
  /\ \/ /\ get_super(1)
        /\ mount_root(p, super, inode_init)
        /\ UNCHANGED pages
     \/ /\ ~get_super(1)
        /\ inode_head' = inode_init
        /\ super' = [super EXCEPT !.base = first_log]
        /\ get_block(p, first_log, pages, "super", NoLocal)
        /\ UNCHANGED <<inode, scrap, fdVars>>
  /\ UNCHANGED <<disk, filp, lost>>

(***************************************************************************)
(* read_super, from the boot sector on: the layout of the volume and its   *)
(* kind.  The lock of the super block is taken and given back within the   *)
(* stretch, so nobody ever waits for it.                                   *)
(***************************************************************************)
\* Mutant of rootdirsectors: the division is not rounded up.
RootDirTruncated(bs) == (bs.dir_number * 32) \div bs.sector_size

rootdirsectors(bs) == (bs.dir_number * 32 + (bs.sector_size - 1)) \div bs.sector_size

fatsz(bs) == IF bs.fatsz16 # 0 THEN bs.fatsz16 ELSE bs.fatsz32

totsec(bs) == IF bs.totsec16 # 0 THEN bs.totsec16 ELSE bs.totsec32

countofclusters(bs) ==
  (totsec(bs) - (bs.reserved + bs.fat_number * fatsz(bs) + rootdirsectors(bs)))
    \div bs.cluster_size

FstSecofDataClu(sb, n) == (n - 2) * sb.cluster_size + sb.data_first_sec

filled_super(bs) ==
  LET fats == super.base + bs.reserved + bs.fat_number * fatsz(bs)
      n == countofclusters(bs)
      sb == [super EXCEPT !.dev = 1, !.resvdseccnt = bs.reserved,
                          !.cluster_size = bs.cluster_size,
                          !.type = IF n < 4085 THEN 1 ELSE IF n < 65525 THEN 2 ELSE 3,
                          !.data_first_sec = fats + rootdirsectors(bs)]
  IN  [sb EXCEPT !.dir_first_sec =
         IF sb.type = 3 THEN FstSecofDataClu(sb, bs.rootclus) ELSE fats]

read_super(p) ==
  /\ Woken(p, "super")
  /\ \/ /\ disk.boot.sector_size # 512
        /\ Halt("panic")
        /\ UNCHANGED <<fdVars, super, inode, inode_head, scrap>>
     \/ /\ disk.boot.sector_size = 512
        /\ mount_root(p, filled_super(disk.boot), inode_head)
        /\ pages' = put_block(pages)
  /\ UNCHANGED <<disk, filp, filp_head, lost>>

-----------------------------------------------------------------------------
(***************************************************************************)
(* sys_open, up to the sleep on the directory: a page for the name, which  *)
(* is copied through whatever kmalloc returned, then get_block.  With no   *)
(* page for the name or for the head of the block nothing is read: the     *)
(* directory is taken from address 0, where as a rule no such name is, the *)
(* open fails and the page of the name is lost.                            *)
(***************************************************************************)
MountingOver == \A p \in Proc : pc[p] \notin {"start", "table", "super"}

get_name(p, name) ==
  /\ halted = "no" /\ pc[p] = "user" /\ MountingOver
  /\ \/ /\ pages <= 1
        /\ lost' = lost + pages /\ pages' = 0
        /\ UNCHANGED <<halted, callVars, ringVars>>
     \/ pages <= 1 /\ inode_head # <<>> /\ Halt("wild") /\ UNCHANGED lost
     \/ /\ pages > 1
        /\ get_block(p, inode[root[p]].block, pages - 1, "dir",
                     [NoLocal EXCEPT !.name = name])
        /\ UNCHANGED lost
  /\ UNCHANGED <<disk, fdVars, slotVars>>

(***************************************************************************)
(* scan_dentry_buf: the first of the scanned entries that is neither a     *)
(* piece of a long name nor deleted and whose 8.3 name, written the usual  *)
(* way, is the name asked for.                                             *)
(***************************************************************************)
Space == " "

trim(part) ==
  LET used == {i \in DOMAIN part : part[i] # Space}
  IN  SubSeq(part, 1, IF used = {} THEN 0 ELSE CHOOSE i \in used : \A j \in used : j <= i)

visible(part) == SelectSeq(part, LAMBDA c : c # Space)

\* Mutant of shortnamecopy: the dot before the extension is forgotten.
NameWithoutDot(from) == trim(from.main) \o visible(from.ext)

shortnamecopy(from) ==
  trim(from.main) \o (IF from.ext[1] # Space THEN <<".">> ELSE <<>>) \o visible(from.ext)

Listed(de) == ~de.long_name /\ de.main[1] # "0xE5"

scan_dentry_buf(buf, name) ==
  LET found == {i \in DOMAIN buf : /\ i <= SCANNED /\ Listed(buf[i])
                                   /\ shortnamecopy(buf[i]) = name}
  IN  IF found = {} THEN NULL ELSE buf[CHOOSE i \in found : \A j \in found : i <= j]

(***************************************************************************)
(* What a sector holds as a directory, and the sector of a FAT entry; Fat  *)
(* is about which entries read_map visits, here they are only counted.     *)
(***************************************************************************)
Directory(sector) == IF sector = first_log + disk.root THEN disk.dir ELSE <<>>

FatSector == super.base + super.resvdseccnt

(***************************************************************************)
(* sys_open from the directory to the first sleep in read_map.  A name     *)
(* that is not there, or no inode slot left, ends the call with the three  *)
(* pages still allocated and nobody knowing them.  `clusters' is how often *)
(* the loop of read_map runs for the file.                                 *)
(***************************************************************************)
sys_open(p) ==
  /\ Woken(p, "dir")
  /\ LET de == scan_dentry_buf(Directory(data[p]), local[p].name)
         dip == get_inode
     IN  \/ /\ de = NULL \/ dip = NULL
            /\ lost' = lost + 3
            /\ Return(p)
            /\ UNCHANGED <<pages, inode, inode_head, scrap>>
         \/ /\ de # NULL /\ dip = Astray
            /\ Halt("wild")
            /\ UNCHANGED <<inode, inode_head, scrap, lost>>
         \/ /\ de # NULL /\ dip \notin {NULL, Astray}
            /\ inode_head' = next_slots
            /\ inode' = [inode EXCEPT ![dip] = [id |-> de.id, block |-> de.cluster,
                                               clusters |-> de.clusters]]
            /\ scrap' = scrap \ filled(dip)
            /\ get_block(p, FatSector, put_block(pages) + 1, "fat",
                         [local[p] EXCEPT !.dip = dip, !.left = de.clusters])
            /\ UNCHANGED lost
  /\ UNCHANGED <<disk, fdVars, super, filp, filp_head>>

(***************************************************************************)
(* read_map, woken with an entry of the chain, stores it and goes on to    *)
(* the next one ...                                                        *)
(***************************************************************************)
\* Mutant of goes_on: the end mark of the chain is not seen.
GoesOnForEver(p) == local[p].left >= 1

goes_on(p) == local[p].left > 1

lost_sb(p) == i_sb(local[p].dip) \in scrap

\* Mutant of stored: block[++i] for block[i++].
StoredOneFurther(p) == inode[local[p].dip].clusters - local[p].left + 2

stored(p) == inode[local[p].dip].clusters - local[p].left + 1

read_map(p) ==
  /\ Woken(p, "fat") /\ goes_on(p) /\ ~lost_sb(p)
  /\ LET dip == local[p].dip
         i == stored(p)
     IN  \/ /\ ~leaves_table(dip, i)
            /\ store_entry(dip, i)
            /\ get_block(p, FatSector, put_block(pages), "fat",
                         [local[p] EXCEPT !.left = IF @ > 1 THEN @ - 1 ELSE @])
         \/ leaves_table(dip, i) /\ Halt("wild") /\ UNCHANGED scrap
  /\ UNCHANGED <<disk, fdVars, super, inode, inode_head, filp, filp_head, lost>>

(***************************************************************************)
(* ... or finds i_sb overwritten by the map of another file.  Whether the  *)
(* entry ends the chain is then asked of a stray super block: either it    *)
(* does, or the next entry is looked for in a stray sector.                *)
(***************************************************************************)
read_map_astray(p) ==
  /\ Woken(p, "fat") /\ lost_sb(p)
  /\ Halt("wild")
  /\ UNCHANGED <<disk, fdVars, slotVars, lost>>

(***************************************************************************)
(* When it is done, sys_open takes the lowest free descriptor and a file   *)
(* slot.  Out of descriptors the inode is lost; out of file slots the      *)
(* descriptor's bit stays set as well.                                     *)
(***************************************************************************)
\* Mutant of out_of_fds: one descriptor too many.
OutOfFdsLate(fd) == fd > maxopen

out_of_fds(fd) == fd >= maxopen

find_zero_bit(bits) == CHOOSE n \in 0..maxopen : n \notin bits /\ 0..(n - 1) \subseteq bits

get_unused_fd(p) ==
  /\ Woken(p, "fat") /\ (~goes_on(p) \/ lost_sb(p))
  /\ pages' = put_block(pages)
  /\ LET fd == find_zero_bit(openfd[p])
         f == get_filp
     IN  \/ /\ out_of_fds(fd)
            /\ UNCHANGED <<openfd, fd_array, opened, filp, filp_head>>
         \/ /\ ~out_of_fds(fd)
            /\ openfd' = [openfd EXCEPT ![p] = @ \cup {fd}]
            /\ filp_head' = rest_slots(filp_head)
            /\ \/ /\ f = NULL
                  /\ UNCHANGED <<fd_array, opened, filp>>
               \/ /\ f # NULL
                  /\ filp' = [filp EXCEPT ![f] = local[p].dip]
                  /\ fd_array' = [fd_array EXCEPT ![p][fd] = f]
                  /\ opened' = [opened EXCEPT ![p][fd] = local[p].name]
  /\ Return(p)
  /\ UNCHANGED <<disk, root, super, inode, inode_head, scrap, lost>>

(***************************************************************************)
(* do_fork as far as files go: the child gets a copy of the descriptor     *)
(* table and of the root, and is where its father is.                      *)
(***************************************************************************)
do_fork(p) ==
  /\ halted = "no" /\ pc[p] \in {"start", "user"}
  /\ \E child \in Proc :
       /\ pc[child] = "none" /\ \A q \in Proc : pc[q] = "none" => child <= q
       /\ pc[p] = "start" => child \in EarlyChildren
       /\ pc' = [pc EXCEPT ![child] = pc[p]]
       /\ root' = [root EXCEPT ![child] = root[p]]
       /\ openfd' = [openfd EXCEPT ![child] = openfd[p]]
       /\ fd_array' = [fd_array EXCEPT ![child] = fd_array[p]]
       /\ opened' = [opened EXCEPT ![child] = opened[p]]
  /\ UNCHANGED <<disk, halted, local, want, slotVars, pages, lost, ringVars>>

Halted == halted # "no" /\ UNCHANGED vars

-----------------------------------------------------------------------------
NoFds == [fd \in Fds |-> NULL]

\* proc_fd_init as proc_init calls it, before there is a super block.
proc_fd_init ==
  /\ root = [p \in Proc |-> NULL] /\ openfd = [p \in Proc |-> {}]
  /\ fd_array = [p \in Proc |-> NoFds] /\ opened = [p \in Proc |-> NoFds]

hd_init ==
  /\ req_buf = [i \in 0..(BUF_SIZE - 1) |-> NoRequest]
  /\ req_head = 0 /\ req_tail = 0 /\ req_count = 0
  /\ data = [p \in Proc |-> NULL]

Init ==
  /\ disk \in Disks
  /\ halted = "no"
  /\ pc = [p \in Proc |-> IF p = 1 THEN "start" ELSE "none"]
  /\ local = [p \in Proc |-> NoLocal] /\ want = [p \in Proc |-> NULL]
  /\ proc_fd_init /\ hd_init
  /\ super = [dev |-> 0, base |-> 0, resvdseccnt |-> 0, cluster_size |-> 0, type |-> 0,
              data_first_sec |-> 0, dir_first_sec |-> 0, rootdir |-> NULL]
  /\ inode = [i \in 1..INODE_NR |-> [id |-> NULL, block |-> 0, clusters |-> 0]]
  /\ inode_head = <<>> /\ scrap = {}
  /\ filp = [f \in 1..FILP_NR |-> NULL] /\ filp_head = <<>>
  /\ pages = NR_PAGES /\ lost = 0

GoOn(p) == partition_check(p) \/ read_super(p) \/ sys_open(p) \/ read_map(p)
           \/ read_map_astray(p) \/ get_unused_fd(p)

Call(p) == fs_init(p) \/ do_fork(p) \/ \E name \in Names : get_name(p, name)

Next == hd_handlerp \/ Halted \/ \E p \in Proc : Call(p) \/ GoOn(p)

(***************************************************************************)
(* The drive answers, and a process that was woken gets the CPU: what      *)
(* ReadReturns of MCKernel shows of the scheduler.                         *)
(***************************************************************************)
Spec == Init /\ [][Next]_vars /\ WF_vars(hd_handlerp) /\ \A p \in Proc : WF_vars(GoOn(p))

-----------------------------------------------------------------------------
(***************************************************************************)
(* The variables have the types of the C declarations; a descriptor is one *)
(* of the maxopen entries of fd_array (open.c:55-62).                      *)
(***************************************************************************)
TypeOK ==
  /\ halted \in {"no", "panic", "wild"}
  /\ pc \in [Proc -> {"none", "start", "user", "table", "super", "dir", "fat"}]
  /\ root \in [Proc -> (1..INODE_NR) \cup {NULL}]
  /\ openfd \in [Proc -> SUBSET Fds]
  /\ fd_array \in [Proc -> [Fds -> (1..FILP_NR) \cup {NULL}]]
  /\ filp \in [1..FILP_NR -> (1..INODE_NR) \cup {NULL}]
  /\ pages \in 0..NR_PAGES /\ lost \in 0..NR_PAGES
  /\ req_head \in 0..(BUF_SIZE - 1) /\ req_tail \in 0..(BUF_SIZE - 1)
  /\ req_count \in 0..BUF_SIZE

(***************************************************************************)
(* A descriptor that sys_open returned, in the process that opened it and  *)
(* in the children it was copied to, leads through file and inode slot to  *)
(* the file of the name it was opened under, for ever and whatever other   *)
(* processes open meanwhile, and no word of that inode is overwritten:     *)
(* unless the map of a file in an earlier slot is so long that it gets     *)
(* there (open.c:122-153, slot.h:18-36, inode.c:112-117).                  *)
(***************************************************************************)
Intact(slot) == (i_sb(slot)..block_word(slot, NR_BLOCK - 1)) \cap scrap = {}

OutOfReach(slot) == \A s \in 1..(slot - 1) : block_word(s, inode[s].clusters) <= i_sb(slot)

Opened(p, fd) == filp[fd_array[p][fd]]

OpenedIsNamed ==
  \A p \in Proc : \A fd \in Fds :
    opened[p][fd] # NULL =>
      /\ fd \in openfd[p]
      /\ \E i \in DOMAIN disk.dir :
           /\ disk.dir[i].written = opened[p][fd] /\ Listed(disk.dir[i])
           /\ inode[Opened(p, fd)].id = disk.dir[i].id
      /\ OutOfReach(Opened(p, fd)) => Intact(Opened(p, fd))

(***************************************************************************)
(* Once mounted, by one process or by two at the same time, the super      *)
(* block says what the disk is: its kind, where the data and the root      *)
(* directory begin; and every root is an inode slot in use that points to  *)
(* that directory and that no map overwrites (super.c:97-198).             *)
(***************************************************************************)
MountFindsRoot ==
  /\ super.dev = 1 => /\ super.type = disk.kind
                      /\ super.dir_first_sec = first_log + disk.root
                      /\ super.data_first_sec = first_log + disk.data
  /\ \A p \in Proc : root[p] # NULL /\ MountingOver =>
       /\ inode[root[p]] = [id |-> NULL, block |-> first_log + disk.root, clusters |-> 0]
       /\ Intact(root[p])
       /\ \A i \in DOMAIN inode_head : inode_head[i] # root[p]

(***************************************************************************)
(* Every page that is not free is held by a call in progress, or was lost  *)
(* by an open that failed at open.c:133: all other paths give back what    *)
(* they took, so kmalloc can only return NULL to a call when the pages in  *)
(* use by others and the lost ones leave too few (block.c:12-28).          *)
(***************************************************************************)
HeldPages == 3 * Cardinality({p \in Proc : pc[p] = "dir"})
             + 2 * Cardinality({p \in Proc : pc[p] \in {"super", "fat"}})

PagesAccounted == halted = "no" => pages + lost + HeldPages = NR_PAGES

(***************************************************************************)
(* The ring holds, from req_head on, one request for each process whose    *)
(* sector has not arrived, and what arrives is the sector it asked for,    *)
(* however often the two pointers have wrapped (hd.c:59-90, 265-283).      *)
(***************************************************************************)
InRing == {(req_head + i) % BUF_SIZE : i \in 0..(req_count - 1)}

DataIsAsked ==
  /\ req_tail = (req_head + req_count) % BUF_SIZE
  /\ \A p \in Proc :
       \/ want[p] = NULL /\ \A i \in InRing : req_buf[i].waiter # p
       \/ data[p] = want[p] /\ \A i \in InRing : req_buf[i].waiter # p
       \/ /\ data[p] = NULL
          /\ \E i \in InRing : /\ req_buf[i] = [block |-> want[p], waiter |-> p]
                               /\ \A j \in InRing \ {i} : req_buf[j].waiter # p

(***************************************************************************)
(* Every open comes to an end: a descriptor, -1, or the halt of a panic.   *)
(***************************************************************************)
OpenReturns ==
  \A p \in Proc : pc[p] \in {"dir", "fat"} ~> pc[p] = "user" \/ halted # "no"
=============================================================================
