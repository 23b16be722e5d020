------------------------------ MODULE FileRead ------------------------------
(***************************************************************************)
(* sys_read (fs/read.c): filp_read takes a file cluster by cluster and     *)
(* sleeps in get_block at each, while other processes run.  A struct file  *)
(* with its position f_pos belongs to one process, or to several after a   *)
(* fork.  The kernel is not preempted: between two sleeps a reader is      *)
(* alone in it.                                                            *)
(***************************************************************************)
EXTENDS Integers, Functions

CONSTANTS
  Readers, Files,   \* processes; struct file slots
  NoFile,           \* a descriptor that names none
  FileOf,           \* reader |-> the file its descriptor names, or NoFile
  Phys,             \* reader |-> map[D].phys: 0, or where fork copied the father
  SegEnd,           \* map[D].vir + map[D].size
  Buffers,          \* reader |-> the addresses it passes as buf
  Clusz,            \* bytes of a cluster
  NR_BLOCK,         \* entries of ip->block (fs.h: 10)
  Sizes,            \* sizes of the file on the disk
  Requests          \* <<size, count>> asked for

ASSUME FileReadAssumption ==
  /\ NoFile \notin Files
  /\ FileOf \in [Readers -> Files \cup {NoFile}]
  /\ Phys \in [Readers -> Nat] /\ SegEnd \in Nat
  /\ Buffers \in [Readers -> SUBSET Nat]
  /\ Clusz \in Nat \ {0} /\ NR_BLOCK \in Nat \ {0}
  /\ Sizes \subseteq Nat /\ Requests \subseteq (Nat \ {0}) \X Nat

VARIABLES
  filesz,           \* ip->size, the same inode for all
  f_pos,            \* file |-> its position
  pc,               \* reader |-> "user", "loop" (of filp_read) or "get_block"
  start, put,       \* reader |-> buf, and how far ClusterRead has moved it
  size,             \* reader |-> argument of sys_read
  asked, left, oldpos,   \* reader |-> argument and locals of filp_read
  chunk,            \* reader |-> Clu, offset and valid of the running round
  mem,              \* linear address |-> the byte the calls under way put there
  whole             \* history: every round copied, and no other call's bytes
                    \* go where this one's do

args == <<start, size, asked, oldpos>>
vars == <<filesz, f_pos, pc, put, left, chunk, mem, whole, args>>

NoChunk == [Clu |-> 0, offset |-> 0, valid |-> 0]

Init ==
  /\ filesz \in Sizes
  /\ f_pos = [f \in Files |-> 0]
  /\ pc = [p \in Readers |-> "user"]
  /\ start = [p \in Readers |-> 0] /\ put = start
  /\ size = [p \in Readers |-> 1]
  /\ asked = [p \in Readers |-> 0] /\ left = asked /\ oldpos = asked
  /\ chunk = [p \in Readers |-> NoChunk]
  /\ mem = <<>>
  /\ whole = [p \in Readers |-> TRUE]

-----------------------------------------------------------------------------
KernelIsFree == \A p \in Readers : pc[p] # "loop"

Calling(p) == pc[p] # "user"

\* The linear addresses a call may fill: the kernel's segment begins at 0.
window(p) == start[p]..(start[p] + asked[p] - 1)

(***************************************************************************)
(* sys_read tests the linear address of the buffer, and a descriptor       *)
(* without a file; then it hands on buf itself, not that address.          *)
(***************************************************************************)
umap(p, offset) == IF offset >= SegEnd THEN 0 ELSE Phys[p] + offset

sys_read(p, a, r) ==
  /\ pc[p] = "user" /\ KernelIsFree
  /\ \/ (umap(p, a) = 0 \/ FileOf[p] = NoFile) /\ UNCHANGED vars   \* returns 0
     \/ /\ umap(p, a) # 0 /\ FileOf[p] # NoFile
        /\ pc' = [pc EXCEPT ![p] = "loop"]
        /\ start' = [start EXCEPT ![p] = a]
        /\ size' = [size EXCEPT ![p] = r[1]]
        /\ asked' = [asked EXCEPT ![p] = r[1] * r[2]]
        /\ left' = [left EXCEPT ![p] = r[1] * r[2]]
        /\ oldpos' = [oldpos EXCEPT ![p] = f_pos[FileOf[p]]]
        /\ LET shared == {q \in Readers \ {p} : Calling(q) /\ window(q) \cap window(p)' # {}}
           IN  whole' = [q \in Readers |-> IF q = p THEN shared = {}
                                           ELSE whole[q] /\ q \notin shared]
        /\ UNCHANGED <<filesz, f_pos, put, chunk, mem>>

(***************************************************************************)
(* How much of the cluster at f_pos is read: up to the end of the cluster, *)
(* or of the file in its last, partly used cluster, or what is left.       *)
(***************************************************************************)
\* Mutant of cluster_end: the last cluster is taken for a full one.
FullCluster(Clu) == Clusz

cluster_end(Clu) ==
  IF Clu = filesz \div Clusz /\ filesz % Clusz # 0 THEN filesz % Clusz ELSE Clusz

\* Mutant of valid_size: what the caller asked for is not looked at.
ValidToEnd(Clu, offset, l) == cluster_end(Clu) - offset

valid_size(Clu, offset, l) ==
  LET valid == cluster_end(Clu) - offset IN IF l < valid THEN l ELSE valid

(***************************************************************************)
(* After a round the position moves by what the round was to read, whether *)
(* or not ClusterRead copied anything.                                     *)
(***************************************************************************)
Advance(p, valid) ==
  /\ f_pos' = [f_pos EXCEPT ![FileOf[p]] = @ + valid]
  /\ left' = [left EXCEPT ![p] = @ - valid]

(***************************************************************************)
(* The head of the loop: start on a cluster, or return, at which the       *)
(* locals are dead and what lies in no other call's window is the          *)
(* program's again.  ClusterRead refuses a number beyond the block array,  *)
(* but lets NR_BLOCK itself pass.  get_block asks for a page before it     *)
(* sleeps, and without one nothing is copied in this round.                *)
(***************************************************************************)
\* Mutant of More: the loop goes on with nothing left to read.
MoreThanAsked(p) == left[p] >= 0 /\ filesz > f_pos[FileOf[p]]

More(p) == left[p] > 0 /\ filesz > f_pos[FileOf[p]]

returned(p) == (f_pos[FileOf[p]] - oldpos[p]) \div size[p]

Return(p) ==
  /\ pc[p] = "loop" /\ ~More(p)
  /\ pc' = [pc EXCEPT ![p] = "user"]
  /\ start' = [start EXCEPT ![p] = 0]
  /\ put' = [put EXCEPT ![p] = 0]
  /\ size' = [size EXCEPT ![p] = 1]
  /\ asked' = [asked EXCEPT ![p] = 0]
  /\ left' = [left EXCEPT ![p] = 0]
  /\ oldpos' = [oldpos EXCEPT ![p] = 0]
  /\ mem' = Restrict(mem, {a \in DOMAIN mem :
                             \E q \in Readers \ {p} : Calling(q) /\ a \in window(q)})
  /\ whole' = [whole EXCEPT ![p] = TRUE]
  /\ UNCHANGED <<filesz, f_pos, chunk>>

filp_read(p) ==
  /\ pc[p] = "loop" /\ More(p)
  /\ LET Clu == f_pos[FileOf[p]] \div Clusz
         offset == f_pos[FileOf[p]] % Clusz
         valid == valid_size(Clu, offset, left[p])
     IN  \/ \* a number ClusterRead refuses, or get_block without a page
            /\ Advance(p, valid)
            /\ whole' = [whole EXCEPT ![p] = FALSE]
            /\ UNCHANGED <<pc, chunk>>
         \/ /\ Clu <= NR_BLOCK
            /\ chunk' = [chunk EXCEPT ![p] = [Clu |-> Clu, offset |-> offset,
                                              valid |-> valid]]
            /\ pc' = [pc EXCEPT ![p] = "get_block"]
            /\ UNCHANGED <<f_pos, left, whole>>
  /\ UNCHANGED <<filesz, put, mem, args>>

(***************************************************************************)
(* The block has come: it is copied to where *buf points.  A byte is named *)
(* by its cluster and its place in it.  Also entry NR_BLOCK of the map is  *)
(* where read_map has put it, over ip->i_op, which nothing else uses.      *)
(***************************************************************************)
Copied(c, i) == <<c.Clu, c.offset + i>>

\* Mutant of memcpy: the pointer into the buffer is not moved on.
MemcpyToStart(p, c) ==
  [a \in DOMAIN mem \cup start[p]..(start[p] + c.valid - 1) |->
     IF a \in start[p]..(start[p] + c.valid - 1) THEN Copied(c, a - start[p]) ELSE mem[a]]

memcpy(p, c) ==
  LET to == start[p] + put[p]
      cells == to..(to + c.valid - 1)
  IN  [a \in DOMAIN mem \cup cells |-> IF a \in cells THEN Copied(c, a - to) ELSE mem[a]]

ClusterRead(p) ==
  /\ pc[p] = "get_block" /\ KernelIsFree
  /\ mem' = memcpy(p, chunk[p])
  /\ put' = [put EXCEPT ![p] = @ + chunk[p].valid]
  /\ Advance(p, chunk[p].valid)
  /\ pc' = [pc EXCEPT ![p] = "loop"]
  /\ chunk' = [chunk EXCEPT ![p] = NoChunk]
  /\ UNCHANGED <<filesz, whole, args>>

Next == \E p \in Readers :
          \/ \E a \in Buffers[p], r \in Requests : sys_read(p, a, r)
          \/ filp_read(p) \/ Return(p)
          \/ ClusterRead(p)

Spec == Init /\ [][Next]_vars

\* A read that waits for the disk gets its block (ReadReturns of MCKernel),
\* and a process in the kernel goes on.
LiveSpec ==
  Spec /\ \A p \in Readers : WF_vars(filp_read(p) \/ Return(p)) /\ SF_vars(ClusterRead(p))

-----------------------------------------------------------------------------
(***************************************************************************)
(* The reference: byte i of the file.                                      *)
(***************************************************************************)
FileByte(i) == <<i \div Clusz, i % Clusz>>

Private(p) == \A q \in Readers : FileOf[q] = FileOf[p] => q = p

(***************************************************************************)
(* A reader has at most one round under way and no round is empty, so the  *)
(* loop of filp_read makes progress.                                       *)
(***************************************************************************)
TypeOK ==
  /\ filesz \in Sizes /\ f_pos \in [Files -> Nat]
  /\ pc \in [Readers -> {"user", "loop", "get_block"}]
  /\ \A p \in Readers : left[p] \in 0..asked[p] /\ put[p] \in 0..asked[p]
  /\ \A p \in Readers : pc[p] = "get_block" <=> chunk[p].valid > 0

(***************************************************************************)
(* A reader of its own file moves its position over the next stretch, all  *)
(* that was asked for or up to the end, and is told how many whole items   *)
(* that is, whatever other readers do meanwhile.  The stretch itself is in *)
(* the linear memory at buf if each of its rounds got a block and no other *)
(* call under way fills the same addresses (read.c:45-100).  It is the     *)
(* reader's own buffer only if its segment begins at 0 there.              *)
(***************************************************************************)
ReadDeliversFile ==
  \A p \in Readers :
    Private(p) /\ pc[p] = "loop" /\ ~More(p)
      => LET old == oldpos[p]
             read == IF asked[p] < filesz - old THEN asked[p] ELSE filesz - old
         IN  /\ f_pos[FileOf[p]] = old + read
             /\ returned(p) = read \div size[p]
             /\ whole[p]
                  => \A i \in 0..(read - 1) :
                       /\ start[p] + i \in DOMAIN mem
                       /\ mem[start[p] + i] = FileByte(old + i)

(***************************************************************************)
(* However f_pos is moved under the feet of the readers that sleep, by     *)
(* other readers of the same file, the kernel puts bytes only where a call *)
(* under way asked for them, and only bytes of the file: none from behind  *)
(* its end, and none behind the asked[p] bytes at buf (read.c:19-77).      *)
(***************************************************************************)
BufferSafe ==
  \A a \in DOMAIN mem :
    /\ \E p \in Readers : Calling(p) /\ a \in window(p)
    /\ \E i \in 0..(filesz - 1) : mem[a] = FileByte(i)

(***************************************************************************)
(* Every read ends.                                                        *)
(***************************************************************************)
ReadEnds == \A p \in Readers : Calling(p) ~> ~Calling(p)
=============================================================================
