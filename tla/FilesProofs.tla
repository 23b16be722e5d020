----------------------------- MODULE FilesProofs ----------------------------
(***************************************************************************)
(* For every number of processes, slots, descriptors, pages and ring       *)
(* entries: what sys_open returned keeps leading to the file of its name,  *)
(* on every disk whose directory entries are written the usual way; what   *)
(* the drive delivers is what was asked for; pages are accounted for; and  *)
(* every index stays in its table.                                         *)
(***************************************************************************)
EXTENDS Files, FiniteSetTheorems, WellFoundedInduction, TLAPS

(***************************************************************************)
(* The name a user knows a file by is the 8.3 name with a dot in it and    *)
(* without the blanks, which is what shortnamecopy makes of the entry.     *)
(***************************************************************************)
UsualNames ==
  \A d \in Disks : \A i \in DOMAIN d.dir :
    Listed(d.dir[i]) => shortnamecopy(d.dir[i]) = d.dir[i].written

-----------------------------------------------------------------------------
(***************************************************************************)
(* The inductive invariant.  A slot in use is not in the list of free ones *)
(* and holds what it was taken for; and while anybody is still mounting,   *)
(* which makes new lists of free slots, nothing is open.                   *)
(***************************************************************************)
Unused(x, list) == \A k \in 1..Len(list) : list[k] # x

Distinct(list) == \A j, k \in 1..Len(list) : list[j] = list[k] => j = k

Shape ==
  /\ disk \in Disks
  /\ DOMAIN pc = Proc /\ DOMAIN local = Proc
  /\ \A p \in Proc : DOMAIN local[p] = {"name", "dip", "left"}
  /\ DOMAIN openfd = Proc /\ DOMAIN fd_array = Proc /\ DOMAIN opened = Proc
  /\ \A p \in Proc : DOMAIN fd_array[p] = Fds /\ DOMAIN opened[p] = Fds
  /\ DOMAIN inode = 1..INODE_NR /\ DOMAIN filp = 1..FILP_NR

FreeLists ==
  /\ inode_head \in Seq(0..INODE_NR) /\ Distinct(inode_head)
  /\ filp_head \in Seq(1..FILP_NR) /\ Distinct(filp_head)

Named(i, name) ==
  /\ i \in 1..INODE_NR /\ Unused(i, inode_head)
  /\ \E k \in DOMAIN disk.dir :
       /\ shortnamecopy(disk.dir[k]) = name /\ Listed(disk.dir[k])
       /\ inode[i].id = disk.dir[k].id

FileOK(p, fd) ==
  /\ fd \in openfd[p]
  /\ fd_array[p][fd] \in 1..FILP_NR /\ Unused(fd_array[p][fd], filp_head)
  /\ Named(filp[fd_array[p][fd]], opened[p][fd])

Quiet ==
  ~MountingOver => \A p \in Proc : /\ pc[p] \notin {"dir", "fat"}
                                   /\ \A fd \in Fds : opened[p][fd] = NULL

BeingOpened == \A p \in Proc : pc[p] = "fat" => Named(local[p].dip, local[p].name)

FilesOK == \A p \in Proc : \A fd \in Fds : opened[p][fd] # NULL => FileOK(p, fd)

Inv == Shape /\ FreeLists /\ Quiet /\ BeingOpened /\ FilesOK

-----------------------------------------------------------------------------
(***************************************************************************)
(* init_slot lists every slot once; alloc_slot takes one off the list.     *)
(***************************************************************************)
LEMMA InitSlot ==
  ASSUME NEW n \in Nat
  PROVE  init_slot(n) \in Seq(1..n) /\ Distinct(init_slot(n))
<1>1. init_slot(n) \in Seq(1..n) /\ Len(init_slot(n)) = n
  BY DEF init_slot
<1>. QED  BY <1>1 DEF init_slot, Distinct

LEMMA TakeSlot ==
  ASSUME NEW S, NEW list \in Seq(S), Distinct(list), list # <<>>
  PROVE  /\ first_slot(list) = Head(list) /\ rest_slots(list) = Tail(list)
         /\ Head(list) \in S /\ Tail(list) \in Seq(S) /\ Distinct(Tail(list))
         /\ Unused(Head(list), Tail(list))
         /\ \A x : Unused(x, list) => x # Head(list) /\ Unused(x, Tail(list))
<1>1. /\ first_slot(list) = Head(list) /\ rest_slots(list) = Tail(list)
      /\ Head(list) = list[1] /\ Len(list) \in Nat \ {0}
      /\ Head(list) \in S /\ Tail(list) \in Seq(S)
      /\ Len(Tail(list)) = Len(list) - 1
  BY DEF first_slot, rest_slots
<1>2. \A k \in 1..Len(Tail(list)) : Tail(list)[k] = list[k + 1] /\ k + 1 \in 1..Len(list)
  BY <1>1
<1>3. Distinct(Tail(list))
  BY <1>1, <1>2 DEF Distinct
<1>4. Unused(Head(list), Tail(list))
  BY <1>1, <1>2 DEF Distinct, Unused
<1>5. \A x : Unused(x, list) => x # Head(list) /\ Unused(x, Tail(list))
  BY <1>1, <1>2 DEF Unused
<1>. QED  BY <1>1, <1>3, <1>4, <1>5

LEMMA LeastOf ==
  ASSUME NEW S \in SUBSET Nat, S # {}
  PROVE  \E n \in S : \A m \in S : n <= m
<1> DEFINE R == {ss \in Nat \X Nat : ss[1] < ss[2]}
<1>1. IsWellFoundedOn(R, Nat)
  BY NatLessThanWellFounded DEF OpToRel
<1>2. PICK n \in S : \A m \in S : ~(<<m, n>> \in R)
  BY <1>1, WFMin
<1>3. ASSUME NEW m \in S PROVE n <= m
  <2>1. m \in Nat /\ n \in Nat /\ <<m, n>> \notin R
    BY <1>2
  <2>2. <<m, n>> \in Nat \X Nat /\ <<m, n>>[1] = m /\ <<m, n>>[2] = n
    BY <2>1
  <2>3. ~(m < n)
    BY <2>1, <2>2
  <2>. QED  BY <2>1, <2>3
<1>. QED  BY <1>3

(***************************************************************************)
(* What scan_dentry_buf finds is an entry of the directory with that name. *)
(***************************************************************************)
LEMMA ScanFinds ==
  ASSUME disk \in Disks, NEW sector, NEW name,
         scan_dentry_buf(Directory(sector), name) # NULL
  PROVE  \E k \in DOMAIN disk.dir :
           /\ shortnamecopy(disk.dir[k]) = name /\ Listed(disk.dir[k])
           /\ scan_dentry_buf(Directory(sector), name) = disk.dir[k]
<1> DEFINE buf == Directory(sector)
           found == {i \in DOMAIN buf : /\ i <= SCANNED /\ Listed(buf[i])
                                        /\ shortnamecopy(buf[i]) = name}
<1>1. found # {} /\ scan_dentry_buf(buf, name)
                      = buf[CHOOSE i \in found : \A j \in found : i <= j]
  BY DEF scan_dentry_buf
<1>2. Directory(sector) \in {disk.dir, <<>>} /\ found \subseteq DOMAIN disk.dir
  BY DEF Directory
<1>4. found \subseteq Nat
  BY <1>2, FilesAssumption
<1>5. PICK n \in found : \A m \in found : n <= m
  BY <1>1, <1>4, LeastOf
<1>6. (CHOOSE i \in found : \A j \in found : i <= j) \in found
  BY <1>5
<1>7. buf = disk.dir
  BY <1>1, <1>2
<1>. QED  BY <1>1, <1>6, <1>7
-----------------------------------------------------------------------------
LEMMA InitInv == Init => Inv
<1> SUFFICES ASSUME Init PROVE Inv
  OBVIOUS
<1>1. Shape
  BY FilesAssumption DEF Init, proc_fd_init, Shape, NoFds, NoLocal
<1>2. FreeLists
  BY DEF Init, FreeLists, Distinct
<1>3. Quiet /\ FilesOK
  BY DEF Init, proc_fd_init, Quiet, FilesOK, NoFds, Proc
<1>4. BeingOpened
  BY DEF Init, BeingOpened
<1>. QED  BY <1>1, <1>2, <1>3, <1>4 DEF Inv

(***************************************************************************)
(* Steps that touch neither slots nor descriptors, only where a process    *)
(* is and its locals, and that process is not on its way through read_map. *)
(***************************************************************************)
tables == <<openfd, fd_array, opened, inode, inode_head, filp, filp_head>>

LEMMA StutterStep ==
  ASSUME Inv, UNCHANGED <<disk, pc, local, tables>>
  PROVE  Inv'
<1> USE DEF Inv
<1>1. Shape'
  BY DEF Shape, tables
<1>2. FreeLists'
  BY DEF FreeLists, tables, Distinct
<1>3. Quiet'
  BY DEF Quiet, MountingOver, tables
<1>4. FilesOK'
  BY DEF FilesOK, FileOK, Named, Unused, tables
<1>5. BeingOpened'
  BY DEF BeingOpened, Named, Unused, tables
<1>. QED  BY <1>1, <1>2, <1>3, <1>4, <1>5

(***************************************************************************)
(* A process goes to `where' with new locals.                              *)
(***************************************************************************)
LEMMA GotoMoves ==
  ASSUME Shape, NEW p \in Proc, NEW where, NEW locals,
         DOMAIN locals = {"name", "dip", "left"}, Goto(p, where, locals)
  PROVE  /\ DOMAIN pc' = Proc /\ DOMAIN local' = Proc
         /\ \A q \in Proc : DOMAIN local'[q] = {"name", "dip", "left"}
         /\ pc'[p] = where /\ local'[p] = locals
         /\ \A q \in Proc : q # p => pc'[q] = pc[q] /\ local'[q] = local[q]
BY DEF Shape, Goto

LEMMA MoveStep ==
  ASSUME Inv, NEW p \in Proc, UNCHANGED <<disk, tables>>,
         NEW where, NEW locals, DOMAIN locals = {"name", "dip", "left"},
         Goto(p, where, locals),
         where \in {"dir", "fat"} => MountingOver,
         where = "fat" => Named(locals.dip, locals.name),
         where \in {"start", "table", "super"} => ~MountingOver
  PROVE  Inv'
<1> USE DEF Inv
<1>1. /\ DOMAIN pc' = Proc /\ DOMAIN local' = Proc
      /\ \A q \in Proc : DOMAIN local'[q] = {"name", "dip", "left"}
      /\ pc'[p] = where /\ local'[p] = locals
      /\ \A q \in Proc : q # p => pc'[q] = pc[q] /\ local'[q] = local[q]
  BY GotoMoves
<1>2. Shape' /\ FreeLists'
  BY <1>1 DEF Shape, FreeLists, tables, Distinct
<1>3. Quiet'
  <2>1. CASE MountingOver
    BY <1>1, <2>1 DEF Quiet, MountingOver
  <2>2. CASE ~MountingOver
    BY <1>1, <2>2 DEF Quiet, tables
  <2>. QED  BY <2>1, <2>2
<1>4. FilesOK'
  BY DEF FilesOK, FileOK, Named, Unused, tables
<1>5. BeingOpened'
  BY <1>1 DEF BeingOpened, Named, Unused, tables
<1>. QED  BY <1>2, <1>3, <1>4, <1>5

-----------------------------------------------------------------------------
(***************************************************************************)
(* The calls of get_block and Return move their process; Halt does not.    *)
(***************************************************************************)
LEMMA BlockMoves ==
  ASSUME NEW p, NEW block, NEW avail, NEW where, NEW locals,
         get_block(p, block, avail, where, locals)
  PROVE  Goto(p, where, locals) \/ UNCHANGED <<pc, local>>
BY DEF get_block, Halt, callVars

LEMMA NoLocalShape == DOMAIN NoLocal = {"name", "dip", "left"}
BY DEF NoLocal

LEMMA RequestStep ==
  ASSUME Inv, NEW p \in Proc, fs_init(p)
  PROVE  Inv'
<1>1. /\ UNCHANGED <<disk, tables>> /\ Goto(p, "table", NoLocal) /\ ~MountingOver
  BY DEF fs_init, tables, fdVars, slotVars, MountingOver
<1>. QED  BY <1>1, NoLocalShape, MoveStep

LEMMA NameStep ==
  ASSUME Inv, NEW p \in Proc, NEW name, get_name(p, name)
  PROVE  Inv'
<1> DEFINE locals == [NoLocal EXCEPT !.name = name]
<1>1. UNCHANGED <<disk, tables>> /\ MountingOver
  BY DEF get_name, tables, fdVars, slotVars
<1>2. Goto(p, "dir", locals) \/ UNCHANGED <<pc, local>>
  <2>1. CASE UNCHANGED callVars \/ Halt("wild")
    BY <2>1 DEF Halt, callVars
  <2>2. CASE ~(UNCHANGED callVars \/ Halt("wild"))
    BY <2>2, BlockMoves DEF get_name
  <2>. QED  BY <2>1, <2>2
<1>3. DOMAIN locals = {"name", "dip", "left"}
  BY DEF NoLocal
<1>4. CASE Goto(p, "dir", locals)
  <2> HIDE DEF locals
  <2>. QED  BY <1>1, <1>3, <1>4, MoveStep
<1>5. CASE UNCHANGED <<pc, local>>
  BY <1>1, <1>5, StutterStep
<1>. QED  BY <1>2, <1>4, <1>5

LEMMA ReadMapStep ==
  ASSUME Inv, NEW p \in Proc, read_map(p)
  PROVE  Inv'
<1> DEFINE locals == [local[p] EXCEPT !.left = IF @ > 1 THEN @ - 1 ELSE @]
<1>1. UNCHANGED <<disk, tables>> /\ pc[p] = "fat"
  BY DEF read_map, Woken, tables, fdVars
<1>2. Goto(p, "fat", locals) \/ UNCHANGED <<pc, local>>
  <2>1. CASE Halt("wild")
    BY <2>1 DEF Halt, callVars
  <2>2. CASE ~Halt("wild")
    BY <2>2, BlockMoves DEF read_map
  <2>. QED  BY <2>1, <2>2
<1>3. /\ DOMAIN locals = {"name", "dip", "left"}
      /\ locals.dip = local[p].dip /\ locals.name = local[p].name
  BY DEF Inv, Shape
<1>4. Named(locals.dip, locals.name) /\ MountingOver
  BY <1>1, <1>3 DEF Inv, BeingOpened, Quiet
<1>5. CASE Goto(p, "fat", locals)
  <2> HIDE DEF locals
  <2>. QED  BY <1>1, <1>3, <1>4, <1>5, MoveStep
<1>6. CASE UNCHANGED <<pc, local>>
  BY <1>1, <1>6, StutterStep
<1>. QED  BY <1>2, <1>5, <1>6

LEMMA AstrayStep ==
  ASSUME Inv, NEW p \in Proc, read_map_astray(p)
  PROVE  Inv'
BY StutterStep DEF read_map_astray, Halt, callVars, fdVars, slotVars, tables

-----------------------------------------------------------------------------
(***************************************************************************)
(* While somebody is mounting, new lists of free slots harm nobody.        *)
(***************************************************************************)
LEMMA MountStep ==
  ASSUME Inv, ~MountingOver, disk' = disk, Shape', FreeLists',
         \A q \in Proc : pc'[q] \notin {"dir", "fat"},
         \A q \in Proc : \A fd \in Fds : opened'[q][fd] = NULL
  PROVE  Inv'
BY DEF Inv, Quiet, BeingOpened, FilesOK

LEMMA InitLists ==
  /\ filp_init \in Seq(1..FILP_NR) /\ Distinct(filp_init)
  /\ inode_init \in Seq(1..INODE_NR) /\ inode_init \in Seq(0..INODE_NR)
  /\ Distinct(inode_init)
<1>1. /\ filp_init \in Seq(1..FILP_NR) /\ Distinct(filp_init)
      /\ inode_init \in Seq(1..INODE_NR) /\ Distinct(inode_init)
  BY InitSlot, FilesAssumption DEF filp_init, inode_init
<1>2. inode_init \in Seq(0..INODE_NR)
  BY <1>1, FilesAssumption
<1>. QED  BY <1>1, <1>2

LEMMA RestOfSlots ==
  ASSUME NEW S, NEW list \in Seq(S), Distinct(list)
  PROVE  rest_slots(list) \in Seq(S) /\ Distinct(rest_slots(list))
<1>1. CASE list = <<>>
  BY <1>1 DEF rest_slots
<1>2. CASE list # <<>>
  <2>1. rest_slots(list) = Tail(list) /\ Tail(list) \in Seq(S) /\ Distinct(Tail(list))
    BY <1>2, TakeSlot
  <2>. QED  BY <2>1
<1>. QED  BY <1>1, <1>2

LEMMA MountRoot ==
  ASSUME Inv, ~MountingOver, NEW p \in Proc, pc[p] \in {"table", "super"},
         NEW sb, NEW free \in Seq(0..INODE_NR), Distinct(free),
         mount_root(p, sb, free), UNCHANGED <<disk, filp>>,
         filp_head' \in Seq(1..FILP_NR), Distinct(filp_head')
  PROVE  Inv'
<1>1. Goto(p, "user", NoLocal)
  BY DEF mount_root, Return
<1>2. /\ DOMAIN pc' = Proc /\ DOMAIN local' = Proc
      /\ \A q \in Proc : DOMAIN local'[q] = {"name", "dip", "left"}
      /\ pc'[p] = "user"
      /\ \A q \in Proc : q # p => pc'[q] = pc[q]
  BY <1>1, NoLocalShape, GotoMoves DEF Inv
<1>3. /\ DOMAIN opened' = Proc
      /\ \A q \in Proc : /\ DOMAIN opened'[q] = Fds
                          /\ \A fd \in Fds : opened'[q][fd] = NULL
  BY DEF mount_root, Inv, Shape, Quiet
<1>4. DOMAIN inode' = DOMAIN inode /\ DOMAIN openfd' = DOMAIN openfd /\ fd_array' = fd_array
  BY DEF mount_root
<1>5. Shape'
  BY <1>2, <1>3, <1>4 DEF Inv, Shape
<1>6. FreeLists'
  <2>1. inode_head' = rest_slots(free)
    BY DEF mount_root
  <2>. QED  BY <2>1, RestOfSlots DEF FreeLists, Distinct
<1>. QED  BY <1>2, <1>3, <1>5, <1>6, MountStep DEF Inv, Quiet

LEMMA TableStep ==
  ASSUME Inv, NEW p \in Proc, partition_check(p)
  PROVE  Inv'
<1>1. /\ disk' = disk /\ filp' = filp /\ filp_head' = filp_init
      /\ pc[p] = "table" /\ ~MountingOver
  BY DEF partition_check, Woken, MountingOver
<1>2. filp_head' \in Seq(1..FILP_NR) /\ Distinct(filp_head')
  BY <1>1, InitLists
<1>3. CASE mount_root(p, super, inode_init)
  BY <1>1, <1>2, <1>3, InitLists, MountRoot
<1>4. CASE /\ inode_head' = inode_init
           /\ get_block(p, first_log, pages, "super", NoLocal)
           /\ UNCHANGED <<inode, scrap, fdVars>>
  <2>1. /\ DOMAIN pc' = Proc /\ DOMAIN local' = Proc
        /\ \A q \in Proc : DOMAIN local'[q] = {"name", "dip", "left"}
        /\ \A q \in Proc : pc'[q] \notin {"dir", "fat"}
    <3>1. CASE Goto(p, "super", NoLocal)
      BY <1>1, <3>1, GotoMoves, NoLocalShape DEF Inv, Quiet
    <3>2. CASE UNCHANGED <<pc, local>>
      BY <1>1, <3>2 DEF Inv, Quiet, Shape
    <3>. QED  BY <1>4, <3>1, <3>2, BlockMoves
  <2>2. UNCHANGED <<openfd, fd_array, opened>>
    BY <1>4 DEF fdVars
  <2>3. Shape'
    BY <1>1, <1>4, <2>1, <2>2 DEF Inv, Shape
  <2>4. FreeLists'
    BY <1>2, <1>4, InitLists DEF FreeLists, Distinct
  <2>. QED  BY <1>1, <2>1, <2>2, <2>3, <2>4, MountStep DEF Inv, Quiet
<1>. QED  BY <1>3, <1>4 DEF partition_check

LEMMA SuperStep ==
  ASSUME Inv, NEW p \in Proc, read_super(p)
  PROVE  Inv'
<1>1. /\ UNCHANGED <<disk, filp, filp_head>> /\ pc[p] = "super" /\ ~MountingOver
  BY DEF read_super, Woken, MountingOver
<1>2. CASE Halt("panic") /\ UNCHANGED <<fdVars, super, inode, inode_head, scrap>>
  BY <1>1, <1>2, StutterStep DEF Halt, callVars, fdVars, tables
<1>3. CASE mount_root(p, filled_super(disk.boot), inode_head)
  <2>1. /\ inode_head \in Seq(0..INODE_NR) /\ Distinct(inode_head)
        /\ filp_head' \in Seq(1..FILP_NR) /\ Distinct(filp_head')
    BY <1>1 DEF Inv, FreeLists, Distinct
  <2>. QED  BY <1>1, <1>3, <2>1, MountRoot
<1>. QED  BY <1>2, <1>3 DEF read_super

-----------------------------------------------------------------------------
(***************************************************************************)
(* sys_open takes a slot: the others stay on the list, or, when the link   *)
(* of the slot was overwritten, none of them does.                         *)
(***************************************************************************)
LEMMA NextSlots ==
  ASSUME inode_head \in Seq(0..INODE_NR), Distinct(inode_head),
         get_inode \notin {NULL, Astray}
  PROVE  /\ get_inode \in 1..INODE_NR /\ inode_head # <<>> /\ get_inode = Head(inode_head)
         /\ next_slots \in {<<Astray>>, Tail(inode_head)}
         /\ next_slots \in Seq(0..INODE_NR) /\ Distinct(next_slots)
         /\ Unused(get_inode, next_slots)
         /\ \A x \in 1..INODE_NR :
              Unused(x, inode_head) => x # get_inode /\ Unused(x, next_slots)
<1>1. inode_head # <<>>
  BY DEF get_inode, first_slot
<1>2. /\ first_slot(inode_head) = Head(inode_head)
      /\ rest_slots(inode_head) = Tail(inode_head)
      /\ Head(inode_head) \in 0..INODE_NR
      /\ Tail(inode_head) \in Seq(0..INODE_NR) /\ Distinct(Tail(inode_head))
      /\ Unused(Head(inode_head), Tail(inode_head))
      /\ \A x : Unused(x, inode_head) => x # Head(inode_head) /\ Unused(x, Tail(inode_head))
  BY <1>1, TakeSlot
<1>3. get_inode = Head(inode_head) /\ get_inode \in 1..INODE_NR
  BY <1>2, FilesAssumption DEF get_inode, Astray
<1>4. CASE next_slots = Tail(inode_head)
  BY <1>1, <1>2, <1>3, <1>4
<1>5. CASE next_slots = <<Astray>>
  <2>1. <<Astray>> \in Seq(0..INODE_NR) /\ Distinct(<<Astray>>)
    BY FilesAssumption DEF Astray, Distinct
  <2>2. \A x \in 1..INODE_NR : Unused(x, <<Astray>>)
    BY DEF Astray, Unused
  <2>. QED  BY <1>1, <1>2, <1>3, <1>5, <2>1, <2>2
<1>. QED  BY <1>2, <1>4, <1>5 DEF next_slots

(***************************************************************************)
(* sys_open gives the new file an inode slot nobody else points to.        *)
(***************************************************************************)
LEMMA OpenStep ==
  ASSUME Inv, NEW p \in Proc, sys_open(p)
  PROVE  Inv'
<1> DEFINE de == scan_dentry_buf(Directory(data[p]), local[p].name)
           dip == get_inode
           locals == [local[p] EXCEPT !.dip = dip, !.left = de.clusters]
<1>1. /\ UNCHANGED <<disk, fdVars, filp, filp_head>>
      /\ pc[p] = "dir" /\ MountingOver
  BY DEF sys_open, Woken, Inv, Quiet
<1>2. CASE Return(p) /\ UNCHANGED <<inode, inode_head, scrap>>
  BY <1>1, <1>2, MoveStep, NoLocalShape DEF Return, tables, fdVars
<1>3. CASE /\ de # NULL /\ dip \notin {NULL, Astray}
           /\ inode_head' = next_slots
           /\ inode' = [inode EXCEPT ![dip] = [id |-> de.id, block |-> de.cluster,
                                              clusters |-> de.clusters]]
           /\ get_block(p, FatSector, put_block(pages) + 1, "fat", locals)
  <2>1. PICK k \in DOMAIN disk.dir : /\ shortnamecopy(disk.dir[k]) = local[p].name
                                     /\ Listed(disk.dir[k]) /\ de = disk.dir[k]
    BY <1>3, ScanFinds DEF Inv, Shape
  <2>2. /\ dip \in 1..INODE_NR /\ Unused(dip, inode_head')
        /\ inode_head' \in Seq(0..INODE_NR) /\ Distinct(inode_head')
        /\ \A x \in 1..INODE_NR : Unused(x, inode_head) => x # dip /\ Unused(x, inode_head')
    BY <1>3, NextSlots DEF Inv, FreeLists
  <2>3. /\ DOMAIN inode' = 1..INODE_NR /\ inode'[dip].id = disk.dir[k].id
        /\ \A i \in 1..INODE_NR : i # dip => inode'[i] = inode[i]
    BY <1>3, <2>1, <2>2 DEF Inv, Shape
  <2>4. \A i, name : Named(i, name) => Named(i, name)'
    BY <1>1, <2>2, <2>3 DEF Named
  <2>5. \A i, name : i = dip /\ name = local[p].name => Named(i, name)'
    BY <1>1, <2>1, <2>2, <2>3 DEF Named
  <2>. HIDE DEF de, dip
  <2>6. /\ DOMAIN locals = {"name", "dip", "left"}
        /\ locals.dip = dip /\ locals.name = local[p].name
    BY DEF Inv, Shape
  <2>. HIDE DEF locals
  <2>7. /\ DOMAIN pc' = Proc /\ DOMAIN local' = Proc
        /\ \A q \in Proc : DOMAIN local'[q] = {"name", "dip", "left"}
        /\ pc'[p] \in {"dir", "fat"}
        /\ pc'[p] = "fat" => local'[p] = locals
        /\ \A q \in Proc : q # p => pc'[q] = pc[q] /\ local'[q] = local[q]
    <3>1. CASE Goto(p, "fat", locals)
      BY <2>6, <3>1, GotoMoves DEF Inv
    <3>2. CASE UNCHANGED <<pc, local>>
      BY <1>1, <3>2 DEF Inv, Shape
    <3>. QED  BY <1>3, <3>1, <3>2, BlockMoves
  <2>8. Shape' /\ FreeLists'
    BY <1>1, <2>2, <2>3, <2>7 DEF Inv, Shape, FreeLists, fdVars, Distinct
  <2>9. Quiet'
    BY <1>1, <2>7 DEF Quiet, MountingOver
  <2>10. BeingOpened'
    <3>1. ASSUME NEW q \in Proc, pc'[q] = "fat" PROVE Named(local[q].dip, local[q].name)'
      <4>1. CASE q = p
        BY <2>5, <2>6, <2>7, <3>1, <4>1 DEF Named
      <4>2. CASE q # p
        BY <2>4, <2>7, <3>1, <4>2 DEF Inv, BeingOpened, Named
      <4>. QED  BY <4>1, <4>2
    <3>. QED  BY <3>1 DEF BeingOpened
  <2>11. FilesOK'
    <3>1. ASSUME NEW q \in Proc, NEW fd \in Fds, opened'[q][fd] # NULL
          PROVE  FileOK(q, fd)'
      <4>1. FileOK(q, fd) /\ UNCHANGED <<openfd, fd_array, opened, filp, filp_head>>
        BY <1>1, <3>1 DEF Inv, FilesOK, fdVars
      <4>2. /\ fd \in openfd'[q] /\ fd_array'[q][fd] \in 1..FILP_NR
            /\ Unused(fd_array'[q][fd], filp_head')
            /\ filp'[fd_array'[q][fd]] = filp[fd_array[q][fd]]
            /\ opened'[q][fd] = opened[q][fd]
        BY <4>1 DEF FileOK
      <4>3. Named(filp[fd_array[q][fd]], opened[q][fd])
        BY <4>1 DEF FileOK
      <4>4. \A i, name : /\ i = filp'[fd_array'[q][fd]] /\ name = opened'[q][fd]
                        => Named(i, name)'
        BY <2>4, <4>2, <4>3
      <4>. QED  BY <4>2, <4>4 DEF FileOK, Named, Unused
    <3>. QED  BY <3>1 DEF FilesOK
  <2>. QED  BY <2>8, <2>9, <2>10, <2>11 DEF Inv
<1>4. CASE Halt("wild") /\ UNCHANGED <<inode, inode_head, scrap>>
  BY <1>1, <1>4, StutterStep DEF Halt, callVars, tables, fdVars
<1>. QED  BY <1>2, <1>3, <1>4 DEF sys_open

-----------------------------------------------------------------------------
(***************************************************************************)
(* The new descriptor gets a file slot nobody else has.                    *)
(***************************************************************************)
LEMMA FdStep ==
  ASSUME Inv, NEW p \in Proc, get_unused_fd(p)
  PROVE  Inv'
<1> DEFINE n == find_zero_bit(openfd[p])
           f == get_filp
<1>1. /\ UNCHANGED <<disk, inode, inode_head>> /\ Return(p)
      /\ pc[p] = "fat" /\ MountingOver /\ Named(local[p].dip, local[p].name)
  BY DEF get_unused_fd, Woken, Inv, Quiet, BeingOpened
<1>2. CASE UNCHANGED <<openfd, fd_array, opened, filp, filp_head>>
  BY <1>1, <1>2, MoveStep, NoLocalShape DEF Return, tables
<1>3. CASE /\ openfd' = [openfd EXCEPT ![p] = @ \cup {n}]
           /\ filp_head' = rest_slots(filp_head)
           /\ \/ UNCHANGED <<fd_array, opened, filp>>
              \/ /\ f # NULL
                 /\ filp' = [filp EXCEPT ![f] = local[p].dip]
                 /\ fd_array' = [fd_array EXCEPT ![p][n] = f]
                 /\ opened' = [opened EXCEPT ![p][n] = local[p].name]
  <2>1. /\ DOMAIN pc' = Proc /\ DOMAIN local' = Proc
        /\ \A q \in Proc : DOMAIN local'[q] = {"name", "dip", "left"}
        /\ pc'[p] = "user"
        /\ \A q \in Proc : q # p => pc'[q] = pc[q] /\ local'[q] = local[q]
    BY <1>1, NoLocalShape, GotoMoves DEF Return, Inv
  <2>2. /\ filp_head' \in Seq(1..FILP_NR) /\ Distinct(filp_head')
        /\ \A x : Unused(x, filp_head) => Unused(x, filp_head')
        /\ f # NULL => /\ f \in 1..FILP_NR /\ Unused(f, filp_head')
                       /\ \A x : Unused(x, filp_head) => x # f
    <3>1. filp_head \in Seq(1..FILP_NR) /\ Distinct(filp_head)
      BY DEF Inv, FreeLists
    <3>2. CASE filp_head = <<>>
      BY <1>3, <3>1, <3>2 DEF rest_slots, first_slot, get_filp
    <3>3. CASE filp_head # <<>>
      <4>1. /\ first_slot(filp_head) = Head(filp_head)
            /\ rest_slots(filp_head) = Tail(filp_head)
            /\ Head(filp_head) \in 1..FILP_NR
            /\ Tail(filp_head) \in Seq(1..FILP_NR) /\ Distinct(Tail(filp_head))
            /\ Unused(Head(filp_head), Tail(filp_head))
            /\ \A x : Unused(x, filp_head) => x # Head(filp_head) /\ Unused(x, Tail(filp_head))
        BY <3>1, <3>3, TakeSlot
      <4>. QED  BY <1>3, <4>1 DEF get_filp
    <3>. QED  BY <3>2, <3>3
  <2>. HIDE DEF n, f
  <2>3. Shape'
    BY <1>1, <1>3, <2>1 DEF Inv, Shape
  <2>4. FreeLists'
    BY <1>1, <2>2 DEF Inv, FreeLists, Distinct
  <2>5. Quiet'
    BY <1>1, <2>1 DEF Quiet, MountingOver
  <2>6. \A i, name : Named(i, name) => Named(i, name)'
    BY <1>1 DEF Named, Unused
  <2>7. BeingOpened'
    <3>1. ASSUME NEW q \in Proc, pc'[q] = "fat" PROVE Named(local[q].dip, local[q].name)'
      <4>1. Named(local[q].dip, local[q].name) /\ local'[q] = local[q]
        BY <2>1, <3>1 DEF Inv, BeingOpened
      <4>. QED  BY <2>6, <4>1 DEF Named
    <3>. QED  BY <3>1 DEF BeingOpened
  <2>8. FilesOK'
    <3>1. ASSUME NEW q \in Proc, NEW fd \in Fds, opened'[q][fd] # NULL
          PROVE  FileOK(q, fd)'
      <4>1. CASE q = p /\ fd = n /\ f # NULL /\ fd_array' = [fd_array EXCEPT ![p][n] = f]
                 /\ filp' = [filp EXCEPT ![f] = local[p].dip]
                 /\ opened' = [opened EXCEPT ![p][n] = local[p].name]
        <5>1. /\ fd \in openfd'[q] /\ fd_array'[q][fd] = f
              /\ filp'[f] = local[p].dip /\ opened'[q][fd] = local[p].name
          BY <1>3, <2>2, <4>1 DEF Inv, Shape
        <5>2. \A i, name : i = local[p].dip /\ name = local[p].name => Named(i, name)'
          BY <1>1, <2>6
        <5>. QED  BY <2>2, <4>1, <5>1, <5>2 DEF FileOK, Named, Unused
      <4>2. CASE fd_array'[q][fd] = fd_array[q][fd] /\ opened'[q][fd] = opened[q][fd]
        <5>1. FileOK(q, fd) /\ fd \in openfd'[q]
          BY <1>3, <3>1, <4>2 DEF Inv, FilesOK, FileOK, Shape
        <5>2. /\ fd_array[q][fd] \in 1..FILP_NR /\ Unused(fd_array[q][fd], filp_head')
              /\ filp'[fd_array[q][fd]] = filp[fd_array[q][fd]]
              /\ Named(filp[fd_array[q][fd]], opened[q][fd])
          BY <1>3, <2>2, <5>1 DEF FileOK, Inv, Shape
        <5>3. \A i, name : /\ i = filp'[fd_array'[q][fd]] /\ name = opened'[q][fd]
                          => Named(i, name)'
          BY <2>6, <4>2, <5>2
        <5>. QED  BY <4>2, <5>1, <5>2, <5>3 DEF FileOK, Named, Unused
      <4>3. \/ /\ q = p /\ fd = n /\ f # NULL /\ fd_array' = [fd_array EXCEPT ![p][n] = f]
               /\ filp' = [filp EXCEPT ![f] = local[p].dip]
               /\ opened' = [opened EXCEPT ![p][n] = local[p].name]
            \/ fd_array'[q][fd] = fd_array[q][fd] /\ opened'[q][fd] = opened[q][fd]
        BY <1>3 DEF Inv, Shape
      <4>. QED  BY <4>1, <4>2, <4>3
    <3>. QED  BY <3>1 DEF FilesOK
  <2>. QED  BY <2>3, <2>4, <2>5, <2>7, <2>8 DEF Inv
<1>. QED  BY <1>2, <1>3 DEF get_unused_fd

(***************************************************************************)
(* The child has what its father has.                                      *)
(***************************************************************************)
LEMMA ForkStep ==
  ASSUME Inv, NEW p \in Proc, do_fork(p)
  PROVE  Inv'
<1>1. PICK child \in Proc :
        /\ pc[p] \in {"start", "user"} /\ pc[child] = "none"
        /\ pc' = [pc EXCEPT ![child] = pc[p]]
        /\ openfd' = [openfd EXCEPT ![child] = openfd[p]]
        /\ fd_array' = [fd_array EXCEPT ![child] = fd_array[p]]
        /\ opened' = [opened EXCEPT ![child] = opened[p]]
  BY DEF do_fork
<1>2. UNCHANGED <<disk, local, inode, inode_head, filp, filp_head>>
  BY DEF do_fork, slotVars
<1>3. /\ pc'[child] = pc[p] /\ openfd'[child] = openfd[p]
      /\ fd_array'[child] = fd_array[p] /\ opened'[child] = opened[p]
      /\ \A q \in Proc : q # child => /\ pc'[q] = pc[q] /\ openfd'[q] = openfd[q]
                                     /\ fd_array'[q] = fd_array[q] /\ opened'[q] = opened[q]
  BY <1>1 DEF Inv, Shape
<1>4. Shape' /\ FreeLists'
  BY <1>1, <1>2 DEF Inv, Shape, FreeLists, Distinct
<1>5. Quiet'
  <2>1. MountingOver' => MountingOver
    BY <1>1, <1>3 DEF MountingOver
  <2>2. MountingOver => MountingOver'
    BY <1>1, <1>3 DEF MountingOver
  <2>. QED  BY <1>1, <1>3, <2>1, <2>2 DEF Inv, Quiet
<1>6. BeingOpened'
  BY <1>1, <1>2, <1>3 DEF Inv, BeingOpened, Named, Unused
<1>7. FilesOK'
  <2>1. ASSUME NEW q \in Proc, NEW fd \in Fds, opened'[q][fd] # NULL
        PROVE  FileOK(q, fd)'
    <3>1. PICK r \in {q, p} : /\ openfd'[q] = openfd[r] /\ fd_array'[q] = fd_array[r]
                              /\ opened'[q] = opened[r]
      BY <1>3
    <3>2. FileOK(r, fd)
      BY <2>1, <3>1 DEF Inv, FilesOK
    <3>. QED  BY <1>2, <3>1, <3>2 DEF FileOK, Named, Unused
  <2>. QED  BY <2>1 DEF FilesOK
<1>. QED  BY <1>4, <1>5, <1>6, <1>7 DEF Inv

-----------------------------------------------------------------------------
LEMMA NextInv ==
  ASSUME Inv, [Next]_vars
  PROVE  Inv'
<1>1. CASE UNCHANGED vars
  BY <1>1, StutterStep DEF vars, callVars, fdVars, slotVars, tables
<1>2. CASE hd_handlerp
  BY <1>2, StutterStep DEF hd_handlerp, callVars, fdVars, slotVars, tables
<1>3. CASE Halted
  BY <1>1, <1>3 DEF Halted
<1>4. ASSUME NEW p \in Proc, Call(p) PROVE Inv'
  BY <1>4, RequestStep, ForkStep, NameStep DEF Call
<1>5. ASSUME NEW p \in Proc, GoOn(p) PROVE Inv'
  BY <1>5, TableStep, SuperStep, OpenStep, ReadMapStep, AstrayStep, FdStep DEF GoOn
<1>. QED  BY <1>1, <1>2, <1>3, <1>4, <1>5 DEF Next

-----------------------------------------------------------------------------
(***************************************************************************)
(* What long maps have overwritten: words of the inode table behind the    *)
(* block[] of a slot in use and before the end of its map.                 *)
(***************************************************************************)
Spilled(a) ==
  \E s \in 1..INODE_NR : /\ Unused(s, inode_head)
                         /\ block_word(s, NR_BLOCK) <= a
                         /\ a < block_word(s, inode[s].clusters)

Counts ==
  /\ \A s \in 1..INODE_NR : inode[s].clusters \in Int
  /\ \A p \in Proc : pc[p] = "fat" => local[p].left \in Int

Spilt ==
  /\ Counts
  /\ ~MountingOver => scrap = {}
  /\ scrap \subseteq Int /\ \A a \in scrap : Spilled(a)

LEMMA Words ==
  /\ INODE_WORDS \in Nat /\ NR_BLOCK \in Nat \ {0} /\ NAME_WORDS \in Nat
  /\ INODE_NR \in Nat \ {0} /\ INODE_WORDS = NAME_WORDS + NR_BLOCK + 4
  /\ \A s \in Int : i_sb(s) \in Int
  /\ \A s \in Int, i \in Int : block_word(s, i) = i_sb(s) + 2 + NAME_WORDS + i
BY FilesAssumption DEF INODE_WORDS, i_sb, block_word

LEMMA WordOf ==
  ASSUME NEW s \in 1..INODE_NR, NEW i \in Int
  PROVE  /\ s \in Int /\ i_sb(s) \in Int /\ block_word(s, i) \in Int
         /\ block_word(s, i) = i_sb(s) + 2 + NAME_WORDS + i
<1>1. s \in Int /\ NAME_WORDS \in Int
  BY Words
<1>2. PICK b \in Int : b = i_sb(s)
  BY <1>1, Words
<1>3. block_word(s, i) = b + 2 + NAME_WORDS + i
  BY <1>1, <1>2, Words
<1>. QED  BY <1>1, <1>2, <1>3

LEMMA SlotsApart ==
  ASSUME NEW s \in Int, NEW r \in Int, s < r
  PROVE  i_sb(s) + INODE_WORDS <= i_sb(r)
<1>1. PICK w \in Nat : w = INODE_WORDS
  BY Words
<1>2. PICK d \in Nat : r - 1 = (s - 1) + 1 + d
  <2>1. r - s - 1 \in Nat /\ r - 1 = (s - 1) + 1 + (r - s - 1)
    OBVIOUS
  <2>. QED  BY <2>1
<1>3. (r - 1) * w = (s - 1) * w + w + d * w
  BY <1>2
<1>4. d * w >= 0 /\ (s - 1) * w \in Int
  OBVIOUS
<1>. QED  BY <1>1, <1>3, <1>4 DEF i_sb

(***************************************************************************)
(* Mounting ends once.                                                     *)
(***************************************************************************)
LEMMA OverStays ==
  ASSUME DOMAIN pc = Proc, MountingOver, [Next]_vars
  PROVE  MountingOver'
<1>1. CASE UNCHANGED vars \/ hd_handlerp \/ Halted
  BY <1>1 DEF vars, callVars, hd_handlerp, Halted, MountingOver
<1>2. ASSUME NEW p \in Proc, fs_init(p) \/ partition_check(p) \/ read_super(p)
      PROVE  MountingOver'
  BY <1>2 DEF fs_init, partition_check, read_super, Woken, MountingOver
<1>3. ASSUME NEW p \in Proc, do_fork(p) PROVE MountingOver'
  BY <1>3 DEF do_fork, MountingOver
<1>4. ASSUME NEW p \in Proc, NEW where \in {"user", "dir", "fat"}, NEW l,
             Goto(p, where, l) \/ UNCHANGED <<pc, local>>
      PROVE  MountingOver'
  BY <1>4 DEF Goto, MountingOver
<1>5. ASSUME NEW p \in Proc, NEW name, get_name(p, name) PROVE MountingOver'
  <2>1. CASE UNCHANGED callVars \/ Halt("wild")
    BY <1>4, <2>1 DEF Halt, callVars
  <2>2. CASE ~(UNCHANGED callVars \/ Halt("wild"))
    BY <1>4, <1>5, <2>2, BlockMoves DEF get_name
  <2>. QED  BY <2>1, <2>2
<1>6. ASSUME NEW p \in Proc, read_map(p) \/ read_map_astray(p) PROVE MountingOver'
  <2>1. CASE Halt("wild")
    BY <1>4, <2>1 DEF Halt, callVars
  <2>2. CASE ~Halt("wild")
    BY <1>4, <1>6, <2>2, BlockMoves DEF read_map, read_map_astray
  <2>. QED  BY <2>1, <2>2
<1>7. ASSUME NEW p \in Proc, get_unused_fd(p) PROVE MountingOver'
  BY <1>4, <1>7 DEF get_unused_fd, Return
<1>8. ASSUME NEW p \in Proc, sys_open(p) PROVE MountingOver'
  <2>1. CASE Halt("wild") \/ Return(p)
    BY <1>4, <2>1 DEF Halt, callVars, Return
  <2>2. CASE ~(Halt("wild") \/ Return(p))
    BY <1>4, <1>8, <2>2, BlockMoves DEF sys_open
  <2>. QED  BY <2>1, <2>2
<1>. QED  BY <1>1, <1>2, <1>3, <1>5, <1>6, <1>7, <1>8 DEF Next, Call, GoOn

LEMMA InitSpilt == Init => Spilt
BY DEF Init, Spilt, Counts

LEMMA KeepSpilt ==
  ASSUME Spilt, UNCHANGED <<inode, inode_head, scrap>>, MountingOver => MountingOver',
         \A q \in Proc : pc'[q] = "fat" => local'[q].left \in Int
  PROVE  Spilt'
<1>1. Counts'
  BY DEF Spilt, Counts
<1>2. \A a \in scrap : Spilled(a) => Spilled(a)'
  BY DEF Spilled, Unused
<1>. QED  BY <1>1, <1>2 DEF Spilt

LEMMA LeftMoves ==
  ASSUME Inv, Spilt, NEW p \in Proc, NEW where, NEW l,
         Goto(p, where, l) \/ UNCHANGED <<pc, local>>, where = "fat" => l.left \in Int
  PROVE  \A q \in Proc : pc'[q] = "fat" => local'[q].left \in Int
BY DEF Inv, Shape, Spilt, Counts, Goto

(***************************************************************************)
(* Mounting: no file was opened yet, so nothing is overwritten.            *)
(***************************************************************************)
LEMMA MountSpilt ==
  ASSUME Inv, Spilt, NEW p \in Proc, partition_check(p) \/ read_super(p)
  PROVE  Spilt'
<1>1. ~MountingOver /\ scrap = {} /\ \A q \in Proc : pc[q] # "fat"
  BY DEF partition_check, read_super, Woken, MountingOver, Spilt, Inv, Quiet
<1>2. /\ scrap' = scrap
      /\ \/ inode' = inode
         \/ \E rip, b : inode' = [inode EXCEPT ![rip] = [id |-> NULL, block |-> b,
                                                         clusters |-> 0]]
  <2>1. CASE UNCHANGED <<inode, scrap>>
    BY <2>1
  <2>2. ASSUME NEW sb, NEW free, mount_root(p, sb, free)
        PROVE  /\ scrap' = scrap
               /\ \E rip, b : inode' = [inode EXCEPT ![rip] = [id |-> NULL, block |-> b,
                                                               clusters |-> 0]]
    BY <2>2 DEF mount_root
  <2>3. UNCHANGED <<inode, scrap>> \/ \E sb, free : mount_root(p, sb, free)
    BY DEF partition_check, read_super
  <2>. QED  BY <2>1, <2>2, <2>3
<1>3. ASSUME NEW s \in 1..INODE_NR PROVE inode'[s].clusters \in Int
  <2>1. inode[s].clusters \in Int /\ DOMAIN inode = 1..INODE_NR
    BY DEF Spilt, Counts, Inv, Shape
  <2>2. CASE inode' = inode
    BY <2>1, <2>2
  <2>3. CASE inode' # inode
    <3>1. PICK rip, b : inode' = [inode EXCEPT ![rip] = [id |-> NULL, block |-> b,
                                                         clusters |-> 0]]
      BY <1>2, <2>3
    <3>. QED  BY <2>1, <3>1
  <2>. QED  BY <2>2, <2>3
<1>4. \E where, l : where # "fat" /\ (Goto(p, where, l) \/ UNCHANGED <<pc, local>>)
  <2>1. CASE \E b, a, l : get_block(p, b, a, "super", l)
    BY <2>1, BlockMoves
  <2>2. CASE Return(p)
    BY <2>2 DEF Return
  <2>3. CASE Halt("panic")
    BY <2>3 DEF Halt, callVars
  <2>. QED  BY <2>1, <2>2, <2>3 DEF partition_check, read_super, mount_root
<1>5. \A q \in Proc : pc'[q] = "fat" => local'[q].left \in Int
  BY <1>4, LeftMoves
<1>. QED  BY <1>1, <1>2, <1>3, <1>5 DEF Spilt, Counts

(***************************************************************************)
(* The slot of a new file is nobody's whose map has overwritten a word.    *)
(***************************************************************************)
LEMMA OpenSpilt ==
  ASSUME Inv, Spilt, NEW p \in Proc, sys_open(p), MountingOver'
  PROVE  Spilt'
<1> DEFINE de == scan_dentry_buf(Directory(data[p]), local[p].name)
           dip == get_inode
           locals == [local[p] EXCEPT !.dip = dip, !.left = de.clusters]
<1>1. CASE (Return(p) \/ Halt("wild")) /\ UNCHANGED <<inode, inode_head, scrap>>
  <2>1. Goto(p, "user", NoLocal) \/ UNCHANGED <<pc, local>>
    BY <1>1 DEF Return, Halt, callVars
  <2>. QED  BY <1>1, <2>1, LeftMoves, KeepSpilt
<1>2. CASE /\ de # NULL /\ dip \notin {NULL, Astray}
           /\ inode_head' = next_slots
           /\ inode' = [inode EXCEPT ![dip] = [id |-> de.id, block |-> de.cluster,
                                              clusters |-> de.clusters]]
           /\ scrap' = scrap \ filled(dip)
           /\ get_block(p, FatSector, put_block(pages) + 1, "fat", locals)
  <2>1. de.clusters \in Int
    <3>1. PICK k \in DOMAIN disk.dir : de = disk.dir[k]
      BY <1>2, ScanFinds DEF Inv, Shape
    <3>. QED  BY <3>1, FilesAssumption DEF Inv, Shape
  <2>2. /\ dip \in 1..INODE_NR
        /\ \A x \in 1..INODE_NR : Unused(x, inode_head) => x # dip /\ Unused(x, inode_head')
    BY <1>2, NextSlots DEF Inv, FreeLists
  <2>. HIDE DEF de, dip
  <2>3. locals.left = de.clusters
    BY DEF Inv, Shape
  <2>. HIDE DEF locals
  <2>4. Goto(p, "fat", locals) \/ UNCHANGED <<pc, local>>
    BY <1>2, BlockMoves
  <2>5. \A q \in Proc : pc'[q] = "fat" => local'[q].left \in Int
    BY <2>1, <2>3, <2>4, LeftMoves
  <2>6. \A x \in 1..INODE_NR : /\ inode'[x].clusters \in Int
                               /\ x # dip => inode'[x] = inode[x]
    BY <1>2, <2>1, <2>2 DEF Inv, Shape, Spilt, Counts
  <2>7. ASSUME NEW a \in scrap' PROVE a \in Int /\ Spilled(a)'
    <3>1. a \in scrap /\ a \in Int
      BY <1>2, <2>7 DEF Spilt
    <3>2. PICK x \in 1..INODE_NR : /\ Unused(x, inode_head)
                                   /\ block_word(x, NR_BLOCK) <= a
                                   /\ a < block_word(x, inode[x].clusters)
      BY <3>1 DEF Spilt, Spilled
    <3>3. inode'[x] = inode[x] /\ Unused(x, inode_head')
      BY <2>2, <2>6, <3>2
    <3>. QED  BY <3>1, <3>2, <3>3 DEF Spilled, Unused
  <2>. QED  BY <2>5, <2>6, <2>7 DEF Spilt, Counts
<1>. QED  BY <1>1, <1>2 DEF sys_open

(***************************************************************************)
(* read_map stores at most as many entries as the map of the file has.     *)
(***************************************************************************)
LEMMA MapSpilt ==
  ASSUME Inv, Spilt, NEW p \in Proc, read_map(p), MountingOver'
  PROVE  Spilt'
<1> DEFINE locals == [local[p] EXCEPT !.left = IF @ > 1 THEN @ - 1 ELSE @]
           dip == local[p].dip
<1>1. /\ pc[p] = "fat" /\ goes_on(p) /\ inode' = inode /\ inode_head' = inode_head
  BY DEF read_map, Woken
<1>2. /\ dip \in 1..INODE_NR /\ Unused(dip, inode_head)
  BY <1>1 DEF Inv, BeingOpened, Named
<1>3. PICK n \in Int, c \in Int : n = local[p].left /\ c = inode[dip].clusters
  BY <1>1, <1>2 DEF Spilt, Counts
<1>4. PICK i \in Int : i = stored(p) /\ i < c
  <2>1. stored(p) = c - n + 1 /\ n > 1
    BY <1>1, <1>3 DEF stored, goes_on
  <2>. QED  BY <2>1
<1>5. locals.left \in Int
  BY <1>1, <1>3 DEF Inv, Shape
<1>6. Goto(p, "fat", locals) \/ UNCHANGED <<pc, local>>
  <2>. HIDE DEF locals
  <2>1. CASE Halt("wild")
    BY <2>1 DEF Halt, callVars
  <2>2. CASE ~Halt("wild")
    BY <2>2, BlockMoves DEF read_map, locals
  <2>. QED  BY <2>1, <2>2
<1>7. \A q \in Proc : pc'[q] = "fat" => local'[q].left \in Int
  <2>. HIDE DEF locals
  <2>. QED  BY <1>5, <1>6, LeftMoves
<1>8. PICK b \in Int : b = block_word(dip, i)
  BY <1>2, WordOf
<1>9. \/ scrap' \subseteq scrap
      \/ i >= NR_BLOCK /\ scrap' = scrap \cup {b}
  BY <1>4, <1>8 DEF read_map, store_entry, overruns
<1>10. i >= NR_BLOCK => block_word(dip, NR_BLOCK) <= b /\ b < block_word(dip, c)
  <2>1. NR_BLOCK \in Int
    BY Words
  <2>2. PICK h \in Int : /\ block_word(dip, NR_BLOCK) = h + NR_BLOCK
                         /\ b = h + i /\ block_word(dip, c) = h + c
    <3>1. PICK x \in Int : x = i_sb(dip)
      BY <1>2, <2>1, WordOf
    <3>2. NAME_WORDS \in Int
      BY Words
    <3>3. /\ block_word(dip, NR_BLOCK) = x + 2 + NAME_WORDS + NR_BLOCK
          /\ b = x + 2 + NAME_WORDS + i /\ block_word(dip, c) = x + 2 + NAME_WORDS + c
      BY <1>2, <1>8, <2>1, <3>1, WordOf
    <3>. QED  BY <2>1, <3>2, <3>3
  <2>. QED  BY <1>4, <2>1, <2>2
<1>11. ASSUME NEW a \in scrap' PROVE a \in Int /\ Spilled(a)'
  <2>1. CASE a \in scrap
    <3>1. a \in Int /\ Spilled(a)
      BY <2>1 DEF Spilt
    <3>. QED  BY <1>1, <3>1 DEF Spilled, Unused
  <2>2. CASE a \notin scrap
    <3>1. a = b /\ i >= NR_BLOCK
      BY <1>9, <1>11, <2>2
    <3>2. Unused(dip, inode_head') /\ inode'[dip].clusters = c
      BY <1>1, <1>2, <1>3
    <3>. HIDE DEF dip
    <3>. QED  BY <1>2, <1>10, <3>1, <3>2 DEF Spilled, Unused
  <2>. QED  BY <2>1, <2>2
<1>12. Counts'
  BY <1>1, <1>7 DEF Spilt, Counts
<1>. QED  BY <1>11, <1>12 DEF Spilt

LEMMA SpiltNext ==
  ASSUME Inv, Spilt, [Next]_vars
  PROVE  Spilt'
<1>0. MountingOver => MountingOver'
  BY OverStays DEF Inv, Shape
<1> USE DEF slotVars
<1>1. CASE UNCHANGED vars \/ hd_handlerp \/ Halted
  <2>1. UNCHANGED <<pc, local, inode, inode_head, scrap>>
    BY <1>1 DEF vars, callVars, hd_handlerp, Halted
  <2>. QED  BY <1>0, <2>1, KeepSpilt DEF Spilt, Counts
<1>2. ASSUME NEW p \in Proc, fs_init(p) PROVE Spilt'
  <2>1. Goto(p, "table", NoLocal)
    BY <1>2 DEF fs_init
  <2>. QED  BY <1>0, <1>2, <2>1, LeftMoves, KeepSpilt DEF fs_init
<1>3. ASSUME NEW p \in Proc, do_fork(p) PROVE Spilt'
  <2>1. \A q \in Proc : pc'[q] = "fat" => local'[q].left \in Int
    BY <1>3 DEF do_fork, Inv, Shape, Spilt, Counts
  <2>. QED  BY <1>0, <1>3, <2>1, KeepSpilt DEF do_fork
<1>4. ASSUME NEW p \in Proc, NEW name, get_name(p, name) PROVE Spilt'
  <2>1. \E l : Goto(p, "dir", l) \/ UNCHANGED <<pc, local>>
    BY <1>4, BlockMoves DEF get_name, Halt, callVars
  <2>2. \A q \in Proc : pc'[q] = "fat" => local'[q].left \in Int
    BY <2>1, LeftMoves
  <2>. QED  BY <1>0, <1>4, <2>2, KeepSpilt DEF get_name
<1>5. ASSUME NEW p \in Proc, read_map_astray(p) PROVE Spilt'
  <2>1. UNCHANGED <<pc, local>>
    BY <1>5 DEF read_map_astray, Halt, callVars
  <2>. QED  BY <1>0, <1>5, <2>1, KeepSpilt DEF read_map_astray, Spilt, Counts
<1>6. ASSUME NEW p \in Proc, get_unused_fd(p) PROVE Spilt'
  <2>1. Goto(p, "user", NoLocal)
    BY <1>6 DEF get_unused_fd, Return
  <2>. QED  BY <1>0, <1>6, <2>1, LeftMoves, KeepSpilt DEF get_unused_fd
<1>7. ASSUME NEW p \in Proc, sys_open(p) \/ read_map(p) PROVE Spilt'
  <2>1. MountingOver
    BY <1>7 DEF sys_open, read_map, Woken, Inv, Quiet
  <2>. QED  BY <1>0, <1>7, <2>1, OpenSpilt, MapSpilt
<1>. QED  BY <1>1, <1>2, <1>3, <1>4, <1>5, <1>6, <1>7, MountSpilt DEF Next, Call, GoOn

(***************************************************************************)
(* A word of a slot is overwritten only from an earlier slot.              *)
(***************************************************************************)
LEMMA ReachedIsSpilt ==
  ASSUME Inv, Spilt, NEW slot \in 1..INODE_NR, OutOfReach(slot)
  PROVE  Intact(slot)
<1> SUFFICES ASSUME NEW a \in i_sb(slot)..block_word(slot, NR_BLOCK - 1), a \in scrap
             PROVE  FALSE
  BY DEF Intact
<1>1. PICK s \in 1..INODE_NR : /\ block_word(s, NR_BLOCK) <= a
                               /\ a < block_word(s, inode[s].clusters)
  BY DEF Spilt, Spilled
<1>2. PICK b \in Int, e \in Int, h \in Int, t \in Int :
        /\ b = i_sb(slot) /\ e = block_word(slot, NR_BLOCK - 1)
        /\ h = i_sb(s) /\ t = block_word(s, inode[s].clusters)
  <2>1. inode[s].clusters \in Int /\ NR_BLOCK - 1 \in Int
    BY Words DEF Spilt, Counts
  <2>2. /\ i_sb(slot) \in Int /\ block_word(slot, NR_BLOCK - 1) \in Int
        /\ i_sb(s) \in Int /\ block_word(s, inode[s].clusters) \in Int
    BY <2>1, WordOf
  <2>. QED  BY <2>2
<1>3. a \in Int /\ b <= a /\ a <= e
  BY <1>2 DEF Spilt
<1>4. CASE s < slot
  <2>1. t <= b
    BY <1>2, <1>4 DEF OutOfReach
  <2>. QED  BY <1>1, <1>2, <1>3, <2>1
<1>5. CASE s = slot
  <2>1. /\ block_word(slot, NR_BLOCK) = b + 2 + NAME_WORDS + NR_BLOCK
        /\ e = b + 2 + NAME_WORDS + (NR_BLOCK - 1)
    BY <1>2, Words, WordOf
  <2>. QED  BY <1>1, <1>3, <1>5, <2>1, Words
<1>6. CASE s > slot
  <2>1. b + INODE_WORDS <= h
    BY <1>2, <1>6, SlotsApart
  <2>2. /\ block_word(s, NR_BLOCK) = h + 2 + NAME_WORDS + NR_BLOCK
        /\ e = b + 2 + NAME_WORDS + (NR_BLOCK - 1)
    BY <1>2, Words, WordOf
  <2>. QED  BY <1>1, <1>3, <2>1, <2>2, Words
<1>. QED  BY <1>4, <1>5, <1>6

LEMMA InvNames ==
  ASSUME UsualNames, Inv, Spilt
  PROVE  OpenedIsNamed
<1> SUFFICES ASSUME NEW p \in Proc, NEW fd \in Fds, opened[p][fd] # NULL
             PROVE  /\ fd \in openfd[p]
                    /\ \E i \in DOMAIN disk.dir :
                         /\ disk.dir[i].written = opened[p][fd] /\ Listed(disk.dir[i])
                         /\ inode[Opened(p, fd)].id = disk.dir[i].id
                    /\ OutOfReach(Opened(p, fd)) => Intact(Opened(p, fd))
  BY DEF OpenedIsNamed
<1>1. fd \in openfd[p] /\ Named(Opened(p, fd), opened[p][fd]) /\ disk \in Disks
  BY DEF Inv, Shape, FilesOK, FileOK, Opened
<1>2. PICK i \in DOMAIN disk.dir :
        /\ shortnamecopy(disk.dir[i]) = opened[p][fd] /\ Listed(disk.dir[i])
        /\ inode[Opened(p, fd)].id = disk.dir[i].id
  BY <1>1 DEF Named
<1>3. disk.dir[i].written = opened[p][fd]
  BY <1>1, <1>2 DEF UsualNames
<1>4. Opened(p, fd) \in 1..INODE_NR
  BY <1>1 DEF Named
<1>. QED  BY <1>1, <1>2, <1>3, <1>4, ReachedIsSpilt

(***************************************************************************)
(* Whatever processes mount, fork and open, and however the disk's answers *)
(* interleave, a descriptor leads to the file of its name: the slots given *)
(* out by alloc_slot (slot.h:29-36) are never given out again while a      *)
(* descriptor or a call of sys_open (open.c:122-153) points to them.  And  *)
(* read_map, which does not look at the end of block[] (inode.c:112-117),  *)
(* overwrites no word of the inode as long as no file in an earlier slot   *)
(* has a map that is long enough to get there.                             *)
(***************************************************************************)
THEOREM DescriptorsStay ==
  ASSUME UsualNames
  PROVE  Spec => []OpenedIsNamed
<1>1. Init => Inv /\ Spilt
  BY InitInv, InitSpilt
<1>2. Inv /\ Spilt /\ [Next]_vars => Inv' /\ Spilt'
  BY NextInv, SpiltNext
<1>3. Inv /\ Spilt => OpenedIsNamed
  BY InvNames
<1>. QED  BY <1>1, <1>2, <1>3, PTL DEF Spec

-----------------------------------------------------------------------------
(***************************************************************************)
(* The ring of disk requests, as calls of sys_open and fs_init use it.     *)
(* From req_head on each slot has the request of another sleeping process. *)
(***************************************************************************)
Sleeping == {"table", "super", "dir", "fat"}

Slot(head, i) == IF head + i < BUF_SIZE THEN head + i ELSE head + i - BUF_SIZE

Waiter(i) == req_buf[Slot(req_head, i)].waiter

IsRequest(r, w) ==
  r = [block |-> want[w], waiter |-> w] /\ data[w] = NULL /\ pc[w] \in Sleeping

Ring ==
  /\ req_head \in 0..(BUF_SIZE - 1) /\ req_count \in 0..BUF_SIZE
  /\ req_tail = Slot(req_head, req_count)
  /\ DOMAIN req_buf = 0..(BUF_SIZE - 1) /\ DOMAIN data = Proc /\ DOMAIN want = Proc
  /\ DOMAIN pc = Proc
  /\ \A i \in 0..(req_count - 1) : \E w \in Proc : IsRequest(req_buf[Slot(req_head, i)], w)
  /\ \A i, j \in 0..(req_count - 1) : Waiter(i) = Waiter(j) => i = j
  /\ \A p \in Proc : \/ \E i \in 0..(req_count - 1) : Waiter(i) = p
                     \/ want[p] = NULL \/ data[p] = want[p]

LEMMA EarlyFinite ==
  /\ IsFiniteSet(EarlyChildren) /\ Cardinality(EarlyChildren) \in Nat
  /\ BUF_SIZE \in Nat \ {0}
<1>1. IsFiniteSet(2..MaxProc) /\ EarlyChildren \in SUBSET (2..MaxProc)
  BY FilesAssumption, FS_Interval
<1>2. IsFiniteSet(EarlyChildren)
  BY <1>1, FS_Subset
<1>3. Cardinality(EarlyChildren) \in Nat
  BY <1>2, FS_CardinalityType
<1>. QED  BY <1>2, <1>3, FilesAssumption

LEMMA SlotType ==
  ASSUME NEW h \in 0..(BUF_SIZE - 1), NEW i \in 0..BUF_SIZE
  PROVE  Slot(h, i) \in 0..(BUF_SIZE - 1)
BY EarlyFinite DEF Slot

LEMMA SlotInjective ==
  ASSUME NEW h \in 0..(BUF_SIZE - 1), NEW i \in 0..(BUF_SIZE - 1),
         NEW j \in 0..(BUF_SIZE - 1), i # j
  PROVE  Slot(h, i) # Slot(h, j)
BY EarlyFinite DEF Slot

LEMMA SlotNext ==
  ASSUME NEW h \in 0..(BUF_SIZE - 1), NEW i \in 0..(BUF_SIZE - 1)
  PROVE  /\ wrap(Slot(h, i) + 1) = Slot(h, i + 1)
         /\ Slot(h, 0) = h
         /\ wrap(h + 1) \in 0..(BUF_SIZE - 1)
         /\ Slot(wrap(h + 1), i) = Slot(h, i + 1)
BY EarlyFinite DEF Slot, wrap

(***************************************************************************)
(* do_read, by a process whose last sector has arrived, into a ring that   *)
(* is not full.                                                            *)
(***************************************************************************)
LEMMA AskRing ==
  ASSUME Ring, NEW p \in Proc, NEW block, NEW where \in Sleeping, req_count < BUF_SIZE,
         data[p] # NULL \/ pc[p] \notin Sleeping,
         do_read(p, block), pc' = [pc EXCEPT ![p] = where]
  PROVE  Ring'
<1>0. BUF_SIZE \in Nat \ {0}
  BY EarlyFinite
<1>1. PICK h \in 0..(BUF_SIZE - 1) : h = req_head /\ h = req_head'
  BY DEF Ring, do_read
<1>2. PICK n \in 0..(BUF_SIZE - 1) : n = req_count /\ req_count' = n + 1
  BY <1>0 DEF Ring, do_read
<1>3. PICK r : r = [block |-> block, waiter |-> p]
  OBVIOUS
<1>4. PICK t \in 0..(BUF_SIZE - 1) : t = Slot(h, n) /\ t = req_tail
  BY <1>0, <1>1, <1>2, SlotType DEF Ring
<1>5. /\ req_buf' = [req_buf EXCEPT ![t] = r] /\ req_tail' = wrap(t + 1)
      /\ data' = [data EXCEPT ![p] = NULL] /\ want' = [want EXCEPT ![p] = block]
  BY <1>3, <1>4 DEF do_read
<1>6. req_tail' = Slot(h, n + 1)
  <2>1. wrap(Slot(h, n) + 1) = Slot(h, n + 1)
    BY SlotNext
  <2>. QED  BY <1>4, <1>5, <2>1
<1>7. /\ DOMAIN req_buf' = 0..(BUF_SIZE - 1) /\ DOMAIN data' = Proc /\ DOMAIN want' = Proc
      /\ DOMAIN pc' = Proc /\ req_buf'[t] = r /\ data'[p] = NULL /\ want'[p] = block
      /\ pc'[p] = where
      /\ \A q \in Proc : q # p => data'[q] = data[q] /\ want'[q] = want[q] /\ pc'[q] = pc[q]
  BY <1>5 DEF Ring
<1>8. ASSUME NEW i \in 0..(n - 1)
      PROVE  /\ req_buf'[Slot(h, i)] = req_buf[Slot(h, i)]
             /\ \E w \in Proc : /\ IsRequest(req_buf[Slot(h, i)], w) /\ w # p
                                /\ req_buf[Slot(h, i)].waiter = w
  <2>1. i \in 0..(BUF_SIZE - 1) /\ i # n
    BY <1>0
  <2>2. Slot(h, i) \in 0..(BUF_SIZE - 1) /\ Slot(h, i) # t
    <3>1. i \in 0..BUF_SIZE
      BY <1>0, <2>1
    <3>2. Slot(h, i) # Slot(h, n)
      BY <2>1, SlotInjective
    <3>3. Slot(h, i) \in 0..(BUF_SIZE - 1)
      BY <3>1, SlotType
    <3>. QED  BY <1>4, <3>2, <3>3
  <2>3. PICK w \in Proc : IsRequest(req_buf[Slot(h, i)], w)
    BY <1>1, <1>2 DEF Ring
  <2>4. w # p /\ req_buf[Slot(h, i)].waiter = w
    BY <2>3 DEF IsRequest
  <2>. QED  BY <1>5, <2>2, <2>3, <2>4 DEF Ring
<1>9. ASSUME NEW i \in 0..(n - 1)
      PROVE  \E w \in Proc : w # p /\ IsRequest(req_buf[Slot(req_head, i)], w)'
                             /\ req_buf'[Slot(h, i)].waiter = w
  <2>1. PICK w \in Proc : /\ IsRequest(req_buf[Slot(h, i)], w) /\ w # p
                          /\ req_buf[Slot(h, i)].waiter = w
    BY <1>8
  <2>2. req_buf'[Slot(h, i)] = req_buf[Slot(h, i)]
    BY <1>8
  <2>3. data'[w] = data[w] /\ want'[w] = want[w] /\ pc'[w] = pc[w]
    BY <1>7, <2>1
  <2>. QED  BY <1>1, <2>1, <2>2, <2>3 DEF IsRequest
<1>10. IsRequest(req_buf[Slot(req_head, n)], p)'
  BY <1>1, <1>3, <1>4, <1>7 DEF IsRequest
<1>11. ASSUME NEW i \in 0..n PROVE \E w \in Proc : IsRequest(req_buf[Slot(req_head, i)], w)'
  <2>1. CASE i = n
    BY <1>10, <2>1
  <2>2. CASE i # n
    <3>1. i \in 0..(n - 1)
      BY <2>2
    <3>. QED  BY <1>9, <3>1
  <2>. QED  BY <2>1, <2>2
<1>12. Waiter(n)' = p /\ \A i \in 0..(n - 1) : Waiter(i)' # p /\ Waiter(i)' = Waiter(i)
  BY <1>1, <1>3, <1>4, <1>7, <1>8 DEF Waiter
<1>13. ASSUME NEW i \in 0..n, NEW j \in 0..n, Waiter(i)' = Waiter(j)' PROVE i = j
  <2>1. CASE i = n /\ j # n
    <3>1. j \in 0..(n - 1)
      BY <2>1
    <3>. QED  BY <1>12, <1>13, <2>1, <3>1
  <2>2. CASE j = n /\ i # n
    <3>1. i \in 0..(n - 1)
      BY <2>2
    <3>. QED  BY <1>12, <1>13, <2>2, <3>1
  <2>3. CASE i # n /\ j # n
    <3>1. i \in 0..(n - 1) /\ j \in 0..(n - 1)
      BY <2>3
    <3>. QED  BY <1>2, <1>12, <1>13, <3>1 DEF Ring
  <2>. QED  BY <2>1, <2>2, <2>3
<1>14. ASSUME NEW q \in Proc
       PROVE  \/ \E i \in 0..n : Waiter(i)' = q
              \/ want'[q] = NULL \/ data'[q] = want'[q]
  <2>1. CASE q = p
    <3>1. n \in 0..n
      OBVIOUS
    <3>. QED  BY <1>12, <2>1, <3>1
  <2>2. CASE q # p
    <3>1. CASE \E i \in 0..(n - 1) : Waiter(i) = q
      <4>1. PICK i \in 0..(n - 1) : Waiter(i) = q
        BY <3>1
      <4>2. i \in 0..n
        OBVIOUS
      <4>. QED  BY <1>12, <4>1, <4>2
    <3>2. CASE ~\E i \in 0..(n - 1) : Waiter(i) = q
      BY <1>2, <1>7, <2>2, <3>2 DEF Ring
    <3>. QED  BY <3>1, <3>2
  <2>. QED  BY <2>1, <2>2
<1>15. req_count' \in 0..BUF_SIZE /\ req_count' - 1 = n
  BY <1>0, <1>2
<1>16. req_tail' = Slot(req_head', req_count')
  BY <1>1, <1>2, <1>6
<1>. QED  BY <1>1, <1>7, <1>11, <1>13, <1>14, <1>15, <1>16 DEF Ring

(***************************************************************************)
(* Steps that leave the ring alone.                                        *)
(***************************************************************************)
LEMMA KeepRing ==
  ASSUME Ring, UNCHANGED <<req_buf, req_head, req_tail, req_count>>,
         DOMAIN data' = Proc, DOMAIN want' = Proc, DOMAIN pc' = Proc,
         \A q \in Proc : \/ data'[q] = data[q] /\ want'[q] = want[q] /\ pc'[q] = pc[q]
                         \/ /\ data[q] # NULL \/ pc[q] \notin Sleeping
                            /\ want'[q] = NULL \/ (data'[q] = data[q] /\ want'[q] = want[q])
  PROVE  Ring'
<1>1. ASSUME NEW i \in 0..(req_count - 1)
      PROVE  \E w \in Proc : IsRequest(req_buf[Slot(req_head, i)], w)'
  <2>1. PICK w \in Proc : IsRequest(req_buf[Slot(req_head, i)], w)
    BY DEF Ring
  <2>2. data'[w] = data[w] /\ want'[w] = want[w] /\ pc'[w] = pc[w]
    BY <2>1 DEF IsRequest
  <2>. QED  BY <2>1, <2>2 DEF IsRequest
<1>2. \A i : Waiter(i)' = Waiter(i)
  BY DEF Waiter
<1>3. \A p \in Proc : \/ \E i \in 0..(req_count - 1) : Waiter(i) = p
                      \/ want'[p] = NULL \/ data'[p] = want'[p]
  BY DEF Ring
<1>. QED  BY <1>1, <1>2, <1>3 DEF Ring

LEMMA HandlerRing ==
  ASSUME Ring, hd_handlerp
  PROVE  Ring'
<1>0. BUF_SIZE \in Nat \ {0}
  BY EarlyFinite
<1>1. PICK h \in 0..(BUF_SIZE - 1) : h = req_head
  BY DEF Ring
<1>2. PICK n \in 0..(BUF_SIZE - 1) : req_count = n + 1 /\ req_count' = n
  <2>1. req_count \in 0..BUF_SIZE /\ req_count > 0 /\ req_count' = req_count - 1
    BY DEF Ring, hd_handlerp
  <2>2. req_count - 1 \in 0..(BUF_SIZE - 1) /\ req_count = (req_count - 1) + 1
    BY <1>0, <2>1
  <2>. QED  BY <2>1, <2>2
<1>3. PICK k \in 0..(BUF_SIZE - 1) : k = wrap(h + 1)
  BY <1>0, SlotNext
<1>4. req_head' = k
  BY <1>1, <1>3 DEF hd_handlerp
<1>5. Slot(h, 0) = h /\ 0 \in 0..n
  BY <1>0, SlotNext
<1>6. PICK p \in Proc : IsRequest(req_buf[h], p)
  BY <1>1, <1>2, <1>5 DEF Ring
<1>7. req_buf[h].waiter = p /\ req_buf[h].block = want[p]
  BY <1>6 DEF IsRequest
<1>8. /\ data' = [data EXCEPT ![p] = want[p]] /\ req_buf' = [req_buf EXCEPT ![h] = NoRequest]
      /\ want' = want /\ pc' = pc /\ req_tail' = req_tail
  BY <1>1, <1>7 DEF hd_handlerp, callVars
<1>9. ASSUME NEW i \in 0..(n - 1)
      PROVE  /\ i + 1 \in 0..n /\ Slot(k, i) = Slot(h, i + 1)
             /\ req_buf'[Slot(k, i)] = req_buf[Slot(h, i + 1)]
  <2>1. i \in 0..(BUF_SIZE - 1) /\ i + 1 \in 0..(BUF_SIZE - 1) /\ i + 1 \in 0..BUF_SIZE
        /\ i + 1 \in 0..n /\ i + 1 # 0 /\ 0 \in 0..(BUF_SIZE - 1)
    BY <1>0
  <2>2. Slot(k, i) = Slot(h, i + 1)
    BY <1>3, <2>1, SlotNext
  <2>3. Slot(h, i + 1) # Slot(h, 0)
    BY <2>1, SlotInjective
  <2>4. Slot(h, i + 1) \in 0..(BUF_SIZE - 1)
    BY <2>1, SlotType
  <2>. QED  BY <1>5, <1>8, <2>1, <2>2, <2>3, <2>4 DEF Ring
<1>10. ASSUME NEW i \in 0..(n - 1)
       PROVE  /\ Waiter(i)' = Waiter(i + 1) /\ Waiter(i + 1) # p
              /\ \E w \in Proc : IsRequest(req_buf[Slot(req_head, i)], w)'
  <2>1. i + 1 \in 0..n /\ Slot(k, i) = Slot(h, i + 1) /\ i + 1 # 0
        /\ req_buf'[Slot(k, i)] = req_buf[Slot(h, i + 1)]
    BY <1>9
  <2>2. Waiter(i)' = Waiter(i + 1)
    BY <1>1, <1>4, <2>1 DEF Waiter
  <2>3. Waiter(0) = p
    BY <1>1, <1>5, <1>7 DEF Waiter
  <2>4. Waiter(i + 1) # p
    BY <1>2, <1>5, <2>1, <2>3 DEF Ring
  <2>5. PICK w \in Proc : IsRequest(req_buf[Slot(h, i + 1)], w)
    BY <1>1, <1>2, <2>1 DEF Ring
  <2>6. w # p
    BY <1>1, <2>4, <2>5 DEF IsRequest, Waiter
  <2>7. data'[w] = data[w]
    BY <1>8, <2>6 DEF Ring
  <2>. QED  BY <1>4, <1>8, <2>1, <2>2, <2>4, <2>5, <2>7 DEF IsRequest
<1>11. ASSUME NEW i \in 0..(n - 1), NEW j \in 0..(n - 1), Waiter(i)' = Waiter(j)'
       PROVE  i = j
  <2>1. Waiter(i + 1) = Waiter(j + 1) /\ i + 1 \in 0..n /\ j + 1 \in 0..n
    BY <1>9, <1>10, <1>11
  <2>2. i + 1 = j + 1
    BY <1>2, <2>1 DEF Ring
  <2>. QED  BY <2>2
<1>12. ASSUME NEW q \in Proc
       PROVE  \/ \E i \in 0..(n - 1) : Waiter(i)' = q
              \/ want'[q] = NULL \/ data'[q] = want'[q]
  <2>1. CASE q = p
    BY <1>8, <2>1 DEF Ring
  <2>2. CASE q # p /\ \E i \in 0..n : Waiter(i) = q
    <3>1. PICK i \in 0..n : Waiter(i) = q
      BY <2>2
    <3>2. i # 0
      BY <1>1, <1>5, <1>7, <2>2, <3>1 DEF Waiter
    <3>3. PICK j \in 0..(n - 1) : j + 1 = i
      <4>1. i - 1 \in 0..(n - 1) /\ (i - 1) + 1 = i
        BY <3>2
      <4>. QED  BY <4>1
    <3>. QED  BY <1>10, <3>1, <3>3
  <2>3. CASE q # p /\ ~\E i \in 0..n : Waiter(i) = q
    BY <1>2, <1>8, <2>3 DEF Ring
  <2>. QED  BY <2>1, <2>2, <2>3
<1>13. req_tail' = Slot(req_head', req_count')
  <2>1. req_tail = Slot(h, n + 1)
    BY <1>1, <1>2 DEF Ring
  <2>2. Slot(k, n) = Slot(h, n + 1)
    BY <1>3, SlotNext
  <2>. QED  BY <1>2, <1>4, <1>8, <2>1, <2>2
<1>14. req_count' \in 0..BUF_SIZE
  BY <1>0, <1>2
<1>15. /\ DOMAIN req_buf' = 0..(BUF_SIZE - 1) /\ DOMAIN data' = Proc /\ DOMAIN want' = Proc
       /\ DOMAIN pc' = Proc
  BY <1>8 DEF Ring
<1>. QED  BY <1>2, <1>4, <1>10, <1>11, <1>12, <1>13, <1>14, <1>15 DEF Ring

(***************************************************************************)
(* The ring of the invariant is the one DataIsAsked speaks of.             *)
(***************************************************************************)
LEMMA SlotIsMod ==
  ASSUME NEW h \in 0..(BUF_SIZE - 1), NEW i \in 0..BUF_SIZE
  PROVE  (h + i) % BUF_SIZE = Slot(h, i)
<1>0. BUF_SIZE \in Nat \ {0}
  BY EarlyFinite
<1>1. CASE h + i < BUF_SIZE
  BY <1>0, <1>1 DEF Slot
<1>2. CASE ~(h + i < BUF_SIZE)
  <2>1. PICK r \in 0..(BUF_SIZE - 1) : r = h + i - BUF_SIZE /\ h + i = BUF_SIZE + r
    BY <1>0, <1>2
  <2>2. (BUF_SIZE + r) % BUF_SIZE = r
    BY <1>0
  <2>. QED  BY <1>2, <2>1, <2>2 DEF Slot
<1>. QED  BY <1>1, <1>2

LEMMA RingAnswers ==
  ASSUME Ring
  PROVE  DataIsAsked
<1>0. BUF_SIZE \in Nat \ {0}
  BY EarlyFinite
<1>1. PICK h \in 0..(BUF_SIZE - 1) : h = req_head
  BY DEF Ring
<1>2. PICK n \in 0..BUF_SIZE : n = req_count
  BY DEF Ring
<1>3. req_tail = (req_head + req_count) % BUF_SIZE
  <2>1. (h + n) % BUF_SIZE = Slot(h, n)
    BY SlotIsMod
  <2>. QED  BY <1>1, <1>2, <2>1 DEF Ring
<1>4. \A s : s \in InRing <=> \E i \in 0..(n - 1) : s = Slot(h, i)
  <2>1. ASSUME NEW i \in 0..(n - 1) PROVE (h + i) % BUF_SIZE = Slot(h, i)
    <3>1. i \in 0..BUF_SIZE
      BY <1>0
    <3>. QED  BY <3>1, SlotIsMod
  <2>. QED  BY <1>1, <1>2, <2>1 DEF InRing
<1>5. ASSUME NEW p \in Proc
      PROVE  \/ want[p] = NULL /\ \A s \in InRing : req_buf[s].waiter # p
             \/ data[p] = want[p] /\ \A s \in InRing : req_buf[s].waiter # p
             \/ /\ data[p] = NULL
                /\ \E s \in InRing : /\ req_buf[s] = [block |-> want[p], waiter |-> p]
                                     /\ \A t \in InRing \ {s} : req_buf[t].waiter # p
  <2>1. CASE \E i \in 0..(n - 1) : Waiter(i) = p
    <3>1. PICK i \in 0..(n - 1) : Waiter(i) = p
      BY <2>1
    <3>2. PICK s : s = Slot(h, i)
      OBVIOUS
    <3>3. s \in InRing /\ req_buf[s].waiter = p
      BY <1>1, <1>4, <3>1, <3>2 DEF Waiter
    <3>4. req_buf[s] = [block |-> want[p], waiter |-> p] /\ data[p] = NULL
      <4>1. PICK w \in Proc : IsRequest(req_buf[s], w)
        BY <1>1, <1>2, <3>2 DEF Ring
      <4>. QED  BY <3>3, <4>1 DEF IsRequest
    <3>5. ASSUME NEW t \in InRing \ {s} PROVE req_buf[t].waiter # p
      <4>1. PICK j \in 0..(n - 1) : t = Slot(h, j)
        BY <1>4
      <4>2. j # i
        BY <3>2, <4>1
      <4>3. Waiter(j) # Waiter(i)
        BY <1>2, <4>2 DEF Ring
      <4>. QED  BY <1>1, <3>1, <4>1, <4>3 DEF Waiter
    <3>. QED  BY <3>3, <3>4, <3>5
  <2>2. CASE ~\E i \in 0..(n - 1) : Waiter(i) = p
    <3>1. \A s \in InRing : req_buf[s].waiter # p
      BY <1>1, <1>4, <2>2 DEF Waiter
    <3>. QED  BY <1>2, <2>2, <3>1 DEF Ring
  <2>. QED  BY <2>1, <2>2
<1>. QED  BY <1>3, <1>5 DEF DataIsAsked

-----------------------------------------------------------------------------
(***************************************************************************)
(* Where processes are.  Only early children mount, and nobody opens       *)
(* meanwhile: so the ring has room for do_read of get_part_table, which    *)
(* does not look.                                                          *)
(***************************************************************************)
Places == {"none", "start", "user", "table", "super", "dir", "fat"}
Mounting == {"start", "table", "super"}
Opening == {"dir", "fat"}

Phases ==
  /\ pc \in [Proc -> Places]
  /\ \A p \in Proc : pc[p] \in Mounting => p \in EarlyChildren \cup {1}
  /\ \A p, q \in Proc : ~(pc[p] \in Mounting /\ pc[q] \in Opening)

LEMMA MovePhases ==
  ASSUME Phases, NEW p \in Proc, NEW where \in Places, pc' = [pc EXCEPT ![p] = where],
         where \in Mounting => pc[p] \in Mounting,
         where \in Opening => MountingOver \/ pc[p] \in Opening
  PROVE  Phases'
<1>1. pc' \in [Proc -> Places] /\ pc'[p] = where /\ \A q \in Proc : q # p => pc'[q] = pc[q]
  BY DEF Phases
<1>2. ASSUME NEW q \in Proc, pc'[q] \in Mounting
      PROVE  q \in EarlyChildren \cup {1} /\ pc[q] \in Mounting
  BY <1>1, <1>2 DEF Phases
<1>3. ASSUME NEW q \in Proc, NEW r \in Proc, pc'[q] \in Mounting, pc'[r] \in Opening
      PROVE  FALSE
  <2>1. pc[q] \in Mounting
    BY <1>2, <1>3
  <2>2. ~MountingOver
    BY <2>1 DEF MountingOver, Mounting
  <2>3. pc[r] \in Opening
    BY <1>1, <1>3, <2>2
  <2>. QED  BY <2>1, <2>3 DEF Phases
<1>. QED  BY <1>1, <1>2, <1>3 DEF Phases

LEMMA FirstAskFits ==
  ASSUME Phases, Ring, NEW p \in Proc, pc[p] = "start"
  PROVE  req_count < BUF_SIZE
<1>0. /\ IsFiniteSet(EarlyChildren) /\ Cardinality(EarlyChildren) \in Nat
      /\ BUF_SIZE \in Nat /\ BUF_SIZE > Cardinality(EarlyChildren) /\ 1 \notin EarlyChildren
  BY EarlyFinite, FilesAssumption
<1>1. PICK n \in Nat : n = req_count
  BY <1>0 DEF Ring
<1>2. PICK all : all = EarlyChildren \cup {1}
  OBVIOUS
<1>3. IsFiniteSet(all) /\ Cardinality(all) = Cardinality(EarlyChildren) + 1
  BY <1>0, <1>2, FS_AddElement
<1>4. p \in all
  BY <1>2 DEF Phases, Mounting
<1>5. PICK others : others = all \ {p}
  OBVIOUS
<1>6. IsFiniteSet(others) /\ Cardinality(others) = Cardinality(EarlyChildren)
  <2>1. /\ IsFiniteSet(others)
        /\ Cardinality(others) = Cardinality(all) - 1
    BY <1>3, <1>4, <1>5, FS_RemoveElement
  <2>. QED  BY <1>0, <1>3, <2>1
<1>7. ASSUME NEW i \in 0..(n - 1) PROVE Waiter(i) \in others
  <2>1. PICK w \in Proc : IsRequest(req_buf[Slot(req_head, i)], w)
    BY <1>1 DEF Ring
  <2>2. Waiter(i) = w /\ pc[w] \in Sleeping
    BY <2>1 DEF IsRequest, Waiter
  <2>3. pc[w] \in Mounting /\ w # p
    BY <2>2 DEF Phases, Mounting, Opening, Sleeping
  <2>. QED  BY <1>2, <1>5, <2>2, <2>3 DEF Phases
<1>8. PICK f : f = [i \in 0..(n - 1) |-> Waiter(i)]
  OBVIOUS
<1>9. f \in Injection(0..(n - 1), others)
  <2>1. f \in [0..(n - 1) -> others]
    BY <1>7, <1>8
  <2>2. \A i, j \in 0..(n - 1) : f[i] = f[j] => i = j
    BY <1>1, <1>8 DEF Ring
  <2>. QED  BY <2>1, <2>2 DEF Injection, IsInjective
<1>10. Cardinality(0..(n - 1)) <= Cardinality(others)
  BY <1>6, <1>9, FS_Injection
<1>11. Cardinality(0..(n - 1)) = n
  <2>1. 0 \in Int /\ n - 1 \in Int
    OBVIOUS
  <2>2. Cardinality(0..(n - 1)) = IF 0 > n - 1 THEN 0 ELSE (n - 1) - 0 + 1
    BY <2>1, FS_Interval
  <2>. QED  BY <2>2
<1>. QED  BY <1>0, <1>1, <1>6, <1>10, <1>11

-----------------------------------------------------------------------------
(***************************************************************************)
(* What a process holds while it sleeps, and the books.                    *)
(***************************************************************************)
Cost(place) == IF place = "dir" THEN 3 ELSE IF place \in {"super", "fat"} THEN 2 ELSE 0

Books ==
  /\ pages \in Nat /\ lost \in Nat
  /\ pages + lost + HeldPages = NR_PAGES

LEMMA ProcFinite ==
  ASSUME NEW S \in SUBSET Proc
  PROVE  IsFiniteSet(S) /\ Cardinality(S) \in Nat
<1>1. IsFiniteSet(Proc)
  BY FilesAssumption, FS_Interval DEF Proc
<1>2. IsFiniteSet(S)
  BY <1>1, FS_Subset
<1>. QED  BY <1>2, FS_CardinalityType

LEMMA HeldType ==
  /\ Cardinality({p \in Proc : pc[p] = "dir"}) \in Nat
  /\ Cardinality({p \in Proc : pc[p] \in {"super", "fat"}}) \in Nat
  /\ HeldPages \in Nat
<1>1. PICK a \in Nat : a = Cardinality({p \in Proc : pc[p] = "dir"})
  BY ProcFinite
<1>2. PICK b \in Nat : b = Cardinality({p \in Proc : pc[p] \in {"super", "fat"}})
  BY ProcFinite
<1>3. HeldPages = 3 * a + 2 * b
  BY <1>1, <1>2 DEF HeldPages
<1>. QED  BY <1>1, <1>2, <1>3

LEMMA CountMoves ==
  ASSUME NEW p \in Proc, NEW S \in SUBSET Proc, NEW T \in SUBSET Proc,
         S \ {p} = T \ {p}
  PROVE  Cardinality(T) + (IF p \in S THEN 1 ELSE 0)
           = Cardinality(S) + (IF p \in T THEN 1 ELSE 0)
<1>1. PICK R \in SUBSET Proc : R = S \ {p} /\ R = T \ {p}
  OBVIOUS
<1>2. PICK n \in Nat : n = Cardinality(R)
  BY ProcFinite
<1>3. Cardinality(S) = n + (IF p \in S THEN 1 ELSE 0)
  <2>1. IsFiniteSet(S) /\ Cardinality(S) \in Nat
    BY ProcFinite
  <2>2. n = IF p \in S THEN Cardinality(S) - 1 ELSE Cardinality(S)
    BY <1>1, <1>2, <2>1, FS_RemoveElement
  <2>. QED  BY <2>1, <2>2
<1>4. Cardinality(T) = n + (IF p \in T THEN 1 ELSE 0)
  <2>1. IsFiniteSet(T) /\ Cardinality(T) \in Nat
    BY ProcFinite
  <2>2. n = IF p \in T THEN Cardinality(T) - 1 ELSE Cardinality(T)
    BY <1>1, <1>2, <2>1, FS_RemoveElement
  <2>. QED  BY <2>1, <2>2
<1>. QED  BY <1>3, <1>4

LEMMA HeldMoves ==
  ASSUME Phases, NEW p \in Proc, NEW where, pc' = [pc EXCEPT ![p] = where]
  PROVE  HeldPages' + Cost(pc[p]) = HeldPages + Cost(where)
<1>0. pc'[p] = where /\ \A q \in Proc : q # p => pc'[q] = pc[q]
  BY DEF Phases
<1>1. PICK D \in SUBSET Proc : D = {q \in Proc : pc[q] = "dir"}
  OBVIOUS
<1>2. PICK F \in SUBSET Proc : F = {q \in Proc : pc[q] \in {"super", "fat"}}
  OBVIOUS
<1>3. PICK E \in SUBSET Proc : E = {q \in Proc : pc'[q] = "dir"}
  OBVIOUS
<1>4. PICK G \in SUBSET Proc : G = {q \in Proc : pc'[q] \in {"super", "fat"}}
  OBVIOUS
<1>5. PICK d \in Nat, f \in Nat, e \in Nat, g \in Nat :
        /\ d = Cardinality(D) /\ f = Cardinality(F) /\ e = Cardinality(E)
        /\ g = Cardinality(G)
  BY ProcFinite
<1>6. e + (IF p \in D THEN 1 ELSE 0) = d + (IF p \in E THEN 1 ELSE 0)
  <2>1. D \ {p} = E \ {p}
    BY <1>0, <1>1, <1>3
  <2>. QED  BY <1>5, <2>1, CountMoves
<1>7. g + (IF p \in F THEN 1 ELSE 0) = f + (IF p \in G THEN 1 ELSE 0)
  <2>1. F \ {p} = G \ {p}
    BY <1>0, <1>2, <1>4
  <2>. QED  BY <1>5, <2>1, CountMoves
<1>8. HeldPages = 3 * d + 2 * f /\ HeldPages' = 3 * e + 2 * g
  BY <1>1, <1>2, <1>3, <1>4, <1>5 DEF HeldPages
<1>9. /\ p \in D <=> pc[p] = "dir"
      /\ p \in F <=> pc[p] \in {"super", "fat"}
      /\ p \in E <=> where = "dir"
      /\ p \in G <=> where \in {"super", "fat"}
  BY <1>0, <1>1, <1>2, <1>3, <1>4
<1>10. Cost(pc[p]) = (IF p \in D THEN 3 ELSE 0) + (IF p \in F THEN 2 ELSE 0)
  BY <1>9 DEF Cost
<1>11. Cost(where) = (IF p \in E THEN 3 ELSE 0) + (IF p \in G THEN 2 ELSE 0)
  BY <1>9 DEF Cost
<1>. QED  BY <1>6, <1>7, <1>8, <1>10, <1>11

-----------------------------------------------------------------------------
(***************************************************************************)
(* What the parts of a call do to ring and books.                          *)
(***************************************************************************)
Core == Phases /\ Ring /\ Books

LEMMA CostType ==
  ASSUME NEW place
  PROVE  Cost(place) \in Nat
BY DEF Cost

LEMMA Balance ==
  ASSUME NEW a \in Nat, NEW b \in Nat, NEW x \in Nat, NEW y \in Nat,
         NEW f \in Nat, NEW l \in Nat, NEW f2 \in Nat, NEW l2 \in Nat,
         y + b = x + a, f2 + l2 + a = f + l + b
  PROVE  f2 + l2 + y = f + l + x
OBVIOUS

LEMMA BalancedBooks ==
  ASSUME Books, pages' \in Nat, lost' \in Nat, HeldPages' \in Nat,
         NEW a \in Nat, NEW b \in Nat, HeldPages' + b = HeldPages + a,
         pages' + lost' + a = pages + lost + b
  PROVE  Books'
<1>1. PICK x \in Nat : x = HeldPages
  BY HeldType
<1>2. PICK y \in Nat : y = HeldPages'
  OBVIOUS
<1>3. y + b = x + a
  BY <1>1, <1>2
<1>4. pages \in Nat /\ lost \in Nat /\ pages + lost + x = NR_PAGES
  BY <1>1 DEF Books
<1>5. pages' + lost' + y = pages + lost + x
  <2>1. PICK f \in Nat, l \in Nat : f = pages /\ l = lost
    BY <1>4
  <2>2. PICK f2 \in Nat, l2 \in Nat : f2 = pages' /\ l2 = lost'
    OBVIOUS
  <2>3. f2 + l2 + a = f + l + b
    BY <2>1, <2>2
  <2>4. f2 + l2 + y = f + l + x
    BY <1>3, <2>3, Balance
  <2>. QED  BY <2>1, <2>2, <2>4
<1>. QED  BY <1>2, <1>4, <1>5 DEF Books

LEMMA MoveBooks ==
  ASSUME Core, NEW p \in Proc, NEW where, pc' = [pc EXCEPT ![p] = where],
         pages' \in Nat, lost' \in Nat,
         pages' + lost' + Cost(where) = pages + lost + Cost(pc[p])
  PROVE  Books'
<1>1. Cost(where) \in Nat /\ Cost(pc[p]) \in Nat
  BY CostType
<1>2. HeldPages' + Cost(pc[p]) = HeldPages + Cost(where)
  BY HeldMoves DEF Core
<1>3. HeldPages \in Nat /\ HeldPages' \in Nat
  <2>1. PICK d \in Nat : d = Cardinality({q \in Proc : pc'[q] = "dir"})
    BY ProcFinite
  <2>2. PICK e \in Nat : e = Cardinality({q \in Proc : pc'[q] \in {"super", "fat"}})
    BY ProcFinite
  <2>3. HeldPages' = 3 * d + 2 * e
    BY <2>1, <2>2 DEF HeldPages
  <2>. QED  BY <2>3, HeldType
<1>. QED  BY <1>1, <1>2, <1>3, BalancedBooks DEF Core

LEMMA KeepBooks ==
  ASSUME Core, pages' = pages, lost' = lost, pc' = pc
  PROVE  Books'
BY DEF Core, Books, HeldPages

LEMMA KeepCore ==
  ASSUME Core, UNCHANGED <<pc, want, req_buf, req_head, req_tail, req_count, data, pages, lost>>
  PROVE  Core'
<1>1. Phases'
  BY DEF Core, Phases
<1>2. Ring'
  BY KeepRing DEF Core, Ring
<1>3. Books'
  BY KeepBooks
<1>. QED  BY <1>1, <1>2, <1>3 DEF Core

LEMMA BlockCore ==
  ASSUME Core, NEW p \in Proc, NEW block, NEW avail \in Nat,
         NEW where \in {"super", "dir", "fat"}, NEW locals,
         get_block(p, block, avail, where, locals),
         data[p] # NULL \/ pc[p] \notin Sleeping,
         where = "super" => pc[p] \in Mounting,
         where \in Opening => MountingOver \/ pc[p] \in Opening,
         avail + Cost(where) = pages + Cost(pc[p]) + 2, lost' = lost
  PROVE  Core'
<1>1. CASE \E how : Halt(how)
  BY <1>1, KeepCore DEF Halt, callVars, ringVars
<1>2. CASE /\ avail >= 2 /\ ~ring_full /\ pages' = avail - 2
           /\ do_read(p, block) /\ Goto(p, where, locals)
  <2>0. where \in Places /\ where \in Sleeping /\ (where \in Mounting => where = "super")
    BY DEF Places, Sleeping, Mounting
  <2>1. pc' = [pc EXCEPT ![p] = where]
    BY <1>2 DEF Goto
  <2>2. req_count < BUF_SIZE
    BY <1>2, EarlyFinite DEF Core, Ring, ring_full
  <2>3. Ring'
    BY <1>2, <2>0, <2>1, <2>2, AskRing DEF Core
  <2>4. Phases'
    BY <2>0, <2>1, MovePhases DEF Core
  <2>5. Books'
    <3>1. PICK a \in Nat, b \in Nat : a = Cost(where) /\ b = Cost(pc[p])
      BY CostType
    <3>2. pages \in Nat /\ lost \in Nat
      BY DEF Core, Books
    <3>3. pages' \in Nat /\ lost' \in Nat /\ pages' + lost' + a = pages + lost + b
      BY <1>2, <3>1, <3>2
    <3>4. pages' + lost' + Cost(where) = pages + lost + Cost(pc[p])
      BY <3>1, <3>3
    <3>. QED  BY <2>1, <3>3, <3>4, MoveBooks
  <2>. QED  BY <2>3, <2>4, <2>5 DEF Core
<1>. QED  BY <1>1, <1>2 DEF get_block

LEMMA ReturnCore ==
  ASSUME Core, NEW p \in Proc, Return(p), data[p] # NULL, pages' \in Nat, lost' \in Nat,
         pages' + lost' = pages + lost + Cost(pc[p])
  PROVE  Core'
<1>1. pc' = [pc EXCEPT ![p] = "user"] /\ "user" \in Places /\ "user" \notin Mounting
      /\ "user" \notin Opening
  BY DEF Return, Goto, Places, Mounting, Opening
<1>2. Phases'
  BY <1>1, MovePhases DEF Core
<1>3. Ring'
  <2>1. /\ DOMAIN data' = Proc /\ DOMAIN want' = Proc /\ DOMAIN pc' = Proc
        /\ want'[p] = NULL
        /\ \A q \in Proc : q # p => data'[q] = data[q] /\ want'[q] = want[q] /\ pc'[q] = pc[q]
    BY <1>1 DEF Core, Ring, Return
  <2>2. UNCHANGED <<req_buf, req_head, req_tail, req_count>>
    BY DEF Return
  <2>. QED  BY <2>1, <2>2, KeepRing DEF Core
<1>4. Books'
  <2>1. Cost("user") = 0
    BY DEF Cost
  <2>2. pages' + lost' + Cost("user") = pages + lost + Cost(pc[p])
    BY <2>1
  <2>. QED  BY <1>1, <2>2, MoveBooks
<1>. QED  BY <1>2, <1>3, <1>4 DEF Core

-----------------------------------------------------------------------------
(***************************************************************************)
(* One lemma per action.                                                   *)
(***************************************************************************)
LEMMA HandlerCore == ASSUME Core, hd_handlerp PROVE Core'
<1>1. pc' = pc /\ pages' = pages /\ lost' = lost
  BY DEF hd_handlerp, callVars
<1>2. Phases'
  BY <1>1 DEF Core, Phases
<1>. QED  BY <1>1, <1>2, HandlerRing, KeepBooks DEF Core

LEMMA RequestCore == ASSUME Core, NEW p \in Proc, fs_init(p) PROVE Core'
<1>1. /\ pc[p] = "start" /\ do_read(p, 0) /\ pc' = [pc EXCEPT ![p] = "table"]
      /\ pages' = pages /\ lost' = lost
  BY DEF fs_init, Goto
<1>2. /\ "table" \in Places /\ "table" \in Sleeping /\ "table" \notin Opening
      /\ "start" \in Mounting /\ "start" \notin Sleeping
  BY DEF Places, Sleeping, Opening, Mounting
<1>3. Phases'
  BY <1>1, <1>2, MovePhases DEF Core
<1>4. Ring'
  BY <1>1, <1>2, FirstAskFits, AskRing DEF Core
<1>5. Books'
  <2>1. Cost("table") = 0 /\ Cost(pc[p]) = 0
    BY <1>1 DEF Cost
  <2>2. pages \in Nat /\ lost \in Nat
    BY DEF Core, Books
  <2>3. pages' \in Nat /\ lost' \in Nat
        /\ pages' + lost' + Cost("table") = pages + lost + Cost(pc[p])
    BY <1>1, <2>1, <2>2
  <2>. QED  BY <1>1, <2>3, MoveBooks
<1>. QED  BY <1>3, <1>4, <1>5 DEF Core

LEMMA NameCore == ASSUME Core, NEW p \in Proc, NEW name, get_name(p, name) PROVE Core'
<1>1. pc[p] = "user" /\ MountingOver /\ pages \in Nat
  BY DEF get_name, Core, Books
<1>2. CASE Halt("wild") /\ lost' = lost
  BY <1>1, <1>2, KeepCore DEF Halt, callVars, ringVars
<1>3. CASE /\ lost' = lost
           /\ \E b, l : pages > 1 /\ get_block(p, b, pages - 1, "dir", l)
  <2>1. PICK b, l : pages > 1 /\ get_block(p, b, pages - 1, "dir", l)
    BY <1>3
  <2>2. PICK a \in Nat : a = pages - 1
    BY <1>1, <2>1
  <2>3. Cost("dir") = 3 /\ Cost(pc[p]) = 0 /\ pc[p] \notin Sleeping
    BY <1>1 DEF Cost, Sleeping
  <2>4. a + Cost("dir") = pages + Cost(pc[p]) + 2
    BY <1>1, <2>2, <2>3
  <2>5. get_block(p, b, a, "dir", l)
    BY <2>1, <2>2
  <2>. QED  BY <1>1, <1>3, <2>3, <2>4, <2>5, BlockCore
<1>4. CASE /\ lost' = lost + pages /\ pages' = 0
           /\ UNCHANGED <<callVars, ringVars>>
  <2>1. PICK f \in Nat, l \in Nat : f = pages /\ l = lost
    BY DEF Core, Books
  <2>2. pc' = [pc EXCEPT ![p] = "user"] /\ Cost("user") = 0 /\ Cost(pc[p]) = 0
    BY <1>1, <1>4 DEF callVars, Core, Phases, Cost
  <2>3. /\ pages' \in Nat /\ lost' \in Nat
        /\ pages' + lost' + Cost("user") = pages + lost + Cost(pc[p])
    BY <1>4, <2>1, <2>2
  <2>4. Books'
    BY <2>2, <2>3, MoveBooks
  <2>5. Phases'
    BY <1>4 DEF callVars, Core, Phases
  <2>6. Ring'
    BY <1>4, KeepRing DEF callVars, ringVars, Core, Ring
  <2>. QED  BY <2>4, <2>5, <2>6 DEF Core
<1>. QED  BY <1>2, <1>3, <1>4 DEF get_name

LEMMA ReadMapCore == ASSUME Core, NEW p \in Proc, read_map(p) PROVE Core'
<1>1. pc[p] = "fat" /\ data[p] # NULL /\ lost' = lost /\ pages \in Nat
  BY DEF read_map, Woken, Core, Books
<1>2. CASE Halt("wild")
  BY <1>1, <1>2, KeepCore DEF Halt, callVars, ringVars
<1>3. CASE \E b, l : get_block(p, b, put_block(pages), "fat", l)
  <2>1. PICK b, l : get_block(p, b, put_block(pages), "fat", l)
    BY <1>3
  <2>2. PICK a \in Nat : a = put_block(pages) /\ a = pages + 2
    BY <1>1 DEF put_block
  <2>3. Cost("fat") = 2 /\ Cost(pc[p]) = 2 /\ pc[p] \in Opening
    BY <1>1 DEF Cost, Opening
  <2>4. a + Cost("fat") = pages + Cost(pc[p]) + 2
    BY <1>1, <2>2, <2>3
  <2>5. get_block(p, b, a, "fat", l)
    BY <2>1, <2>2
  <2>. QED  BY <1>1, <2>3, <2>4, <2>5, BlockCore
<1>. QED  BY <1>2, <1>3 DEF read_map

LEMMA AstrayCore == ASSUME Core, NEW p \in Proc, read_map_astray(p) PROVE Core'
BY KeepCore DEF read_map_astray, Halt, callVars, ringVars

LEMMA FdCore == ASSUME Core, NEW p \in Proc, get_unused_fd(p) PROVE Core'
<1>1. /\ pc[p] = "fat" /\ data[p] # NULL /\ lost' = lost /\ pages \in Nat /\ lost \in Nat
      /\ pages' = pages + 2 /\ Return(p)
  BY DEF get_unused_fd, Woken, Core, Books, put_block
<1>2. Cost(pc[p]) = 2
  BY <1>1 DEF Cost
<1>3. pages' \in Nat /\ lost' \in Nat /\ pages' + lost' = pages + lost + Cost(pc[p])
  BY <1>1, <1>2
<1>. QED  BY <1>1, <1>3, ReturnCore

LEMMA OpenCore == ASSUME Core, NEW p \in Proc, sys_open(p) PROVE Core'
<1>1. pc[p] = "dir" /\ data[p] # NULL /\ pages \in Nat /\ lost \in Nat
  BY DEF sys_open, Woken, Core, Books
<1>2. Cost(pc[p]) = 3 /\ Cost("fat") = 2 /\ pc[p] \in Opening
  BY <1>1 DEF Cost, Opening
<1>3. CASE lost' = lost + 3 /\ Return(p) /\ pages' = pages
  <2>1. pages' \in Nat /\ lost' \in Nat /\ pages' + lost' = pages + lost + Cost(pc[p])
    BY <1>1, <1>2, <1>3
  <2>. QED  BY <1>1, <1>3, <2>1, ReturnCore
<1>4. CASE /\ \E b, l : get_block(p, b, put_block(pages) + 1, "fat", l)
           /\ lost' = lost
  <2>1. PICK b, l : get_block(p, b, put_block(pages) + 1, "fat", l)
    BY <1>4
  <2>2. PICK a \in Nat : a = put_block(pages) + 1 /\ a = pages + 3
    BY <1>1 DEF put_block
  <2>3. a + Cost("fat") = pages + Cost(pc[p]) + 2
    BY <1>1, <1>2, <2>2
  <2>4. get_block(p, b, a, "fat", l)
    BY <2>1, <2>2
  <2>. QED  BY <1>1, <1>2, <1>4, <2>3, <2>4, BlockCore
<1>5. CASE Halt("wild") /\ lost' = lost
  BY <1>5, KeepCore DEF Halt, callVars, ringVars
<1>. QED  BY <1>3, <1>4, <1>5 DEF sys_open

LEMMA TableCore == ASSUME Core, NEW p \in Proc, partition_check(p) PROVE Core'
<1>1. pc[p] = "table" /\ data[p] # NULL /\ pages \in Nat /\ lost \in Nat /\ lost' = lost
  BY DEF partition_check, Woken, Core, Books
<1>2. Cost(pc[p]) = 0 /\ Cost("super") = 2 /\ pc[p] \in Mounting /\ "super" \notin Opening
  BY <1>1 DEF Cost, Mounting, Opening
<1>3. CASE Return(p) /\ pages' = pages
  <2>1. pages' \in Nat /\ lost' \in Nat /\ pages' + lost' = pages + lost + Cost(pc[p])
    BY <1>1, <1>2, <1>3
  <2>. QED  BY <1>1, <1>3, <2>1, ReturnCore
<1>4. CASE \E b, l : get_block(p, b, pages, "super", l)
  <2>1. PICK b, l : get_block(p, b, pages, "super", l)
    BY <1>4
  <2>2. pages + Cost("super") = pages + Cost(pc[p]) + 2
    BY <1>1, <1>2
  <2>. QED  BY <1>1, <1>2, <2>1, <2>2, BlockCore
<1>. QED  BY <1>3, <1>4 DEF partition_check, mount_root

LEMMA SuperCore == ASSUME Core, NEW p \in Proc, read_super(p) PROVE Core'
<1>1. pc[p] = "super" /\ data[p] # NULL /\ pages \in Nat /\ lost \in Nat /\ lost' = lost
  BY DEF read_super, Woken, Core, Books
<1>2. CASE Halt("panic")
  BY <1>1, <1>2, KeepCore DEF Halt, callVars, ringVars
<1>3. CASE Return(p) /\ pages' = put_block(pages)
  <2>1. Cost(pc[p]) = 2
    BY <1>1 DEF Cost
  <2>2. pages' \in Nat /\ lost' \in Nat /\ pages' + lost' = pages + lost + Cost(pc[p])
    BY <1>1, <1>3, <2>1 DEF put_block
  <2>. QED  BY <1>1, <1>3, <2>2, ReturnCore
<1>. QED  BY <1>2, <1>3 DEF read_super, mount_root

LEMMA ForkCore == ASSUME Core, NEW p \in Proc, do_fork(p) PROVE Core'
<1>1. PICK child \in Proc :
        /\ pc[p] \in {"start", "user"} /\ pc[child] = "none"
        /\ pc[p] = "start" => child \in EarlyChildren
        /\ pc' = [pc EXCEPT ![child] = pc[p]]
  BY DEF do_fork
<1>2. /\ UNCHANGED <<want, data, req_buf, req_head, req_tail, req_count, pages, lost>>
  BY DEF do_fork, ringVars
<1>3. /\ pc'[child] = pc[p] /\ \A q \in Proc : q # child => pc'[q] = pc[q]
      /\ pc' \in [Proc -> Places]
  BY <1>1 DEF Core, Phases
<1>4. Phases'
  BY <1>1, <1>3 DEF Core, Phases, Mounting, Opening
<1>5. Ring'
  BY <1>1, <1>2, <1>3, KeepRing DEF Core, Ring, Sleeping
<1>6. Books'
  <2>1. Cost(pc[p]) = 0 /\ Cost(pc[child]) = 0
    BY <1>1 DEF Cost
  <2>2. pages' \in Nat /\ lost' \in Nat
        /\ pages' + lost' + Cost(pc[p]) = pages + lost + Cost(pc[child])
    BY <1>2, <2>1 DEF Core, Books
  <2>. QED  BY <1>1, <2>2, MoveBooks
<1>. QED  BY <1>4, <1>5, <1>6 DEF Core

-----------------------------------------------------------------------------
(***************************************************************************)
(* The types of the tables.                                                *)
(***************************************************************************)
Indices ==
  /\ halted \in {"no", "panic", "wild"}
  /\ root \in [Proc -> (1..INODE_NR) \cup {NULL}]
  /\ openfd \in [Proc -> SUBSET Fds]
  /\ fd_array \in [Proc -> [Fds -> (1..FILP_NR) \cup {NULL}]]
  /\ filp \in [1..FILP_NR -> (1..INODE_NR) \cup {NULL}]
  /\ filp_head \in Seq(1..FILP_NR)
  /\ DOMAIN local = Proc
  /\ \A p \in Proc : /\ DOMAIN local[p] = {"name", "dip", "left"}
                     /\ local[p].dip \in (1..INODE_NR) \cup {NULL}

(***************************************************************************)
(* Only when all mounting is over is a link overwritten and then followed. *)
(***************************************************************************)
Heads ==
  \/ inode_head \in Seq(1..INODE_NR)
  \/ inode_head = <<Astray>> /\ MountingOver

Tables == Indices /\ Heads

LEMMA HeadTyped ==
  ASSUME NEW S, NEW list \in Seq(S), list # <<>>
  PROVE  Head(list) \in S
OBVIOUS

LEMMA SlotsTyped ==
  ASSUME NEW S, NEW list \in Seq(S)
  PROVE  rest_slots(list) \in Seq(S) /\ first_slot(list) \in S \cup {NULL}
<1>1. CASE list = <<>>
  BY <1>1 DEF rest_slots, first_slot
<1>2. CASE list # <<>>
  <2>1. Head(list) \in S /\ Tail(list) \in Seq(S)
    BY <1>2
  <2>. QED  BY <1>2, <2>1 DEF rest_slots, first_slot
<1>. QED  BY <1>1, <1>2

(***************************************************************************)
(* find_zero_bit finds the lowest zero, at the latest behind the Fds.      *)
(***************************************************************************)
LEMMA ZeroBit ==
  ASSUME NEW bits \in SUBSET Fds
  PROVE  find_zero_bit(bits) \in 0..maxopen
<1>0. maxopen \in Nat \ {0}
  BY FilesAssumption
<1>1. PICK zeros \in SUBSET Nat : zeros = {n \in 0..maxopen : n \notin bits}
  <2>1. {n \in 0..maxopen : n \notin bits} \in SUBSET Nat
    BY <1>0
  <2>. QED  BY <2>1
<1>2. maxopen \in zeros
  BY <1>0, <1>1 DEF Fds
<1>3. PICK n \in zeros : \A m \in zeros : n <= m
  BY <1>2, LeastOf
<1>4. n \in 0..maxopen /\ n \notin bits
  BY <1>1
<1>5. 0..(n - 1) \subseteq bits
  <2>1. SUFFICES ASSUME NEW m \in 0..(n - 1) PROVE m \in bits
    OBVIOUS
  <2>2. m \in 0..maxopen /\ ~(n <= m)
    BY <1>0, <1>4
  <2>. QED  BY <1>1, <1>3, <2>2
<1>. QED  BY <1>4, <1>5 DEF find_zero_bit

LEMMA GotoTyped ==
  ASSUME Indices, NEW p \in Proc, NEW where, NEW locals,
         DOMAIN locals = {"name", "dip", "left"},
         locals.dip \in (1..INODE_NR) \cup {NULL},
         Goto(p, where, locals)
  PROVE  /\ DOMAIN local' = Proc
         /\ \A q \in Proc : /\ DOMAIN local'[q] = {"name", "dip", "left"}
                            /\ local'[q].dip \in (1..INODE_NR) \cup {NULL}
BY DEF Indices, Goto

LEMMA BlockTyped ==
  ASSUME Indices, NEW p \in Proc, NEW block, NEW avail, NEW where, NEW locals,
         DOMAIN locals = {"name", "dip", "left"},
         locals.dip \in (1..INODE_NR) \cup {NULL},
         get_block(p, block, avail, where, locals)
  PROVE  /\ halted' \in {"no", "panic", "wild"} /\ DOMAIN local' = Proc
         /\ \A q \in Proc : /\ DOMAIN local'[q] = {"name", "dip", "left"}
                            /\ local'[q].dip \in (1..INODE_NR) \cup {NULL}
<1>1. CASE Halt("panic") \/ Halt("wild")
  BY <1>1 DEF Indices, Halt, callVars
<1>2. CASE Goto(p, where, locals) /\ UNCHANGED halted
  <2>1. halted' \in {"no", "panic", "wild"}
    BY <1>2 DEF Indices
  <2>. QED  BY <1>2, <2>1, GotoTyped
<1>. QED  BY <1>1, <1>2 DEF get_block

LEMMA ReturnTyped ==
  ASSUME Indices, NEW p \in Proc, Return(p)
  PROVE  /\ halted' \in {"no", "panic", "wild"} /\ DOMAIN local' = Proc
         /\ \A q \in Proc : /\ DOMAIN local'[q] = {"name", "dip", "left"}
                            /\ local'[q].dip \in (1..INODE_NR) \cup {NULL}
<1>1. DOMAIN NoLocal = {"name", "dip", "left"} /\ NoLocal.dip \in (1..INODE_NR) \cup {NULL}
  BY DEF NoLocal
<1>2. Goto(p, "user", NoLocal) /\ halted' \in {"no", "panic", "wild"}
  BY DEF Return, Indices
<1>. QED  BY <1>1, <1>2, GotoTyped

LEMMA MountRootTyped ==
  ASSUME Indices, NEW p \in Proc, NEW sb, NEW free \in Seq(1..INODE_NR),
         mount_root(p, sb, free), filp' = filp, filp_head' \in Seq(1..FILP_NR)
  PROVE  Indices'
<1>1. /\ halted' \in {"no", "panic", "wild"} /\ DOMAIN local' = Proc
      /\ \A q \in Proc : /\ DOMAIN local'[q] = {"name", "dip", "left"}
                         /\ local'[q].dip \in (1..INODE_NR) \cup {NULL}
  BY ReturnTyped DEF mount_root
<1>2. first_slot(free) \in (1..INODE_NR) \cup {NULL}
  BY SlotsTyped DEF mount_root
<1>3. root' \in [Proc -> (1..INODE_NR) \cup {NULL}]
  BY <1>2 DEF mount_root, Indices
<1>4. openfd' \in [Proc -> SUBSET Fds] /\ fd_array' = fd_array
  BY DEF mount_root, Indices
<1>. QED  BY <1>1, <1>2, <1>3, <1>4 DEF Indices

LEMMA IndicesStep ==
  ASSUME Indices, Heads, [Next]_vars
  PROVE  Indices'
<1> USE DEF fdVars, slotVars, callVars
<1>0. /\ filp_init \in Seq(1..FILP_NR) /\ inode_init \in Seq(1..INODE_NR)
      /\ NoLocal.dip \in (1..INODE_NR) \cup {NULL}
  BY InitLists DEF NoLocal
<1>1. CASE UNCHANGED vars
  BY <1>1 DEF vars, Indices
<1>2. CASE hd_handlerp
  BY <1>2 DEF hd_handlerp, Indices
<1>3. CASE Halted
  BY <1>3 DEF Halted, vars, Indices
<1>4. ASSUME NEW p \in Proc, fs_init(p) PROVE Indices'
  <2>1. Goto(p, "table", NoLocal)
    BY <1>4 DEF fs_init
  <2>2. /\ DOMAIN local' = Proc
        /\ \A q \in Proc : /\ DOMAIN local'[q] = {"name", "dip", "left"}
                           /\ local'[q].dip \in (1..INODE_NR) \cup {NULL}
    BY <1>0, <2>1, NoLocalShape, GotoTyped
  <2>. QED  BY <1>4, <2>2 DEF fs_init, Indices
<1>5. ASSUME NEW p \in Proc, do_fork(p) PROVE Indices'
  BY <1>5 DEF do_fork, Indices
<1>6. ASSUME NEW p \in Proc, NEW name, get_name(p, name) PROVE Indices'
  <2>1. PICK locals : locals = [NoLocal EXCEPT !.name = name]
    OBVIOUS
  <2>2. /\ DOMAIN locals = {"name", "dip", "left"}
        /\ locals.dip \in (1..INODE_NR) \cup {NULL}
    BY <1>0, <2>1 DEF NoLocal
  <2>3. /\ halted' \in {"no", "panic", "wild"} /\ DOMAIN local' = Proc
        /\ \A q \in Proc : /\ DOMAIN local'[q] = {"name", "dip", "left"}
                           /\ local'[q].dip \in (1..INODE_NR) \cup {NULL}
    <3>1. CASE Halt("wild") \/ UNCHANGED <<halted, callVars>>
      BY <3>1 DEF Halt, Indices
    <3>2. CASE \E b, a : get_block(p, b, a, "dir", locals)
      BY <2>2, <3>2, BlockTyped
    <3>. QED  BY <1>6, <2>1, <3>1, <3>2 DEF get_name
  <2>. QED  BY <1>6, <2>3 DEF get_name, Indices
<1>7. ASSUME NEW p \in Proc, partition_check(p) PROVE Indices'
  <2>1. filp' = filp /\ filp_head' \in Seq(1..FILP_NR)
    BY <1>0, <1>7 DEF partition_check
  <2>2. CASE mount_root(p, super, inode_init)
    BY <1>0, <2>1, <2>2, MountRootTyped
  <2>3. CASE /\ get_block(p, first_log, pages, "super", NoLocal)
             /\ UNCHANGED fdVars
    <3>1. /\ halted' \in {"no", "panic", "wild"} /\ DOMAIN local' = Proc
          /\ \A q \in Proc : /\ DOMAIN local'[q] = {"name", "dip", "left"}
                             /\ local'[q].dip \in (1..INODE_NR) \cup {NULL}
      BY <1>0, <2>3, NoLocalShape, BlockTyped
    <3>. QED  BY <1>0, <2>1, <2>3, <3>1 DEF Indices
  <2>. QED  BY <1>7, <2>2, <2>3 DEF partition_check
<1>8. ASSUME NEW p \in Proc, read_super(p) PROVE Indices'
  <2>1. filp' = filp /\ filp_head' = filp_head
    BY <1>8 DEF read_super
  <2>2. CASE mount_root(p, filled_super(disk.boot), inode_head)
    <3>1. inode_head \in Seq(1..INODE_NR)
      BY <1>8 DEF Heads, read_super, Woken, MountingOver
    <3>. QED  BY <2>1, <2>2, <3>1, MountRootTyped DEF Indices
  <2>3. CASE Halt("panic") /\ UNCHANGED fdVars
    BY <2>1, <2>3 DEF Halt, Indices
  <2>. QED  BY <1>8, <2>2, <2>3 DEF read_super
<1>9. ASSUME NEW p \in Proc, sys_open(p) PROVE Indices'
  <2>1. UNCHANGED <<root, openfd, fd_array, filp, filp_head>>
    BY <1>9 DEF sys_open
  <2>2. get_inode \in (1..INODE_NR) \cup {NULL, Astray}
    <3>1. CASE inode_head \in Seq(1..INODE_NR)
      BY <3>1, SlotsTyped DEF get_inode
    <3>2. CASE inode_head = <<Astray>>
      BY <3>2 DEF get_inode, first_slot
    <3>. QED  BY <3>1, <3>2 DEF Heads
  <2>3. CASE Return(p)
    BY <2>1, <2>3, ReturnTyped DEF Indices
  <2>4. CASE /\ get_inode # Astray
             /\ \E b, a, c : get_block(p, b, a, "fat",
                                       [local[p] EXCEPT !.dip = get_inode, !.left = c])
    <3>1. PICK b, a, c : get_block(p, b, a, "fat",
                                   [local[p] EXCEPT !.dip = get_inode, !.left = c])
      BY <2>4
    <3>2. PICK locals : locals = [local[p] EXCEPT !.dip = get_inode, !.left = c]
      OBVIOUS
    <3>3. /\ DOMAIN locals = {"name", "dip", "left"}
          /\ locals.dip \in (1..INODE_NR) \cup {NULL}
      BY <2>2, <2>4, <3>2 DEF Indices
    <3>4. get_block(p, b, a, "fat", locals)
      BY <3>1, <3>2
    <3>5. /\ halted' \in {"no", "panic", "wild"} /\ DOMAIN local' = Proc
          /\ \A q \in Proc : /\ DOMAIN local'[q] = {"name", "dip", "left"}
                             /\ local'[q].dip \in (1..INODE_NR) \cup {NULL}
      BY <3>3, <3>4, BlockTyped
    <3>. QED  BY <2>1, <3>5 DEF Indices
  <2>5. CASE Halt("wild")
    BY <2>1, <2>5 DEF Halt, Indices
  <2>. QED  BY <1>9, <2>3, <2>4, <2>5 DEF sys_open
<1>10. ASSUME NEW p \in Proc, read_map(p) PROVE Indices'
  <2>1. PICK locals : locals = [local[p] EXCEPT !.left = IF @ > 1 THEN @ - 1 ELSE @]
    OBVIOUS
  <2>2. /\ DOMAIN locals = {"name", "dip", "left"}
        /\ locals.dip \in (1..INODE_NR) \cup {NULL}
    BY <2>1 DEF Indices
  <2>3. get_block(p, FatSector, put_block(pages), "fat", locals) \/ Halt("wild")
    BY <1>10, <2>1 DEF read_map
  <2>4. /\ halted' \in {"no", "panic", "wild"} /\ DOMAIN local' = Proc
        /\ \A q \in Proc : /\ DOMAIN local'[q] = {"name", "dip", "left"}
                           /\ local'[q].dip \in (1..INODE_NR) \cup {NULL}
    <3>1. CASE Halt("wild")
      BY <3>1 DEF Halt, Indices
    <3>2. CASE get_block(p, FatSector, put_block(pages), "fat", locals)
      BY <2>2, <3>2, BlockTyped
    <3>. QED  BY <2>3, <3>1, <3>2
  <2>. QED  BY <1>10, <2>4 DEF read_map, Indices
<1>11. ASSUME NEW p \in Proc, get_unused_fd(p) PROVE Indices'
  <2>1. /\ halted' \in {"no", "panic", "wild"} /\ DOMAIN local' = Proc
        /\ \A q \in Proc : /\ DOMAIN local'[q] = {"name", "dip", "left"}
                           /\ local'[q].dip \in (1..INODE_NR) \cup {NULL}
    BY <1>11, ReturnTyped DEF get_unused_fd
  <2>2. UNCHANGED <<root, inode_head>>
    BY <1>11 DEF get_unused_fd
  <2>3. PICK fd : fd = find_zero_bit(openfd[p])
    OBVIOUS
  <2>4. PICK f : f = get_filp
    OBVIOUS
  <2>5. f \in (1..FILP_NR) \cup {NULL} /\ rest_slots(filp_head) \in Seq(1..FILP_NR)
    BY <2>4, SlotsTyped DEF get_filp, Indices
  <2>6. CASE UNCHANGED <<openfd, fd_array, opened, filp, filp_head>>
    BY <2>1, <2>2, <2>6 DEF Indices
  <2>7. CASE /\ ~out_of_fds(fd)
             /\ openfd' = [openfd EXCEPT ![p] = @ \cup {fd}]
             /\ filp_head' = rest_slots(filp_head)
             /\ \/ UNCHANGED <<fd_array, opened, filp>>
                \/ /\ f # NULL
                   /\ filp' = [filp EXCEPT ![f] = local[p].dip]
                   /\ fd_array' = [fd_array EXCEPT ![p][fd] = f]
    <3>1. fd \in Fds
      <4>1. openfd[p] \in SUBSET Fds
        BY DEF Indices
      <4>2. fd \in 0..maxopen
        BY <2>3, <4>1, ZeroBit
      <4>. QED  BY <2>7, <4>2, FilesAssumption DEF out_of_fds, Fds
    <3>2. openfd' \in [Proc -> SUBSET Fds]
      BY <2>7, <3>1 DEF Indices
    <3>3. fd_array' \in [Proc -> [Fds -> (1..FILP_NR) \cup {NULL}]]
      <4>1. fd_array[p] \in [Fds -> (1..FILP_NR) \cup {NULL}]
        BY DEF Indices
      <4>2. PICK row : row = [fd_array[p] EXCEPT ![fd] = f]
        OBVIOUS
      <4>3. row \in [Fds -> (1..FILP_NR) \cup {NULL}]
        BY <2>5, <3>1, <4>1, <4>2
      <4>4. fd_array' = fd_array \/ fd_array' = [fd_array EXCEPT ![p] = row]
        BY <2>7, <4>2
      <4>. QED  BY <4>3, <4>4 DEF Indices
    <3>4. filp' \in [1..FILP_NR -> (1..INODE_NR) \cup {NULL}]
      BY <2>5, <2>7 DEF Indices
    <3>. QED  BY <2>1, <2>2, <2>5, <2>7, <3>2, <3>3, <3>4 DEF Indices
  <2>. QED  BY <1>11, <2>3, <2>4, <2>6, <2>7 DEF get_unused_fd
<1>12. ASSUME NEW p \in Proc, read_map_astray(p) PROVE Indices'
  BY <1>12 DEF read_map_astray, Halt, Indices
<1>. QED  BY <1>1, <1>2, <1>3, <1>4, <1>5, <1>6, <1>7, <1>8, <1>9, <1>10, <1>11, <1>12
          DEF Next, Call, GoOn

LEMMA HeadsStep ==
  ASSUME Phases, Heads, [Next]_vars
  PROVE  Heads'
<1>0. MountingOver => MountingOver'
  BY OverStays DEF Phases
<1>1. CASE inode_head' = inode_head
  BY <1>0, <1>1 DEF Heads
<1>2. ASSUME NEW p \in Proc, partition_check(p) \/ read_super(p) PROVE Heads'
  <2>1. inode_head \in Seq(1..INODE_NR)
    BY <1>2 DEF partition_check, read_super, Woken, MountingOver, Heads
  <2>2. inode_head' \in {inode_head, inode_init, rest_slots(inode_head),
                         rest_slots(inode_init)}
    BY <1>2 DEF partition_check, read_super, mount_root
  <2>. QED  BY <2>1, <2>2, InitLists, SlotsTyped DEF Heads
<1>3. ASSUME NEW p \in Proc, sys_open(p), inode_head' # inode_head PROVE Heads'
  <2>1. MountingOver
    BY <1>3 DEF sys_open, Woken, Phases, Mounting, Opening, MountingOver
  <2>2. get_inode # Astray /\ inode_head' \in {<<Astray>>, rest_slots(inode_head)}
    BY <1>3 DEF sys_open, next_slots
  <2>3. inode_head \in Seq(1..INODE_NR)
    BY <2>2 DEF Heads, get_inode, first_slot
  <2>. QED  BY <1>0, <2>1, <2>2, <2>3, SlotsTyped DEF Heads
<1>. QED  BY <1>1, <1>2, <1>3
          DEF Next, Call, GoOn, hd_handlerp, Halted, vars, slotVars, fs_init, do_fork,
              get_name, read_map, read_map_astray, get_unused_fd

LEMMA TablesStep ==
  ASSUME Core, Tables, [Next]_vars
  PROVE  Tables'
BY IndicesStep, HeadsStep DEF Core, Tables

LEMMA InitCore == Init => Core /\ Tables
<1> SUFFICES ASSUME Init PROVE Core /\ Tables
  OBVIOUS
<1>0. MaxProc \in Nat \ {0} /\ NR_PAGES \in Nat /\ BUF_SIZE \in Nat \ {0}
  BY FilesAssumption, EarlyFinite
<1>1. pc \in [Proc -> Places] /\ \A p \in Proc : pc[p] = IF p = 1 THEN "start" ELSE "none"
  BY DEF Init, Places
<1>2. Phases
  <2>1. \A p \in Proc : pc[p] \in Mounting => p = 1
    BY <1>1 DEF Mounting
  <2>2. \A p \in Proc : pc[p] \notin Opening
    BY <1>1 DEF Opening
  <2>. QED  BY <1>1, <2>1, <2>2 DEF Phases
<1>3. Ring
  <2>1. req_head = 0 /\ req_tail = 0 /\ req_count = 0 /\ Slot(0, 0) = 0
    BY <1>0 DEF Init, hd_init, Slot
  <2>2. DOMAIN req_buf = 0..(BUF_SIZE - 1) /\ DOMAIN data = Proc /\ DOMAIN want = Proc
    BY DEF Init, hd_init
  <2>3. \A p \in Proc : want[p] = NULL
    BY DEF Init
  <2>4. 0..(req_count - 1) = {} /\ req_head \in 0..(BUF_SIZE - 1) /\ req_count \in 0..BUF_SIZE
    BY <1>0, <2>1
  <2>5. req_tail = Slot(req_head, req_count)
    BY <2>1
  <2>6. DOMAIN pc = Proc
    BY <1>1
  <2>. QED  BY <2>2, <2>3, <2>4, <2>5, <2>6 DEF Ring
<1>4. Books
  <2>1. {p \in Proc : pc[p] = "dir"} = {} /\ {p \in Proc : pc[p] \in {"super", "fat"}} = {}
    BY <1>1
  <2>2. HeldPages = 0
    <3>1. PICK n : n = Cardinality({})
      OBVIOUS
    <3>2. n = 0
      BY <3>1, FS_EmptySet
    <3>3. HeldPages = 3 * n + 2 * n
      BY <2>1, <3>1 DEF HeldPages
    <3>. QED  BY <3>2, <3>3
  <2>3. pages = NR_PAGES /\ lost = 0
    BY DEF Init
  <2>. QED  BY <1>0, <2>2, <2>3 DEF Books
<1>5. Tables
  <2>1. /\ halted \in {"no", "panic", "wild"} /\ root \in [Proc -> (1..INODE_NR) \cup {NULL}]
        /\ openfd \in [Proc -> SUBSET Fds]
    BY DEF Init, proc_fd_init
  <2>2. /\ NoFds \in [Fds -> (1..FILP_NR) \cup {NULL}]
        /\ fd_array = [p \in Proc |-> NoFds]
    BY DEF Init, proc_fd_init, NoFds
  <2>3. fd_array \in [Proc -> [Fds -> (1..FILP_NR) \cup {NULL}]]
    BY <2>2
  <2>4. /\ filp \in [1..FILP_NR -> (1..INODE_NR) \cup {NULL}]
        /\ inode_head \in Seq(1..INODE_NR) /\ filp_head \in Seq(1..FILP_NR)
    BY DEF Init
  <2>5. DOMAIN local = Proc /\ \A p \in Proc : local[p] = NoLocal
    BY DEF Init
  <2>6. DOMAIN NoLocal = {"name", "dip", "left"} /\ NoLocal.dip \in (1..INODE_NR) \cup {NULL}
    BY DEF NoLocal
  <2>. QED  BY <2>1, <2>3, <2>4, <2>5, <2>6 DEF Tables, Indices, Heads
<1>. QED  BY <1>2, <1>3, <1>4, <1>5 DEF Core

LEMMA CoreStep ==
  ASSUME Core, [Next]_vars
  PROVE  Core'
<1>1. CASE UNCHANGED vars
  BY <1>1, KeepCore DEF vars, callVars, ringVars
<1>2. CASE hd_handlerp
  BY <1>2, HandlerCore
<1>3. CASE Halted
  BY <1>3, KeepCore DEF Halted, vars, callVars, ringVars
<1>4. ASSUME NEW p \in Proc, Call(p) PROVE Core'
  BY <1>4, RequestCore, ForkCore, NameCore DEF Call
<1>5. ASSUME NEW p \in Proc, GoOn(p) PROVE Core'
  BY <1>5, TableCore, SuperCore, OpenCore, ReadMapCore, AstrayCore, FdCore DEF GoOn
<1>. QED  BY <1>1, <1>2, <1>3, <1>4, <1>5 DEF Next

(***************************************************************************)
(* Free and lost pages are parts of a sum that is NR_PAGES.                *)
(***************************************************************************)
LEMMA CoreTypes ==
  ASSUME Core, Tables
  PROVE  TypeOK
<1>1. pages \in 0..NR_PAGES /\ lost \in 0..NR_PAGES
  <2>1. PICK a \in Nat : a = pages
    BY DEF Core, Books
  <2>2. PICK b \in Nat : b = lost
    BY DEF Core, Books
  <2>3. PICK c \in Nat : c = HeldPages
    BY HeldType
  <2>4. a + b + c = NR_PAGES
    BY <2>1, <2>2, <2>3 DEF Core, Books
  <2>5. a \in 0..NR_PAGES /\ b \in 0..NR_PAGES
    BY <2>4, FilesAssumption
  <2>. QED  BY <2>1, <2>2, <2>5
<1>2. /\ req_head \in 0..(BUF_SIZE - 1) /\ req_count \in 0..BUF_SIZE
      /\ req_tail = Slot(req_head, req_count)
  BY DEF Core, Ring
<1>3. req_tail \in 0..(BUF_SIZE - 1)
  BY <1>2, SlotType
<1>4. pc \in [Proc -> {"none", "start", "user", "table", "super", "dir", "fat"}]
  BY DEF Core, Phases, Places
<1>. QED  BY <1>1, <1>2, <1>3, <1>4 DEF Tables, Indices, TypeOK

(***************************************************************************)
(* TypeOK: whatever processes mount, open and fork, every index stays in   *)
(* its array: descriptors in fd_array (open.c:55-62), slots in their       *)
(* tables, the two pointers of the request ring in the ring.               *)
(***************************************************************************)
THEOREM TypeOKHolds == Spec => []TypeOK
<1>1. Init => Core /\ Tables
  BY InitCore
<1>2. Core /\ Tables /\ [Next]_vars => Core' /\ Tables'
  BY CoreStep, TablesStep
<1>3. Core /\ Tables => TypeOK
  BY CoreTypes
<1>. QED  BY <1>1, <1>2, <1>3, PTL DEF Spec

(***************************************************************************)
(* DataIsAsked: what the drive delivers to a sleeping process is the       *)
(* sector it asked for, for every number of processes, every size of the   *)
(* ring and however often its pointers wrap (hd.c:59-90, 265-283).         *)
(***************************************************************************)
THEOREM DataIsAskedHolds == Spec => []DataIsAsked
<1>1. Init => Core
  BY InitCore
<1>2. Core /\ [Next]_vars => Core'
  BY CoreStep
<1>3. Core => DataIsAsked
  BY RingAnswers DEF Core
<1>. QED  BY <1>1, <1>2, <1>3, PTL DEF Spec

(***************************************************************************)
(* PagesAccounted: every page that is not free is held by a call that is   *)
(* under way or was lost at open.c:133; no other path of mounting and      *)
(* opening loses a page or gives one back twice (block.c:12-28).           *)
(***************************************************************************)
THEOREM PagesAccountedHolds == Spec => []PagesAccounted
<1>1. Init => Core
  BY InitCore
<1>2. Core /\ [Next]_vars => Core'
  BY CoreStep
<1>3. Core => PagesAccounted
  BY DEF Core, Books, PagesAccounted
<1>. QED  BY <1>1, <1>2, <1>3, PTL DEF Spec

-----------------------------------------------------------------------------
(***************************************************************************)
(* Mounting.  What a formatter promises of a volume: its root directory    *)
(* takes as few sectors as its entries need, the clusters are those that   *)
(* fit behind it, and their number is the kind of FAT.                     *)
(***************************************************************************)
TableSectors(bs) == bs.reserved + bs.fat_number * fatsz(bs)

RootSectors(bs, n) == (n - 1) * 512 < bs.dir_number * 32 /\ bs.dir_number * 32 <= n * 512

ClustersFit(bs, start, n) ==
  /\ n * bs.cluster_size <= totsec(bs) - start
  /\ totsec(bs) - start < (n + 1) * bs.cluster_size

Volume(d) ==
  /\ d.boot.cluster_size \in Nat \ {0} /\ d.boot.reserved \in Nat
  /\ d.boot.fat_number \in Nat /\ fatsz(d.boot) \in Nat /\ totsec(d.boot) \in Nat
  /\ d.boot.dir_number \in Nat /\ d.boot.rootclus \in Nat /\ d.first_log \in Nat
  /\ \E n \in Nat : RootSectors(d.boot, n) /\ d.data = TableSectors(d.boot) + n
  /\ \E n \in Nat : /\ ClustersFit(d.boot, d.data, n)
                    /\ d.kind = IF n < 4085 THEN 1 ELSE IF n < 65525 THEN 2 ELSE 3
  /\ d.root = IF d.kind = 3 THEN d.data + (d.boot.rootclus - 2) * d.boot.cluster_size
              ELSE TableSectors(d.boot)

Formatted == \A d \in Disks : d.boot.sector_size = 512 => Volume(d)

(***************************************************************************)
(* Init mounts, and at most one of its early children: with a third, the   *)
(* inode lists made by one could reach over a root another has taken.      *)
(***************************************************************************)
TwoMounters == \A x, y \in EarlyChildren : x = y

Mounters == EarlyChildren \cup {1}

RootDir == [id |-> NULL, block |-> first_log + disk.root, clusters |-> 0]

Layout(sb) ==
  /\ sb.type = disk.kind /\ sb.dir_first_sec = first_log + disk.root
  /\ sb.data_first_sec = first_log + disk.data /\ sb.base = first_log /\ sb.dev = 1

SuperFields == {"dev", "base", "resvdseccnt", "cluster_size", "type", "data_first_sec",
                "dir_first_sec", "rootdir"}

(***************************************************************************)
(* The invariant.  Before the volume is mounted nobody has a root, and who *)
(* sleeps on the boot sector left the full list of inodes.  Later the one  *)
(* who is still mounting finds the first inode, and only it, taken.  Roots *)
(* are taken first, so they are below all that files get.                  *)
(***************************************************************************)
Unmounted ==
  super.dev = 0 =>
    /\ \A p \in Proc : root[p] = NULL /\ pc[p] \in Mounting \cup {"none"}
    /\ \A p \in Proc : pc[p] = "super" => inode_head = inode_init /\ super.base = first_log

Mounted ==
  super.dev # 0 =>
    /\ Layout(super)
    /\ \E m \in Mounters : m \in Proc /\ pc[m] \notin Mounting \cup {"none"}
    /\ \A q \in Proc : pc[q] \in Mounting => \A p \in Proc : root[p] \in {NULL, 1}
    /\ \A p \in Proc : pc[p] = "super" => inode_head = rest_slots(inode_init)

Below(x, list) == \A k \in 1..Len(list) : list[k] = Astray \/ x < list[k]

Increasing(list) == \A j, k \in 1..Len(list) : j < k => list[j] < list[k]

RootsKept ==
  \A p \in Proc : root[p] # NULL => inode[root[p]] = RootDir /\ Below(root[p], inode_head)

Slots ==
  /\ disk \in Disks /\ DOMAIN inode = 1..INODE_NR /\ DOMAIN super = SuperFields
  /\ Increasing(inode_head)

Mount == Slots /\ Unmounted /\ Mounted /\ RootsKept

-----------------------------------------------------------------------------
(***************************************************************************)
(* What read_super computes is what the volume is.                         *)
(***************************************************************************)
LEMMA Quotient ==
  ASSUME NEW a \in Int, NEW b \in Nat \ {0}, NEW n \in Nat, n * b <= a, a < (n + 1) * b
  PROVE  a \div b = n
<1>1. PICK q \in Int : q = a \div b
  OBVIOUS
<1>2. b * q <= a /\ a < b * q + b
  BY <1>1
<1>3. ASSUME q < n PROVE FALSE
  <2>1. b * (q + 1) <= b * n
    BY <1>3
  <2>2. b * (q + 1) = b * q + b /\ n * b = b * n
    OBVIOUS
  <2>. QED  BY <1>2, <2>1, <2>2
<1>4. ASSUME n < q PROVE FALSE
  <2>1. b * (n + 1) <= b * q
    BY <1>4
  <2>2. (n + 1) * b = b * (n + 1)
    OBVIOUS
  <2>. QED  BY <1>2, <2>1, <2>2
<1>. QED  BY <1>1, <1>3, <1>4

LEMMA FilledIsVolume ==
  ASSUME Formatted, disk \in Disks, disk.boot.sector_size = 512,
         DOMAIN super = SuperFields, super.base = first_log
  PROVE  Layout(filled_super(disk.boot)) /\ DOMAIN filled_super(disk.boot) = SuperFields
<1>0. Volume(disk)
  BY DEF Formatted
<1>1. PICK bs : bs = disk.boot
  OBVIOUS
<1>2. PICK r \in Nat : RootSectors(bs, r) /\ disk.data = TableSectors(bs) + r
  BY <1>0, <1>1 DEF Volume
<1>3. PICK n \in Nat : /\ ClustersFit(bs, disk.data, n)
                       /\ disk.kind = IF n < 4085 THEN 1 ELSE IF n < 65525 THEN 2 ELSE 3
  BY <1>0, <1>1 DEF Volume
<1>4. PICK t \in Nat : t = TableSectors(bs)
  <2>1. PICK x \in Nat, y \in Nat, z \in Nat :
          x = bs.reserved /\ y = bs.fat_number /\ z = fatsz(bs)
    BY <1>0, <1>1 DEF Volume
  <2>2. x + y * z \in Nat
    OBVIOUS
  <2>. QED  BY <2>1, <2>2 DEF TableSectors
<1>5. rootdirsectors(bs) = r
  <2>1. PICK e \in Nat : e = bs.dir_number
    BY <1>0, <1>1 DEF Volume
  <2>2. (r - 1) * 512 < e * 32 /\ e * 32 <= r * 512
    BY <1>2, <2>1 DEF RootSectors
  <2>3. (e * 32 + (512 - 1)) \div 512 = r
    BY <2>2
  <2>. QED  BY <1>1, <2>1, <2>3 DEF rootdirsectors
<1>6. PICK c \in Nat \ {0} : c = bs.cluster_size
  BY <1>0, <1>1 DEF Volume
<1>7. countofclusters(bs) = n
  <2>1. PICK s \in Nat : s = totsec(bs)
    BY <1>0, <1>1 DEF Volume
  <2>2. n * c <= s - (t + r) /\ s - (t + r) < (n + 1) * c
    BY <1>2, <1>3, <1>4, <1>6, <2>1 DEF ClustersFit
  <2>3. (s - (t + r)) \div c = n
    <3>1. PICK a \in Int : a = s - (t + r)
      OBVIOUS
    <3>2. a \div c = n
      BY <2>2, <3>1, Quotient
    <3>. QED  BY <3>1, <3>2
  <2>. QED  BY <1>4, <1>5, <1>6, <2>1, <2>3 DEF countofclusters, TableSectors
<1>8. PICK f \in Nat : f = first_log
  BY <1>0 DEF Volume, first_log
<1>9. super.base + bs.reserved + bs.fat_number * fatsz(bs) = f + t
  <2>1. PICK x \in Nat, y \in Nat, z \in Nat :
          x = bs.reserved /\ y = bs.fat_number /\ z = fatsz(bs)
    BY <1>0, <1>1 DEF Volume
  <2>2. t = x + y * z
    BY <1>4, <2>1 DEF TableSectors
  <2>3. f + x + y * z = f + (x + y * z)
    OBVIOUS
  <2>. QED  BY <1>8, <2>1, <2>2, <2>3
<1>10. PICK fats : fats = super.base + bs.reserved + bs.fat_number * fatsz(bs)
  OBVIOUS
<1>11. PICK kind : kind = IF countofclusters(bs) < 4085 THEN 1
                          ELSE IF countofclusters(bs) < 65525 THEN 2 ELSE 3
  OBVIOUS
<1>12. PICK sb : sb = [super EXCEPT !.dev = 1, !.resvdseccnt = bs.reserved,
                                    !.cluster_size = bs.cluster_size, !.type = kind,
                                    !.data_first_sec = fats + rootdirsectors(bs)]
  OBVIOUS
<1>13. /\ DOMAIN sb = SuperFields /\ sb.dev = 1 /\ sb.cluster_size = c
       /\ sb.type = disk.kind /\ sb.data_first_sec = f + t + r /\ sb.base = f
  <2>1. PICK m \in Nat : m = countofclusters(bs) /\ m = n
    BY <1>7
  <2>2. kind = disk.kind
    BY <1>3, <1>11, <2>1
  <2>3. fats + rootdirsectors(bs) = f + t + r
    BY <1>5, <1>9, <1>10
  <2>. QED  BY <1>6, <1>8, <1>12, <2>2, <2>3 DEF SuperFields
<1>14. filled_super(bs) = [sb EXCEPT !.dir_first_sec =
                             IF sb.type = 3 THEN FstSecofDataClu(sb, bs.rootclus) ELSE fats]
  BY <1>10, <1>11, <1>12 DEF filled_super
<1>15. disk.data = t + r /\ f + t + r = f + disk.data
  BY <1>2, <1>4
<1>16. (IF sb.type = 3 THEN FstSecofDataClu(sb, bs.rootclus) ELSE fats) = f + disk.root
  <2>1. PICK k \in Nat : k = bs.rootclus
    BY <1>0, <1>1 DEF Volume
  <2>2. disk.root = IF disk.kind = 3 THEN t + r + (k - 2) * c ELSE t
    BY <1>0, <1>1, <1>4, <1>6, <1>15, <2>1 DEF Volume
  <2>3. FstSecofDataClu(sb, bs.rootclus) = (k - 2) * c + (f + t + r)
    BY <1>13, <2>1 DEF FstSecofDataClu
  <2>4. (k - 2) * c + (f + t + r) = f + (t + r + (k - 2) * c)
    <3>1. PICK w \in Int : w = (k - 2) * c
      OBVIOUS
    <3>2. w + (f + t + r) = f + (t + r + w)
      OBVIOUS
    <3>. QED  BY <3>1, <3>2
  <2>5. fats = f + t
    BY <1>9, <1>10
  <2>. QED  BY <1>13, <2>2, <2>3, <2>4, <2>5
<1>17. /\ filled_super(bs).dir_first_sec = f + disk.root
       /\ filled_super(bs).dev = 1 /\ filled_super(bs).base = f
       /\ filled_super(bs).type = disk.kind /\ filled_super(bs).data_first_sec = f + disk.data
       /\ DOMAIN filled_super(bs) = SuperFields
  BY <1>13, <1>14, <1>15, <1>16 DEF SuperFields
<1>. QED  BY <1>1, <1>8, <1>17 DEF Layout

(***************************************************************************)
(* Steps that take no inode and mount nothing.                             *)
(***************************************************************************)
Begins(p) == pc[p] = "start" /\ pc'[p] = "table"

GoesOn(p) == pc[p] \notin Mounting \cup {"none"} /\ pc'[p] \notin Mounting \cup {"none"}

LEMMA KeepMount ==
  ASSUME Mount, UNCHANGED <<disk, root, super, inode, inode_head>>,
         \A p \in Proc : pc'[p] = pc[p] \/ Begins(p) \/ GoesOn(p)
  PROVE  Mount'
<1>1. Slots' /\ RootsKept'
  BY DEF Mount, Slots, RootsKept, RootDir, first_log
<1>2. Unmounted'
  BY DEF Mount, Unmounted, Begins, GoesOn, Mounting, first_log
<1>3. Mounted'
  BY DEF Mount, Mounted, Begins, GoesOn, Mounting, Layout, first_log
<1>. QED  BY <1>1, <1>2, <1>3 DEF Mount

LEMMA BlockMount ==
  ASSUME Mount, Core, NEW p \in Proc, NEW b, NEW a, NEW where \in {"dir", "fat"}, NEW l,
         get_block(p, b, a, where, l), pc[p] \in {"user", "dir", "fat"},
         UNCHANGED <<disk, root, super, inode, inode_head>>
  PROVE  Mount'
<1>1. CASE \E how \in {"panic", "wild"} : Halt(how)
  BY <1>1, KeepMount DEF Halt, callVars
<1>2. CASE Goto(p, where, l)
  <2>1. pc' = [pc EXCEPT ![p] = where] /\ DOMAIN pc = Proc
    BY <1>2 DEF Goto, Core, Phases
  <2>2. \A q \in Proc : pc'[q] = pc[q] \/ GoesOn(q)
    BY <2>1 DEF GoesOn, Mounting
  <2>. QED  BY <2>2, KeepMount
<1>. QED  BY <1>1, <1>2 DEF get_block

LEMMA TakeLowest ==
  ASSUME NEW list \in Seq(0..INODE_NR), Increasing(list), list # <<>>, Head(list) # Astray
  PROVE  /\ first_slot(list) = Head(list) /\ rest_slots(list) = Tail(list)
         /\ Increasing(Tail(list)) /\ Below(Head(list), Tail(list))
         /\ \A x : Below(x, list) => x < Head(list) /\ Below(x, Tail(list))
<1>1. /\ first_slot(list) = Head(list) /\ rest_slots(list) = Tail(list)
      /\ Head(list) = list[1] /\ Len(list) \in Nat \ {0}
      /\ Len(Tail(list)) = Len(list) - 1
  BY DEF first_slot, rest_slots
<1>2. \A k \in 1..Len(Tail(list)) : Tail(list)[k] = list[k + 1] /\ k + 1 \in 1..Len(list)
  BY <1>1
<1>3. Increasing(Tail(list))
  BY <1>1, <1>2 DEF Increasing
<1>4. Below(Head(list), Tail(list))
  BY <1>1, <1>2 DEF Increasing, Below
<1>5. \A x : Below(x, list) => x < Head(list) /\ Below(x, Tail(list))
  BY <1>1, <1>2 DEF Below
<1>. QED  BY <1>1, <1>3, <1>4, <1>5

LEMMA FirstInode ==
  /\ inode_init # <<>> /\ Head(inode_init) = 1 /\ Below(1, Tail(inode_init))
  /\ Increasing(inode_init)
  /\ rest_slots(inode_init) = Tail(inode_init) /\ first_slot(inode_init) = 1
<1>1. PICK n \in Nat \ {0} : n = INODE_NR
  BY FilesAssumption
<1>2. inode_init = [i \in 1..n |-> i] /\ inode_init \in Seq(1..n) /\ Len(inode_init) = n
  BY <1>1 DEF inode_init, init_slot
<1>3. inode_init # <<>> /\ Head(inode_init) = 1
  BY <1>2
<1>4. Increasing(inode_init)
  BY <1>2 DEF Increasing
<1>5. inode_init \in Seq(0..INODE_NR) /\ Head(inode_init) # Astray
  BY <1>3, InitLists DEF Astray
<1>. QED  BY <1>3, <1>4, <1>5, TakeLowest

LEMMA SecondInode ==
  ASSUME EarlyChildren # {}
  PROVE  Tail(inode_init) # <<>>
<1>1. IsFiniteSet(EarlyChildren) /\ Cardinality(EarlyChildren) \in Nat
  BY EarlyFinite
<1>2. Cardinality(EarlyChildren) # 0
  BY <1>1, FS_EmptySet
<1>3. PICK c \in Nat \ {0} : c = Cardinality(EarlyChildren)
  BY <1>1, <1>2
<1>4. PICK n \in Nat : n = INODE_NR /\ n > c
  BY <1>3, FilesAssumption
<1>5. inode_init = [i \in 1..n |-> i] /\ inode_init \in Seq(1..n) /\ Len(inode_init) = n
  BY <1>4 DEF inode_init, init_slot
<1>6. Len(Tail(inode_init)) = n - 1
  BY <1>3, <1>4, <1>5
<1>. QED  BY <1>3, <1>4, <1>6

(***************************************************************************)
(* The end of fs_init, for a mounter whose new list of inodes is `free'.   *)
(***************************************************************************)
LEMMA RootTaken ==
  ASSUME Mount, Core, Tables, NEW p \in Proc, pc[p] \in Mounting, disk' = disk,
         NEW sb, Layout(sb), DOMAIN sb = SuperFields,
         NEW free \in Seq(1..INODE_NR), Increasing(free), free # <<>>,
         \A q \in Proc : root[q] # NULL =>
           inode[root[q]] = RootDir /\ (root[q] = Head(free) \/ Below(root[q], free)),
         \A q, r \in Proc : q # p /\ pc[q] \in Mounting => root[r] \in {NULL, 1} /\ Head(free) = 1,
         \A q \in Proc : q # p /\ pc[q] = "super" => Tail(free) = rest_slots(inode_init),
         mount_root(p, sb, free)
  PROVE  Mount'
<1>1. PICK rip \in 1..INODE_NR : rip = Head(free)
  <2>1. Head(free) \in 1..INODE_NR
    BY HeadTyped
  <2>. QED  BY <2>1
<1>2. /\ first_slot(free) = rip /\ rest_slots(free) = Tail(free) /\ Increasing(Tail(free))
      /\ Below(rip, Tail(free))
      /\ \A x : Below(x, free) => Below(x, Tail(free))
  <2>1. free \in Seq(0..INODE_NR) /\ Head(free) # Astray
    BY <1>1, FilesAssumption DEF Astray
  <2>. QED  BY <1>1, <2>1, TakeLowest
<1>3. PICK rec : rec = [id |-> NULL, block |-> sb.dir_first_sec, clusters |-> 0]
  OBVIOUS
<1>4. rec = RootDir /\ RootDir' = RootDir /\ first_log' = first_log
  BY <1>3 DEF Layout, RootDir, first_log
<1>5. /\ inode_head' = Tail(free) /\ super' = [sb EXCEPT !.rootdir = rip]
      /\ inode' = [inode EXCEPT ![rip] = rec] /\ root' = [root EXCEPT ![p] = rip]
  BY <1>2, <1>3 DEF mount_root
<1>6. pc' = [pc EXCEPT ![p] = "user"] /\ DOMAIN pc = Proc /\ p \in Mounters
  BY DEF mount_root, Return, Goto, Core, Phases, Mounters
<1>7. Slots'
  BY <1>2, <1>5 DEF Mount, Slots
<1>8. Layout(super)' /\ super'.dev # 0
  BY <1>4, <1>5 DEF Layout, SuperFields
<1>9. root'[p] = rip /\ \A q \in Proc : q # p => root'[q] = root[q]
  BY <1>5 DEF Tables, Indices
<1>10. ASSUME NEW q \in Proc, root'[q] # NULL
       PROVE  inode'[root'[q]] = RootDir /\ Below(root'[q], Tail(free))
  <2>1. CASE root'[q] = rip
    BY <1>1, <1>2, <1>4, <1>5, <2>1 DEF Mount, Slots
  <2>2. CASE root'[q] # rip
    <3>1. root'[q] = root[q] /\ root[q] # NULL
      BY <1>9, <1>10, <2>2
    <3>2. inode[root[q]] = RootDir /\ Below(root[q], free)
      BY <1>1, <2>2, <3>1
    <3>3. inode'[root[q]] = inode[root[q]]
      BY <1>5, <2>2, <3>1, <3>2 DEF Tables, Indices, Mount, Slots
    <3>. QED  BY <1>2, <3>1, <3>2, <3>3
  <2>. QED  BY <2>1, <2>2
<1>11. RootsKept'
  BY <1>4, <1>5, <1>10 DEF RootsKept
<1>12. Mounted'
  <2>1. p \in Proc /\ pc'[p] \notin Mounting \cup {"none"}
    BY <1>6 DEF Mounting
  <2>2. ASSUME NEW q \in Proc, pc'[q] \in Mounting
        PROVE  q # p /\ pc[q] = pc'[q]
    BY <1>6, <2>1, <2>2
  <2>3. ASSUME NEW q \in Proc, pc'[q] \in Mounting, NEW r \in Proc
        PROVE  root'[r] \in {NULL, 1}
    <3>1. root[r] \in {NULL, 1} /\ Head(free) = 1
      BY <2>2, <2>3
    <3>2. root'[r] = root[r] \/ root'[r] = rip
      BY <1>9
    <3>. QED  BY <1>1, <3>1, <3>2
  <2>4. ASSUME NEW q \in Proc, pc'[q] = "super" PROVE inode_head' = rest_slots(inode_init)'
    <3>1. q # p /\ pc[q] = "super"
      BY <2>2, <2>4 DEF Mounting
    <3>. QED  BY <1>5, <3>1 DEF rest_slots, inode_init, init_slot
  <2>5. Mounters' = Mounters /\ p \in Mounters
    BY <1>6 DEF Mounters
  <2>. QED  BY <1>8, <2>1, <2>3, <2>4, <2>5 DEF Mounted
<1>13. Unmounted'
  BY <1>8 DEF Unmounted
<1>. QED  BY <1>7, <1>11, <1>12, <1>13 DEF Mount

(***************************************************************************)
(* With two mounters, one of whom is done, the other is alone.             *)
(***************************************************************************)
LEMMA Alone ==
  ASSUME TwoMounters, Core, Mounted, super.dev # 0, NEW p \in Proc, pc[p] \in Mounting
  PROVE  /\ \A q \in Proc : q # p => pc[q] \notin Mounting
         /\ EarlyChildren # {}
<1>1. PICK m \in Mounters : m \in Proc /\ pc[m] \notin Mounting \cup {"none"}
  BY DEF Mounted
<1>2. \A q \in Proc : pc[q] \in Mounting => q \in Mounters
  BY DEF Core, Phases, Mounters
<1>3. \A x, y, z \in Mounters : x = y \/ y = z \/ x = z
  BY DEF Mounters, TwoMounters
<1>4. ASSUME NEW q \in Proc, q # p, pc[q] \in Mounting PROVE FALSE
  <2>1. q \in Mounters /\ p \in Mounters /\ m # p /\ m # q
    BY <1>1, <1>2, <1>4
  <2>. QED  BY <1>3, <1>4, <2>1
<1>5. m # p /\ p \in Mounters
  BY <1>1, <1>2
<1>6. EarlyChildren # {}
  BY <1>5 DEF Mounters
<1>. QED  BY <1>4, <1>6

LEMMA TableMounts ==
  ASSUME TwoMounters, Mount, Core, Tables, NEW p \in Proc, partition_check(p)
  PROVE  Mount'
<1>1. pc[p] = "table" /\ disk' = disk /\ pc[p] \in Mounting /\ DOMAIN pc = Proc
  BY DEF partition_check, Woken, Mounting, Core, Phases
<1>2. first_log' = first_log /\ RootDir' = RootDir
  BY <1>1 DEF first_log, RootDir
<1>3. inode_init \in Seq(1..INODE_NR) /\ Increasing(inode_init) /\ inode_init' = inode_init
  BY InitLists, FirstInode DEF inode_init, init_slot
<1>4. CASE get_super(1) /\ mount_root(p, super, inode_init)
  <2>1. super.dev # 0 /\ Layout(super) /\ DOMAIN super = SuperFields
    BY <1>4 DEF get_super, Mount, Mounted, Slots
  <2>2. \A q \in Proc : root[q] \in {NULL, 1}
    BY <1>1, <2>1 DEF Mount, Mounted
  <2>3. Below(1, Tail(inode_init)) /\ Head(inode_init) = 1 /\ inode_init # <<>>
    BY FirstInode
  <2>4. \A q \in Proc : q # p => pc[q] \notin Mounting
    BY <1>1, <2>1, Alone DEF Mount
  <2>5. \A q \in Proc : root[q] # NULL =>
          inode[root[q]] = RootDir /\ (root[q] = Head(inode_init) \/ Below(root[q], inode_init))
    BY <2>2, <2>3 DEF Mount, RootsKept
  <2>6. \A q \in Proc : q # p /\ pc[q] = "super" => Tail(inode_init) = rest_slots(inode_init)
    BY FirstInode
  <2>. QED  BY <1>1, <1>3, <1>4, <2>1, <2>2, <2>3, <2>5, <2>6, RootTaken
<1>5. CASE /\ ~get_super(1) /\ inode_head' = inode_init
           /\ super' = [super EXCEPT !.base = first_log]
           /\ get_block(p, first_log, pages, "super", NoLocal)
           /\ UNCHANGED <<inode, scrap, fdVars>>
  <2>1. super.dev = 0
    BY <1>5 DEF get_super, Mount, Mounted, Layout
  <2>2. \A q \in Proc : root[q] = NULL /\ pc[q] \in Mounting \cup {"none"}
    BY <2>1 DEF Mount, Unmounted
  <2>3. root' = root /\ super'.dev = 0 /\ super'.base = first_log /\ DOMAIN super' = SuperFields
    BY <1>5, <2>1 DEF fdVars, Mount, Slots, SuperFields
  <2>4. \A q \in Proc : pc'[q] = pc[q] \/ pc'[q] = "super"
    BY <1>1, <1>5 DEF get_block, Halt, callVars, Goto
  <2>5. Slots'
    BY <1>1, <1>3, <1>5, <2>3 DEF Mount, Slots
  <2>6. Unmounted'
    BY <1>2, <1>3, <1>5, <2>2, <2>3, <2>4 DEF Unmounted, Mounting
  <2>7. Mounted' /\ RootsKept'
    BY <2>2, <2>3 DEF Mounted, RootsKept
  <2>. QED  BY <2>5, <2>6, <2>7 DEF Mount
<1>. QED  BY <1>4, <1>5 DEF partition_check

LEMMA SuperMounts ==
  ASSUME TwoMounters, Formatted, Mount, Core, Tables, NEW p \in Proc, read_super(p)
  PROVE  Mount'
<1>1. pc[p] = "super" /\ disk' = disk /\ pc[p] \in Mounting
  BY DEF read_super, Woken, Mounting
<1>2. CASE Halt("panic") /\ UNCHANGED <<fdVars, super, inode, inode_head, scrap>>
  BY <1>1, <1>2, KeepMount DEF Halt, callVars, fdVars
<1>3. CASE disk.boot.sector_size = 512 /\ mount_root(p, filled_super(disk.boot), inode_head)
  <2>1. super.base = first_log
    BY <1>1 DEF Mount, Unmounted, Mounted, Layout
  <2>2. Layout(filled_super(disk.boot)) /\ DOMAIN filled_super(disk.boot) = SuperFields
    BY <1>3, <2>1, FilledIsVolume DEF Mount, Slots
  <2>3. inode_head \in Seq(1..INODE_NR) /\ Increasing(inode_head)
    BY <1>1 DEF Mount, Slots, Tables, Heads, MountingOver
  <2>4. CASE super.dev = 0
    <3>1. inode_head = inode_init /\ \A q \in Proc : root[q] = NULL
      BY <1>1, <2>4 DEF Mount, Unmounted
    <3>2. inode_head # <<>> /\ Head(inode_head) = 1 /\ Tail(inode_head) = rest_slots(inode_init)
      BY <3>1, FirstInode
    <3>3. \A q, r \in Proc : q # p /\ pc[q] \in Mounting =>
            root[r] \in {NULL, 1} /\ Head(inode_head) = 1
      BY <3>1, <3>2
    <3>4. \A q \in Proc : root[q] # NULL =>
            inode[root[q]] = RootDir /\ (root[q] = Head(inode_head) \/ Below(root[q], inode_head))
      BY <3>1
    <3>. QED  BY <1>1, <1>3, <2>2, <2>3, <3>2, <3>3, <3>4, RootTaken
  <2>5. CASE super.dev # 0
    <3>1. inode_head = Tail(inode_init)
      BY <1>1, <2>5, FirstInode DEF Mount, Mounted
    <3>2. inode_head # <<>>
      BY <1>1, <2>5, <3>1, Alone, SecondInode DEF Mount
    <3>3. \A q \in Proc : q # p => pc[q] \notin Mounting
      BY <1>1, <2>5, Alone DEF Mount
    <3>4. \A q \in Proc : q # p => pc[q] # "super"
      BY <3>3 DEF Mounting
    <3>5. \A q \in Proc : root[q] # NULL =>
            inode[root[q]] = RootDir /\ (root[q] = Head(inode_head) \/ Below(root[q], inode_head))
      BY DEF Mount, RootsKept
    <3>. QED  BY <1>1, <1>3, <2>2, <2>3, <3>2, <3>3, <3>4, <3>5, RootTaken
  <2>. QED  BY <2>4, <2>5
<1>. QED  BY <1>2, <1>3 DEF read_super

(***************************************************************************)
(* An inode that sys_open takes is behind every root.                      *)
(***************************************************************************)
LEMMA NextAbove ==
  ASSUME Increasing(inode_head), get_inode \notin {NULL, Astray}, Inv
  PROVE  /\ Increasing(next_slots)
         /\ \A x \in 1..INODE_NR :
              Below(x, inode_head) => x < get_inode /\ Below(x, next_slots)
<1>1. /\ inode_head \in Seq(0..INODE_NR) /\ inode_head # <<>>
      /\ get_inode = Head(inode_head) /\ next_slots \in {<<Astray>>, Tail(inode_head)}
  BY NextSlots DEF Inv, FreeLists
<1>2. /\ Increasing(Tail(inode_head))
      /\ \A x : Below(x, inode_head) => x < Head(inode_head) /\ Below(x, Tail(inode_head))
  BY <1>1, TakeLowest
<1>3. Increasing(<<Astray>>) /\ \A x : Below(x, <<Astray>>)
  BY DEF Increasing, Below
<1>. QED  BY <1>1, <1>2, <1>3

LEMMA OpenMounts ==
  ASSUME Inv, Mount, Core, Tables, NEW p \in Proc, sys_open(p)
  PROVE  Mount'
<1> DEFINE de == scan_dentry_buf(Directory(data[p]), local[p].name)
           dip == get_inode
           locals == [local[p] EXCEPT !.dip = dip, !.left = de.clusters]
<1>1. pc[p] = "dir" /\ UNCHANGED <<disk, root, super>> /\ DOMAIN pc = Proc
  BY DEF sys_open, Woken, fdVars, Core, Phases
<1>2. CASE Return(p) /\ UNCHANGED <<inode, inode_head, scrap>>
  <2>1. pc' = [pc EXCEPT ![p] = "user"]
    BY <1>2 DEF Return, Goto
  <2>2. \A q \in Proc : pc'[q] = pc[q] \/ GoesOn(q)
    BY <1>1, <2>1 DEF GoesOn, Mounting
  <2>. QED  BY <1>1, <1>2, <2>2, KeepMount
<1>3. CASE /\ dip \notin {NULL, Astray} /\ inode_head' = next_slots
           /\ inode' = [inode EXCEPT ![dip] = [id |-> de.id, block |-> de.cluster,
                                              clusters |-> de.clusters]]
           /\ get_block(p, FatSector, put_block(pages) + 1, "fat", locals)
  <2>. HIDE DEF de, locals
  <2>2. /\ Increasing(inode_head')
        /\ \A x \in 1..INODE_NR : Below(x, inode_head) => x < dip /\ Below(x, inode_head')
    BY <1>3, NextAbove DEF Mount, Slots
  <2>3. \A q \in Proc : pc'[q] = pc[q] \/ (pc[q] = "dir" /\ pc'[q] = "fat")
    <3>1. CASE pc' = pc
      BY <3>1
    <3>2. CASE pc' = [pc EXCEPT ![p] = "fat"]
      BY <1>1, <3>2
    <3>. QED  BY <1>3, <3>1, <3>2 DEF get_block, Halt, callVars, Goto
  <2>4. super.dev # 0
    BY <1>1 DEF Mount, Unmounted, Mounting
  <2>5. \A q \in Proc : pc[q] \notin Mounting /\ pc'[q] \notin Mounting /\ pc'[q] # "super"
    BY <1>1, <2>3 DEF Core, Phases, Mounting, Opening
  <2>6. \A q \in Proc : pc[q] \notin Mounting \cup {"none"} => pc'[q] \notin Mounting \cup {"none"}
    BY <2>3, <2>5
  <2>7. Mounted'
    BY <1>1, <2>4, <2>5, <2>6 DEF Mount, Mounted, Layout, first_log, Mounters
  <2>8. Unmounted'
    BY <1>1, <2>4 DEF Unmounted
  <2>9. Slots'
    BY <1>1, <1>3, <2>2 DEF Mount, Slots
  <2>10. ASSUME NEW q \in Proc, root[q] # NULL
         PROVE  inode'[root[q]] = RootDir /\ Below(root[q], inode_head')
    <3>0. root[q] \in 1..INODE_NR
      BY <2>10 DEF Tables, Indices
    <3>1. inode[root[q]] = RootDir /\ Below(root[q], inode_head) /\ root[q] # dip
      BY <2>2, <2>10, <3>0 DEF Mount, RootsKept
    <3>2. root[q] \in DOMAIN inode
      BY <3>0 DEF Mount, Slots
    <3>3. inode'[root[q]] = inode[root[q]]
      BY <1>3, <3>1, <3>2
    <3>. QED  BY <2>2, <3>0, <3>1, <3>3
  <2>11. RootsKept'
    BY <1>1, <2>10 DEF RootsKept, RootDir, first_log
  <2>. QED  BY <2>7, <2>8, <2>9, <2>11 DEF Mount
<1>4. CASE Halt("wild") /\ UNCHANGED <<inode, inode_head, scrap>>
  BY <1>1, <1>4, KeepMount DEF Halt, callVars
<1>. QED  BY <1>2, <1>3, <1>4 DEF sys_open

LEMMA ForkMounts ==
  ASSUME Mount, Core, Tables, NEW p \in Proc, do_fork(p)
  PROVE  Mount'
<1>1. PICK child \in Proc :
        /\ pc[p] \in {"start", "user"} /\ pc[child] = "none"
        /\ pc' = [pc EXCEPT ![child] = pc[p]] /\ root' = [root EXCEPT ![child] = root[p]]
  BY DEF do_fork
<1>2. UNCHANGED <<disk, super, inode, inode_head>>
  BY DEF do_fork, slotVars
<1>3. /\ pc'[child] = pc[p] /\ root'[child] = root[p]
      /\ \A q \in Proc : q # child => pc'[q] = pc[q] /\ root'[q] = root[q]
  BY <1>1 DEF Core, Phases, Tables, Indices
<1>4. Slots'
  BY <1>2 DEF Mount, Slots
<1>5. RootsKept'
  BY <1>2, <1>3 DEF Mount, RootsKept, RootDir, first_log
<1>6. Unmounted'
  <2>1. super.dev = 0 => pc[p] = "start"
    BY <1>1 DEF Mount, Unmounted, Mounting
  <2>. QED  BY <1>1, <1>2, <1>3, <2>1 DEF Mount, Unmounted, Mounting, first_log
<1>7. Mounted'
  <2>1. ASSUME super.dev # 0
        PROVE  /\ Layout(super)
               /\ \E m \in Mounters : m \in Proc /\ pc[m] \notin Mounting \cup {"none"}
               /\ \A q \in Proc : pc[q] \in Mounting => \A r \in Proc : root[r] \in {NULL, 1}
               /\ \A q \in Proc : pc[q] = "super" => inode_head = rest_slots(inode_init)
    BY <2>1 DEF Mount, Mounted
  <2>2. ASSUME super.dev # 0, NEW q \in Proc, pc'[q] \in Mounting, NEW r \in Proc
        PROVE  root'[r] \in {NULL, 1}
    <3>1. \E s \in Proc : pc[s] \in Mounting
      BY <1>3, <2>2
    <3>. QED  BY <1>3, <2>1, <2>2, <3>1
  <2>3. \A q \in Proc : pc'[q] = "super" => pc[q] = "super"
    BY <1>1, <1>3
  <2>4. super.dev # 0 => \E m \in Mounters : m \in Proc /\ pc'[m] \notin Mounting \cup {"none"}
    BY <1>1, <1>3, <2>1
  <2>5. super.dev # 0 => Layout(super)'
    BY <1>2, <2>1 DEF Layout, first_log
  <2>6. super' = super /\ inode_head' = inode_head /\ Mounters' = Mounters
    BY <1>2 DEF Mounters
  <2>. QED  BY <2>1, <2>2, <2>3, <2>4, <2>5, <2>6 DEF Mounted
<1>. QED  BY <1>4, <1>5, <1>6, <1>7 DEF Mount

LEMMA InitMount == Init => Mount
<1> SUFFICES ASSUME Init PROVE Mount
  OBVIOUS
<1>1. Slots
  BY DEF Init, Slots, SuperFields, Increasing
<1>2. \A p \in Proc : root[p] = NULL /\ pc[p] \in {"start", "none"}
  BY DEF Init, proc_fd_init
<1>3. super.dev = 0
  BY DEF Init
<1>. QED  BY <1>1, <1>2, <1>3 DEF Mount, Unmounted, Mounted, RootsKept, Mounting

LEMMA MountNext ==
  ASSUME TwoMounters, Formatted, Inv, Mount, Core, Tables, [Next]_vars
  PROVE  Mount'
<1>1. CASE UNCHANGED vars
  BY <1>1, KeepMount DEF vars, callVars, fdVars, slotVars
<1>2. CASE hd_handlerp
  BY <1>2, KeepMount DEF hd_handlerp, callVars, fdVars, slotVars
<1>3. CASE Halted
  BY <1>3, KeepMount DEF Halted, vars, callVars, fdVars, slotVars
<1>4. ASSUME NEW p \in Proc, fs_init(p) PROVE Mount'
  <2>1. pc[p] = "start" /\ pc' = [pc EXCEPT ![p] = "table"] /\ DOMAIN pc = Proc
    BY <1>4 DEF fs_init, Goto, Core, Phases
  <2>2. \A q \in Proc : pc'[q] = pc[q] \/ Begins(q)
    BY <2>1 DEF Begins
  <2>. QED  BY <1>4, <2>2, KeepMount DEF fs_init, fdVars, slotVars
<1>5. ASSUME NEW p \in Proc, NEW name, get_name(p, name) PROVE Mount'
  <2>1. pc[p] = "user" /\ UNCHANGED <<disk, root, super, inode, inode_head>>
    BY <1>5 DEF get_name, fdVars, slotVars
  <2>2. CASE Halt("wild") \/ UNCHANGED callVars
    BY <2>1, <2>2, KeepMount DEF Halt, callVars
  <2>3. CASE \E b, a, l : get_block(p, b, a, "dir", l)
    BY <2>1, <2>3, BlockMount
  <2>. QED  BY <1>5, <2>2, <2>3 DEF get_name
<1>6. ASSUME NEW p \in Proc, read_map(p) PROVE Mount'
  <2>1. pc[p] = "fat" /\ UNCHANGED <<disk, root, super, inode, inode_head>>
    BY <1>6 DEF read_map, Woken, fdVars
  <2>2. CASE Halt("wild")
    BY <2>1, <2>2, KeepMount DEF Halt, callVars
  <2>3. CASE \E b, a, l : get_block(p, b, a, "fat", l)
    BY <2>1, <2>3, BlockMount
  <2>. QED  BY <1>6, <2>2, <2>3 DEF read_map
<1>7. ASSUME NEW p \in Proc, get_unused_fd(p) PROVE Mount'
  <2>1. pc[p] = "fat" /\ UNCHANGED <<disk, root, super, inode, inode_head>>
    BY <1>7 DEF get_unused_fd, Woken
  <2>2. pc' = [pc EXCEPT ![p] = "user"] /\ DOMAIN pc = Proc
    BY <1>7 DEF get_unused_fd, Return, Goto, Core, Phases
  <2>3. \A q \in Proc : pc'[q] = pc[q] \/ GoesOn(q)
    BY <2>1, <2>2 DEF GoesOn, Mounting
  <2>. QED  BY <2>1, <2>3, KeepMount
<1>8. ASSUME NEW p \in Proc, read_map_astray(p) PROVE Mount'
  BY <1>8, KeepMount DEF read_map_astray, Halt, callVars, fdVars, slotVars
<1>9. ASSUME NEW p \in Proc, Call(p) PROVE Mount'
  BY <1>4, <1>5, <1>9, ForkMounts DEF Call
<1>10. ASSUME NEW p \in Proc, GoOn(p) PROVE Mount'
  BY <1>6, <1>7, <1>8, <1>10, TableMounts, SuperMounts, OpenMounts DEF GoOn
<1>. QED  BY <1>1, <1>2, <1>3, <1>9, <1>10 DEF Next

(***************************************************************************)
(* A map is stored behind the inode of its file, and the roots are before. *)
(***************************************************************************)
RootsSafe ==
  \A p \in Proc : root[p] # NULL =>
    /\ \A q \in Proc : pc[q] = "fat" => root[p] < local[q].dip
    /\ \A a \in scrap : i_sb(root[p]) + INODE_WORDS <= a

LEMMA KeepSafe ==
  ASSUME RootsSafe, root' = root, scrap' \subseteq scrap,
         \A q \in Proc : pc'[q] = "fat" => pc[q] = "fat" /\ local'[q] = local[q]
  PROVE  RootsSafe'
BY DEF RootsSafe

LEMMA OpenSafe ==
  ASSUME RootsSafe, Inv, Core, Tables, Mount, NEW p \in Proc, sys_open(p)
  PROVE  RootsSafe'
<1> DEFINE de == scan_dentry_buf(Directory(data[p]), local[p].name)
           dip == get_inode
           locals == [local[p] EXCEPT !.dip = dip, !.left = de.clusters]
<1>1. root' = root /\ DOMAIN pc = Proc /\ DOMAIN local = Proc
  BY DEF sys_open, fdVars, Inv, Shape
<1>2. CASE Return(p) /\ UNCHANGED <<inode, inode_head, scrap>>
  BY <1>1, <1>2, KeepSafe DEF Return, Goto
<1>3. CASE Halt("wild") /\ UNCHANGED <<inode, inode_head, scrap>>
  BY <1>1, <1>3, KeepSafe DEF Halt, callVars
<1>4. CASE /\ dip \notin {NULL, Astray} /\ scrap' = scrap \ filled(dip)
           /\ get_block(p, FatSector, put_block(pages) + 1, "fat", locals)
  <2>1. \A x \in 1..INODE_NR : Below(x, inode_head) => x < dip
    BY <1>4, NextAbove DEF Mount, Slots
  <2>. HIDE DEF de, dip
  <2>2. locals.dip = dip
    BY DEF Inv, Shape
  <2>. HIDE DEF locals
  <2>3. \A q \in Proc : pc'[q] = "fat" =>
          \/ pc[q] = "fat" /\ local'[q] = local[q]
          \/ local'[q] = locals
    <3>1. CASE Goto(p, "fat", locals)
      BY <1>1, <3>1 DEF Goto
    <3>2. CASE UNCHANGED <<pc, local>>
      BY <3>2
    <3>. QED  BY <1>4, <3>1, <3>2, BlockMoves
  <2>4. ASSUME NEW q \in Proc, root[q] # NULL PROVE root[q] < dip
    <3>1. root[q] \in 1..INODE_NR /\ Below(root[q], inode_head)
      BY <2>4 DEF Tables, Indices, Mount, RootsKept
    <3>. QED  BY <2>1, <3>1
  <2>5. scrap' \subseteq scrap
    BY <1>4
  <2>. QED  BY <1>1, <2>2, <2>3, <2>4, <2>5 DEF RootsSafe
<1>. QED  BY <1>2, <1>3, <1>4 DEF sys_open

LEMMA MapSafe ==
  ASSUME RootsSafe, Inv, Spilt, Core, Tables, NEW p \in Proc, read_map(p)
  PROVE  RootsSafe'
<1> DEFINE locals == [local[p] EXCEPT !.left = IF @ > 1 THEN @ - 1 ELSE @]
           dip == local[p].dip
<1>1. root' = root /\ pc[p] = "fat" /\ DOMAIN pc = Proc /\ DOMAIN local = Proc
  BY DEF read_map, Woken, fdVars, Inv, Shape
<1>2. dip \in 1..INODE_NR
  BY <1>1 DEF Inv, BeingOpened, Named
<1>3. \A q \in Proc : pc'[q] = "fat" => pc[q] = "fat" /\ local'[q].dip = local[q].dip
  <2>1. locals.dip = local[p].dip
    BY DEF Inv, Shape
  <2>. HIDE DEF locals
  <2>2. CASE Goto(p, "fat", locals)
    BY <1>1, <2>1, <2>2 DEF Goto
  <2>3. CASE UNCHANGED <<pc, local>>
    BY <2>3
  <2>4. Goto(p, "fat", locals) \/ UNCHANGED <<pc, local>>
    <3>1. CASE Halt("wild")
      BY <3>1 DEF Halt, callVars
    <3>2. CASE ~Halt("wild")
      BY <3>2, BlockMoves DEF read_map, locals
    <3>. QED  BY <3>1, <3>2
  <2>. QED  BY <2>2, <2>3, <2>4
<1>4. PICK i \in Int : i = stored(p)
  <2>1. inode[dip].clusters \in Int /\ local[p].left \in Int
    BY <1>1, <1>2 DEF Spilt, Counts
  <2>. QED  BY <2>1 DEF stored
<1>5. scrap' \subseteq scrap \/ (i >= NR_BLOCK /\ scrap' = scrap \cup {block_word(dip, i)})
  BY <1>4 DEF read_map, store_entry, overruns
<1>6. ASSUME NEW q \in Proc, root[q] # NULL, i >= NR_BLOCK
      PROVE  i_sb(root[q]) + INODE_WORDS <= block_word(dip, i)
  <2>1. root[q] \in 1..INODE_NR /\ root[q] < dip
    BY <1>1, <1>6 DEF Tables, Indices, RootsSafe
  <2>2. PICK r \in Int, x \in Int, w \in Int :
          r = i_sb(root[q]) /\ x = i_sb(dip) /\ w = INODE_WORDS
    <3>1. i_sb(root[q]) \in Int
      BY <2>1, WordOf
    <3>2. i_sb(dip) \in Int
      BY <1>2, WordOf
    <3>3. INODE_WORDS \in Int
      BY Words
    <3>. QED  BY <3>1, <3>2, <3>3
  <2>3. r + w <= x
    BY <1>2, <2>1, <2>2, WordOf, SlotsApart
  <2>4. block_word(dip, i) = x + 2 + NAME_WORDS + i
    BY <1>2, <2>2, WordOf
  <2>. QED  BY <1>6, <2>2, <2>3, <2>4, Words
<1>. QED  BY <1>1, <1>3, <1>5, <1>6 DEF RootsSafe

LEMMA SafeNext ==
  ASSUME RootsSafe, Inv, Spilt, Core, Tables, Mount, [Next]_vars
  PROVE  RootsSafe'
<1>0. DOMAIN pc = Proc /\ DOMAIN local = Proc
  BY DEF Inv, Shape
<1> USE DEF slotVars, fdVars
<1>1. CASE UNCHANGED vars \/ hd_handlerp \/ Halted
  BY <1>1, KeepSafe DEF vars, callVars, hd_handlerp, Halted
<1>2. ASSUME NEW p \in Proc, fs_init(p) PROVE RootsSafe'
  BY <1>0, <1>2, KeepSafe DEF fs_init, Goto
<1>3. ASSUME NEW p \in Proc, do_fork(p) PROVE RootsSafe'
  BY <1>0, <1>3 DEF do_fork, RootsSafe, Tables, Indices
<1>4. ASSUME NEW p \in Proc, NEW name, get_name(p, name) PROVE RootsSafe'
  <2>1. \E l : Goto(p, "dir", l) \/ UNCHANGED <<pc, local>>
    BY <1>4, BlockMoves DEF get_name, Halt, callVars
  <2>2. \A q \in Proc : pc'[q] = "fat" => pc[q] = "fat" /\ local'[q] = local[q]
    BY <1>0, <2>1 DEF Goto
  <2>. QED  BY <1>4, <2>2, KeepSafe DEF get_name
<1>5. ASSUME NEW p \in Proc, read_map_astray(p) PROVE RootsSafe'
  BY <1>5, KeepSafe DEF read_map_astray, Halt, callVars
<1>6. ASSUME NEW p \in Proc, get_unused_fd(p) PROVE RootsSafe'
  BY <1>0, <1>6, KeepSafe DEF get_unused_fd, Return, Goto
<1>7. ASSUME NEW p \in Proc, partition_check(p) \/ read_super(p) PROVE RootsSafe'
  <2>1. ~MountingOver /\ \A q \in Proc : pc[q] # "fat"
    BY <1>7 DEF partition_check, read_super, Woken, MountingOver, Inv, Quiet
  <2>2. scrap' = {}
    BY <1>7, <2>1 DEF partition_check, read_super, mount_root, Spilt
  <2>3. \E where, l : where # "fat" /\ (Goto(p, where, l) \/ UNCHANGED <<pc, local>>)
    <3>1. CASE \E b, a, l : get_block(p, b, a, "super", l)
      BY <3>1, BlockMoves
    <3>2. CASE Return(p)
      BY <3>2 DEF Return
    <3>3. CASE Halt("panic")
      BY <3>3 DEF Halt, callVars
    <3>. QED  BY <1>7, <3>1, <3>2, <3>3 DEF partition_check, read_super, mount_root
  <2>4. \A q \in Proc : pc'[q] # "fat"
    BY <1>0, <2>1, <2>3 DEF Goto
  <2>. QED  BY <2>2, <2>4 DEF RootsSafe
<1>. QED  BY <1>1, <1>2, <1>3, <1>4, <1>5, <1>6, <1>7, OpenSafe, MapSafe
          DEF Next, Call, GoOn

LEMMA SafeIsIntact ==
  ASSUME RootsSafe, Tables, NEW p \in Proc, root[p] # NULL
  PROVE  Intact(root[p])
<1>1. root[p] \in 1..INODE_NR
  BY DEF Tables, Indices
<1>2. PICK r \in Int, w \in Int : r = i_sb(root[p]) /\ w = INODE_WORDS
  BY <1>1, WordOf, Words
<1>3. block_word(root[p], NR_BLOCK - 1) = r + 2 + NAME_WORDS + (NR_BLOCK - 1)
  <2>1. PICK b \in Int : b = NR_BLOCK - 1
    BY Words
  <2>2. block_word(root[p], b) = r + 2 + NAME_WORDS + b
    BY <1>1, <1>2, WordOf
  <2>. QED  BY <2>1, <2>2
<1>4. ASSUME NEW a \in i_sb(root[p])..block_word(root[p], NR_BLOCK - 1), a \in scrap
      PROVE  FALSE
  <2>1. r + w <= a
    BY <1>2, <1>4 DEF RootsSafe
  <2>. QED  BY <1>2, <1>3, <2>1, Words
<1>. QED  BY <1>4 DEF Intact

(***************************************************************************)
(* MountFindsRoot: on every volume a formatter made, mounted by init and   *)
(* by a child it forked before, in whatever order their disk reads end,    *)
(* the super block says what the volume is, and every root is the inode of *)
(* its root directory, which is never given to a file and which no map of  *)
(* a file overwrites, however long (super.c:97-198, inode.c:112-117).      *)
(***************************************************************************)
THEOREM MountFindsRootHolds ==
  ASSUME TwoMounters, Formatted
  PROVE  Spec => []MountFindsRoot
<1> DEFINE I == Inv /\ Spilt /\ Core /\ Tables /\ Mount /\ RootsSafe
<1>1. Init => I
  <2>1. Init => RootsSafe
    BY DEF Init, proc_fd_init, RootsSafe
  <2>. QED  BY <2>1, InitInv, InitSpilt, InitCore, InitMount
<1>2. I /\ [Next]_vars => I'
  <2> SUFFICES ASSUME I, [Next]_vars PROVE I'
    OBVIOUS
  <2>1. Inv' /\ Spilt' /\ Core' /\ Tables'
    BY NextInv, SpiltNext, CoreStep, TablesStep
  <2>2. Mount' /\ RootsSafe'
    BY MountNext, SafeNext
  <2>. QED  BY <2>1, <2>2
<1>3. I => MountFindsRoot
  <2> SUFFICES ASSUME I PROVE MountFindsRoot
    OBVIOUS
  <2>1. ASSUME super.dev = 1
        PROVE  /\ super.type = disk.kind /\ super.dir_first_sec = first_log + disk.root
               /\ super.data_first_sec = first_log + disk.data
    BY <2>1 DEF Mount, Mounted, Layout
  <2>2. ASSUME NEW p \in Proc, root[p] # NULL
        PROVE  /\ inode[root[p]] = RootDir /\ Intact(root[p])
               /\ \A i \in DOMAIN inode_head : inode_head[i] # root[p]
    <3>1. inode[root[p]] = RootDir /\ Below(root[p], inode_head) /\ root[p] \in 1..INODE_NR
      BY <2>2 DEF Mount, RootsKept, Tables, Indices
    <3>2. DOMAIN inode_head = 1..Len(inode_head)
      BY DEF Inv, FreeLists
    <3>3. \A k \in 1..Len(inode_head) : inode_head[k] # root[p]
      BY <3>1 DEF Below, Astray
    <3>. QED  BY <2>2, <3>1, <3>2, <3>3, SafeIsIntact
  <2>. QED  BY <2>1, <2>2 DEF MountFindsRoot, RootDir
<1>. QED  BY <1>1, <1>2, <1>3, PTL DEF Spec
=============================================================================
