-------------------------------- MODULE Fat ---------------------------------
(***************************************************************************)
(* Following the FAT (fs/inode.c): FATEntryVal takes the entry of a        *)
(* cluster out of the bytes of the table, 12, 16 or 32 bits wide, and      *)
(* read_map copies the chain of a file into the block array of its inode.  *)
(* The inode is not shared before sys_open returns, so nothing but the     *)
(* disk reads comes between the steps.                                     *)
(***************************************************************************)
EXTENDS Integers, Sequences

CONSTANTS
  LastCluster,    \* clusters are 2..LastCluster
  sector_size,    \* bytes of a sector (512)
  blk_size,       \* bytes of a cluster
  Sizes,          \* sizes of files
  Marks           \* which of the last eight values of the width end a chain

ASSUME FatAssumption ==
  /\ LastCluster \in Nat /\ LastCluster >= 2
  /\ sector_size \in Nat /\ sector_size >= 4    \* an entry is no longer than a sector
  /\ blk_size \in Nat \ {0} /\ Sizes \subseteq Nat /\ Marks \subseteq 0..7

Clusters == 2..LastCluster

VARIABLES
  type,             \* 1 for FAT12, 2 for FAT16, 3 for FAT32
  table,            \* what the disk's FAT says: cluster |-> its entry
  reserved,         \* the four bits of a FAT32 entry that mean nothing
  first, size,      \* of the file: its first cluster, its bytes
  done,             \* has read_map returned
  block,            \* ip->block as far as it is written
  index, count      \* locals of read_map

disk == <<type, table, reserved, first, size>>
vars == <<disk, done, block, index, count>>

-----------------------------------------------------------------------------
(***************************************************************************)
(* The bytes on the disk: entries of `Width' half-bytes each, low half     *)
(* first, packed without gaps.                                             *)
(***************************************************************************)
Width == CASE type = 1 -> 3 [] type = 2 -> 4 [] type = 3 -> 8

Pow16 == <<1, 16, 256, 4096, 65536, 1048576, 16777216, 268435456>>

Nibble(k) ==
  LET c == k \div Width
  IN  IF c \notin Clusters THEN 0
      ELSE IF type = 3 /\ k % Width = 7 THEN reserved
      ELSE (table[c] \div Pow16[(k % Width) + 1]) % 16

Byte(j) == Nibble(2*j) + 16 * Nibble(2*j + 1)

-----------------------------------------------------------------------------
EofMark == CASE type = 1 -> 4088 [] type = 2 -> 65528 [] type = 3 -> 268435448

\* Mutant of eeof: the first of the end marks is taken for a cluster.
EofTooLate(val) == val > EofMark

eeof(val) == val >= EofMark

FAToffset(n) ==
  CASE type = 1 -> n + (n \div 2) [] type = 2 -> n * 2 [] type = 3 -> n * 4

(***************************************************************************)
(* get_block fetches two sectors, so an entry that crosses the end of the  *)
(* first is whole.  It never finds no page here: the caller has just put   *)
(* back the two it takes.                                                  *)
(***************************************************************************)
\* Mutant of secbuf: only one sector is fetched.
OneSector(sector, i) == IF i < sector_size THEN Byte(sector * sector_size + i) ELSE 0

secbuf(sector, i) ==
  IF i < 2 * sector_size THEN Byte(sector * sector_size + i) ELSE 0

FATEntryVal(cluster) ==
  LET sector == FAToffset(cluster) \div sector_size
      offset == FAToffset(cluster) % sector_size
      u16 == secbuf(sector, offset) + 256 * secbuf(sector, offset+1)
  IN  CASE type = 1 -> IF cluster % 2 = 1 THEN u16 \div 16 ELSE u16 % 4096
        [] type = 2 -> u16
        [] type = 3 -> u16 + 65536 * secbuf(sector, offset+2)
                           + 16777216 * (secbuf(sector, offset+3) % 16)

\* Mutant of do_cdiv: eax and edx are swapped.
DivRemainder(s, d) == s % d

do_cdiv(s, d) == (s \div d) + (IF s % d # 0 THEN 1 ELSE 0)

(***************************************************************************)
(* An end mark may be any of the last eight values of the width, and the   *)
(* disk has no cluster with such a number.  The file has a cluster, and    *)
(* the chains hold no free, bad or reserved entries.                       *)
(***************************************************************************)
EndMarks == {EofMark + k : k \in Marks}

Init ==
  /\ type \in 1..3 /\ LastCluster < EofMark
  /\ table \in [Clusters -> Clusters \cup EndMarks]
  /\ reserved \in IF type = 3 THEN 0..15 ELSE {0}
  /\ first \in Clusters /\ size \in Sizes
  /\ done = FALSE /\ block = <<>>
  /\ index = first
  /\ count = do_cdiv(size, blk_size)

\* Mutant of goes_on: the chain is followed without a count.
GoesOnUncounted(val) == ~eeof(val)

goes_on(val) == ~eeof(val) /\ count > 0

(***************************************************************************)
(* One round of the loop of read_map.                                      *)
(***************************************************************************)
read_map ==
  /\ ~done
  /\ block' = Append(block, index)
  /\ index' = FATEntryVal(index)
  /\ count' = IF eeof(index') THEN count ELSE count - 1
  /\ done' = ~goes_on(index')
  /\ UNCHANGED disk

Spec == Init /\ [][read_map]_vars

-----------------------------------------------------------------------------
(***************************************************************************)
(* Only clusters are stored in the map, never an end mark.                 *)
(***************************************************************************)
TypeOK ==
  /\ block \in Seq(Clusters) /\ done \in BOOLEAN
  /\ index \in Clusters \cup EndMarks
  /\ count \in -1 .. do_cdiv(size, blk_size)

(***************************************************************************)
(* Each cluster in the map is the one the disk's table names after its     *)
(* predecessor, for each of the three widths, odd and even clusters, and   *)
(* entries that cross a sector.                                            *)
(***************************************************************************)
MapFollowsChain ==
  /\ block # <<>> => block[1] = first
  /\ \A i \in 1..Len(block)-1 : block[i+1] = table[block[i]]

(***************************************************************************)
(* The map is long enough: read_map stops before it has the clusters that  *)
(* the size of the file needs only where the chain itself ends.            *)
(***************************************************************************)
MapCoversFile == done => Len(block) * blk_size >= size \/ index \in EndMarks

(***************************************************************************)
(* read_map ends, also on a table with a cycle, and stores at most one     *)
(* cluster more than the size of the file needs, whatever the table says:  *)
(* block[10] has room for each file of up to nine clusters (fs.h:137).     *)
(***************************************************************************)
MapBounded == Len(block) > 1 => size > (Len(block) - 2) * blk_size
=============================================================================
