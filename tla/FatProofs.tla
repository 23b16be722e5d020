------------------------------ MODULE FatProofs ------------------------------
(***************************************************************************)
(* The FAT, for disks of any number of clusters, sector sizes and files:   *)
(* FATEntryVal is right for each cluster, and read_map for each chain.     *)
(***************************************************************************)
EXTENDS Fat, SequenceTheorems, TLAPS

-----------------------------------------------------------------------------
(***************************************************************************)
(* Hexadecimal digits.                                                     *)
(***************************************************************************)
LEMMA ThreeDigits ==
  ASSUME NEW t \in Nat, t < 4096
  PROVE  t = (t % 16) + 16 * ((t \div 16) % 16) + 256 * ((t \div 256) % 16)
BY SMT

LEMMA FourDigits ==
  ASSUME NEW t \in Nat, t < 65536
  PROVE  t = (t % 16) + 16 * ((t \div 16) % 16) + 256 * ((t \div 256) % 16)
               + 4096 * ((t \div 4096) % 16)
BY SMT

LEMMA SevenDigits ==
  ASSUME NEW t \in Nat, t < 268435456
  PROVE  t = (t % 16) + 16 * ((t \div 16) % 16) + 256 * ((t \div 256) % 16)
               + 4096 * ((t \div 4096) % 16) + 65536 * ((t \div 65536) % 16)
               + 1048576 * ((t \div 1048576) % 16) + 16777216 * ((t \div 16777216) % 16)
<1>1. PICK h \in Nat, l \in Nat : h = t \div 65536 /\ l = t % 65536
  BY SMT
<1>2. h < 4096 /\ l < 65536 /\ t = l + 65536 * h
  BY <1>1, SMT
<1>3. l % 16 = t % 16 /\ (l \div 16) % 16 = (t \div 16) % 16
  BY <1>2, SMT
<1>4. (l \div 256) % 16 = (t \div 256) % 16 /\ (l \div 4096) % 16 = (t \div 4096) % 16
  BY <1>2, SMT
<1>5. h \div 16 = t \div 1048576 /\ h \div 256 = t \div 16777216
  BY <1>2, SMT
<1>6. h = (h % 16) + 16 * ((h \div 16) % 16) + 256 * ((h \div 256) % 16)
  BY <1>2, ThreeDigits, SMT
<1>7. l = (l % 16) + 16 * ((l \div 16) % 16) + 256 * ((l \div 256) % 16)
            + 4096 * ((l \div 4096) % 16)
  BY <1>2, FourDigits, SMT
<1>. QED  BY <1>1, <1>2, <1>3, <1>4, <1>5, <1>6, <1>7, SMT

(***************************************************************************)
(* What is on the disk.                                                    *)
(***************************************************************************)
DiskOK ==
  /\ type \in 1..3 /\ LastCluster < EofMark
  /\ table \in [Clusters -> Clusters \cup EndMarks]
  /\ reserved \in 0..15
  /\ first \in Clusters /\ size \in Nat

LEMMA MarkIs ==
  ASSUME type \in 1..3
  PROVE  /\ type = 1 => EofMark = 4088
         /\ type = 2 => EofMark = 65528
         /\ type = 3 => EofMark = 268435448
         /\ EofMark \in Nat
BY SMT DEF EofMark

LEMMA EntryType ==
  ASSUME DiskOK, NEW c \in Clusters
  PROVE  /\ c \in Nat /\ table[c] \in Nat
         /\ type = 1 => table[c] < 4096
         /\ type = 2 => table[c] < 65536
         /\ type = 3 => table[c] < 268435456
<1>0. LastCluster \in Nat /\ Marks \subseteq 0..7
  BY FatAssumption, SMT
<1>1. c \in Nat /\ table[c] \in Clusters \cup EndMarks
  BY <1>0, SMT DEF DiskOK, Clusters
<1>2. PICK m \in Nat : m = EofMark
  BY MarkIs DEF DiskOK
<1>3. table[c] \in Nat /\ table[c] < m + 8
  <2>1. CASE table[c] \in Clusters
    BY <1>0, <1>2, <2>1, SMT DEF DiskOK, Clusters
  <2>2. CASE table[c] \in EndMarks
    <3>1. PICK k \in 0..7 : table[c] = m + k
      BY <1>0, <1>2, <2>2 DEF EndMarks
    <3>. QED  BY <3>1, SMT
  <2>. QED  BY <1>1, <2>1, <2>2
<1>4. type \in 1..3
  BY DEF DiskOK
<1>5. /\ type = 1 => m = 4088
      /\ type = 2 => m = 65528
      /\ type = 3 => m = 268435448
  BY <1>2, <1>4, MarkIs, SMT
<1>. QED  BY <1>1, <1>3, <1>5, SMT

LEMMA NibbleIsSmall ==
  ASSUME DiskOK, NEW k \in Nat
  PROVE  Nibble(k) \in 0..15
<1>1. PICK w \in {3, 4, 8} : w = Width
  BY SMT DEF DiskOK, Width
<1>2. PICK c : c = k \div w
  OBVIOUS
<1>3. PICK d \in 0..7 : d = k % w
  BY SMT
<1>4. PICK q : q = Pow16[d + 1]
  OBVIOUS
<1>5. q \in Nat \ {0}
  BY <1>4, SMT DEF Pow16
<1>6. Nibble(k) = IF c \notin Clusters THEN 0
                  ELSE IF type = 3 /\ d = 7 THEN reserved ELSE (table[c] \div q) % 16
  BY <1>1, <1>2, <1>3, <1>4, SMT DEF Nibble
<1>7. CASE c \in Clusters
  <2>1. PICK t \in Nat : t = table[c]
    BY <1>7, EntryType
  <2>2. (t \div q) % 16 \in 0..15
    BY <1>5, SMT
  <2>. QED  BY <1>6, <1>7, <2>1, <2>2, SMT DEF DiskOK
<1>8. CASE c \notin Clusters
  BY <1>6, <1>8, SMT
<1>. QED  BY <1>7, <1>8

LEMMA NibbleIs ==
  ASSUME DiskOK, NEW c \in Clusters, NEW w, w = Width, NEW d \in 0..w-1,
         NEW q, q = Pow16[d + 1], ~(type = 3 /\ d = 7)
  PROVE  Nibble(w*c + d) = (table[c] \div q) % 16
<1>1. c \in Nat
  BY EntryType
<1>2. w \in {3, 4, 8}
  BY SMT DEF DiskOK, Width
<1>3. (w*c + d) \div w = c /\ (w*c + d) % w = d
  <2>1. CASE w = 3
    BY <1>1, <2>1, SMT
  <2>2. CASE w = 4
    BY <1>1, <2>2, SMT
  <2>3. CASE w = 8
    BY <1>1, <2>3, SMT
  <2>. QED  BY <1>2, <2>1, <2>2, <2>3
<1>. QED  BY <1>3, Zenon DEF Nibble

(***************************************************************************)
(* What FATEntryVal takes out of the two sectors it has fetched is what    *)
(* the table has there, also across the end of the first sector.           *)
(***************************************************************************)
LEMMA SectorsHold ==
  ASSUME NEW f \in Nat, NEW i \in 0..3
  PROVE  secbuf(f \div sector_size, (f % sector_size) + i) = Byte(f + i)
<1>0. sector_size \in Nat /\ sector_size >= 4
  BY FatAssumption
<1>1. PICK q \in Nat, r \in 0..sector_size-1 : q = f \div sector_size /\ r = f % sector_size
  BY <1>0
<1>2. f = q * sector_size + r
  <2>1. r = f - q * sector_size
    BY <1>0, <1>1
  <2>2. q * sector_size \in Nat
    BY <1>0
  <2>. QED  BY <2>1, <2>2
<1>3. r + i < 2 * sector_size
  BY <1>0
<1>4. PICK s \in Nat : s = q * sector_size
  BY <1>0
<1>5. s + (r + i) = f + i
  BY <1>2, <1>4
<1>. QED  BY <1>1, <1>3, <1>4, <1>5 DEF secbuf

(***************************************************************************)
(* FATEntryVal returns the entry of the table, for each of the widths.     *)
(***************************************************************************)
LEMMA Entry16 ==
  ASSUME DiskOK, type = 2, NEW c \in Clusters
  PROVE  FATEntryVal(c) = table[c]
<1>1. PICK t \in Nat : t = table[c] /\ t < 65536
  BY EntryType, SMT
<1>2. c \in Nat /\ 2*c \in Nat /\ FAToffset(c) = 2*c /\ Width = 4
  BY EntryType, SMT DEF FAToffset, Width
<1>3. /\ Nibble(4*c) = t % 16 /\ Nibble(4*c + 1) = (t \div 16) % 16
      /\ Nibble(4*c + 2) = (t \div 256) % 16 /\ Nibble(4*c + 3) = (t \div 4096) % 16
  <2>1. Nibble(4*c + 0) = (t \div 1) % 16
    BY <1>1, <1>2, NibbleIs, SMT DEF Pow16
  <2>2. Nibble(4*c + 1) = (t \div 16) % 16
    BY <1>1, <1>2, NibbleIs, SMT DEF Pow16
  <2>3. Nibble(4*c + 2) = (t \div 256) % 16
    BY <1>1, <1>2, NibbleIs, SMT DEF Pow16
  <2>4. Nibble(4*c + 3) = (t \div 4096) % 16
    BY <1>1, <1>2, NibbleIs, SMT DEF Pow16
  <2>5. 4*c + 0 = 4*c /\ t \div 1 = t
    BY <1>2, SMT
  <2>. QED  BY <2>1, <2>2, <2>3, <2>4, <2>5
<1>4. Byte(2*c + 0) = (t % 16) + 16 * ((t \div 16) % 16)
  BY <1>2, <1>3, SMT DEF Byte
<1>5. Byte(2*c + 1) = ((t \div 256) % 16) + 16 * ((t \div 4096) % 16)
  BY <1>2, <1>3, SMT DEF Byte
<1>6. FATEntryVal(c) = Byte(2*c + 0) + 256 * Byte(2*c + 1)
  <2>1. PICK s : s = (2*c) \div sector_size
    OBVIOUS
  <2>2. PICK o \in Nat : o = (2*c) % sector_size
    BY <1>2, FatAssumption, SMT
  <2>3. secbuf(s, o + 0) = Byte(2*c + 0) /\ secbuf(s, o + 1) = Byte(2*c + 1)
    BY <1>2, <2>1, <2>2, SectorsHold, SMT
  <2>4. FATEntryVal(c) = secbuf(s, o) + 256 * secbuf(s, o + 1)
    BY <1>2, <2>1, <2>2, SMT DEF FATEntryVal
  <2>5. o + 0 = o
    BY SMT
  <2>. QED  BY <2>3, <2>4, <2>5
<1>. QED  BY <1>1, <1>4, <1>5, <1>6, FourDigits, SMT

LEMMA Entry32 ==
  ASSUME DiskOK, type = 3, NEW c \in Clusters
  PROVE  FATEntryVal(c) = table[c]
<1>1. PICK t \in Nat : t = table[c] /\ t < 268435456
  BY EntryType, SMT
<1>2. c \in Nat /\ 4*c \in Nat /\ FAToffset(c) = 4*c /\ Width = 8
  BY EntryType, SMT DEF FAToffset, Width
<1>3. Nibble(8*c + 0) = (t \div 1) % 16 /\ Nibble(8*c + 1) = (t \div 16) % 16
  BY <1>1, <1>2, NibbleIs, SMT DEF Pow16
<1>4. Nibble(8*c + 2) = (t \div 256) % 16 /\ Nibble(8*c + 3) = (t \div 4096) % 16
  BY <1>1, <1>2, NibbleIs, SMT DEF Pow16
<1>5. Nibble(8*c + 4) = (t \div 65536) % 16 /\ Nibble(8*c + 5) = (t \div 1048576) % 16
  BY <1>1, <1>2, NibbleIs, SMT DEF Pow16
<1>6. Nibble(8*c + 6) = (t \div 16777216) % 16 /\ Nibble(8*c + 7) \in 0..15
  BY <1>1, <1>2, NibbleIs, NibbleIsSmall, SMT DEF Pow16
<1>7. Byte(4*c + 0) = (t % 16) + 16 * ((t \div 16) % 16)
  <2>1. 2 * (4*c + 0) = 8*c + 0 /\ 2 * (4*c + 0) + 1 = 8*c + 1 /\ t \div 1 = t
    BY <1>2, SMT
  <2>. QED  BY <1>3, <2>1, SMT DEF Byte
<1>8. Byte(4*c + 1) = ((t \div 256) % 16) + 16 * ((t \div 4096) % 16)
  <2>1. 2 * (4*c + 1) = 8*c + 2 /\ 2 * (4*c + 1) + 1 = 8*c + 3
    BY <1>2, SMT
  <2>. QED  BY <1>4, <2>1, SMT DEF Byte
<1>9. Byte(4*c + 2) = ((t \div 65536) % 16) + 16 * ((t \div 1048576) % 16)
  <2>1. 2 * (4*c + 2) = 8*c + 4 /\ 2 * (4*c + 2) + 1 = 8*c + 5
    BY <1>2, SMT
  <2>. QED  BY <1>5, <2>1, SMT DEF Byte
<1>10. Byte(4*c + 3) % 16 = (t \div 16777216) % 16
  <2>1. 2 * (4*c + 3) = 8*c + 6 /\ 2 * (4*c + 3) + 1 = 8*c + 7
    BY <1>2, SMT
  <2>2. PICK x \in 0..15 : x = (t \div 16777216) % 16
    BY <1>1, SMT
  <2>3. PICK y \in 0..15 : y = Nibble(8*c + 7)
    BY <1>6
  <2>4. Byte(4*c + 3) = x + 16 * y
    BY <1>6, <2>1, <2>2, <2>3, SMT DEF Byte
  <2>5. (x + 16 * y) % 16 = x
    BY SMT
  <2>. QED  BY <2>2, <2>4, <2>5
<1>11. FATEntryVal(c) = Byte(4*c + 0) + 256 * Byte(4*c + 1) + 65536 * Byte(4*c + 2)
                          + 16777216 * (Byte(4*c + 3) % 16)
  <2>1. PICK s : s = (4*c) \div sector_size
    OBVIOUS
  <2>2. PICK o \in Nat : o = (4*c) % sector_size
    BY <1>2, FatAssumption, SMT
  <2>3. secbuf(s, o + 0) = Byte(4*c + 0) /\ secbuf(s, o + 1) = Byte(4*c + 1)
    BY <1>2, <2>1, <2>2, SectorsHold, SMT
  <2>4. secbuf(s, o + 2) = Byte(4*c + 2) /\ secbuf(s, o + 3) = Byte(4*c + 3)
    BY <1>2, <2>1, <2>2, SectorsHold, SMT
  <2>5. FATEntryVal(c) = secbuf(s, o) + 256 * secbuf(s, o + 1) + 65536 * secbuf(s, o + 2)
                           + 16777216 * (secbuf(s, o + 3) % 16)
    BY <1>2, <2>1, <2>2, SMT DEF FATEntryVal
  <2>6. o + 0 = o
    BY SMT
  <2>. QED  BY <2>3, <2>4, <2>5, <2>6, SMT
<1>12. t = (t % 16) + 16 * ((t \div 16) % 16) + 256 * ((t \div 256) % 16)
             + 4096 * ((t \div 4096) % 16) + 65536 * ((t \div 65536) % 16)
             + 1048576 * ((t \div 1048576) % 16) + 16777216 * ((t \div 16777216) % 16)
  BY <1>1, SevenDigits, SMT
<1>20. PICK d0 \in 0..15 : d0 = t % 16
  BY SMT
<1>21. PICK d1 \in 0..15 : d1 = (t \div 16) % 16
  BY SMT
<1>22. PICK d2 \in 0..15 : d2 = (t \div 256) % 16
  BY SMT
<1>23. PICK d3 \in 0..15 : d3 = (t \div 4096) % 16
  BY SMT
<1>24. PICK d4 \in 0..15 : d4 = (t \div 65536) % 16
  BY SMT
<1>25. PICK d5 \in 0..15 : d5 = (t \div 1048576) % 16
  BY SMT
<1>26. PICK d6 \in 0..15 : d6 = (t \div 16777216) % 16
  BY SMT
<1>13. t = d0 + 16 * d1 + 256 * d2 + 4096 * d3 + 65536 * d4 + 1048576 * d5 + 16777216 * d6
  BY <1>12, <1>20, <1>21, <1>22, <1>23, <1>24, <1>25, <1>26, SMT
<1>14. FATEntryVal(c) = (d0 + 16 * d1) + 256 * (d2 + 16 * d3) + 65536 * (d4 + 16 * d5)
                          + 16777216 * d6
  BY <1>7, <1>8, <1>9, <1>10, <1>11, <1>20, <1>21, <1>22, <1>23, <1>24, <1>25, <1>26, SMT
<1>. QED  BY <1>1, <1>13, <1>14, SMT

LEMMA Entry12 ==
  ASSUME DiskOK, type = 1, NEW c \in Clusters
  PROVE  FATEntryVal(c) = table[c]
<1>1. PICK t \in Nat : t = table[c] /\ t < 4096
  BY EntryType, SMT
<1>2. c \in Nat /\ Width = 3
  BY EntryType, SMT DEF Width
<1>3. PICK h \in Nat : h = c \div 2
  BY <1>2, SMT
<1>4. PICK f \in Nat : f = c + h
  BY <1>2, SMT
<1>5. FAToffset(c) = f
  BY <1>3, <1>4, SMT DEF FAToffset
<1>6. /\ Nibble(3*c + 0) = (t \div 1) % 16 /\ Nibble(3*c + 1) = (t \div 16) % 16
      /\ Nibble(3*c + 2) = (t \div 256) % 16
  BY <1>1, <1>2, NibbleIs, SMT DEF Pow16
<1>20. PICK d0 \in 0..15 : d0 = t % 16
  BY SMT
<1>21. PICK d1 \in 0..15 : d1 = (t \div 16) % 16
  BY SMT
<1>22. PICK d2 \in 0..15 : d2 = (t \div 256) % 16
  BY SMT
<1>7. t = (t % 16) + 16 * ((t \div 16) % 16) + 256 * ((t \div 256) % 16)
  BY <1>1, ThreeDigits, SMT
<1>8. t = d0 + 16 * d1 + 256 * d2
  BY <1>7, <1>20, <1>21, <1>22, SMT
<1>9. Nibble(3*c + 0) = d0 /\ Nibble(3*c + 1) = d1 /\ Nibble(3*c + 2) = d2
  BY <1>6, <1>20, <1>21, <1>22, SMT
<1>10. FATEntryVal(c) = LET u16 == Byte(f + 0) + 256 * Byte(f + 1)
                        IN  IF c % 2 = 1 THEN u16 \div 16 ELSE u16 % 4096
  <2>1. PICK s : s = f \div sector_size
    OBVIOUS
  <2>2. PICK o \in Nat : o = f % sector_size
    BY FatAssumption, SMT
  <2>3. secbuf(s, o + 0) = Byte(f + 0) /\ secbuf(s, o + 1) = Byte(f + 1)
    BY <2>1, <2>2, SectorsHold, SMT
  <2>4. PICK u : u = secbuf(s, o) + 256 * secbuf(s, o + 1)
    OBVIOUS
  <2>5. FATEntryVal(c) = IF c % 2 = 1 THEN u \div 16 ELSE u % 4096
    BY <1>5, <2>1, <2>2, <2>4, SMT DEF FATEntryVal
  <2>6. o + 0 = o
    BY SMT
  <2>. QED  BY <2>3, <2>4, <2>5, <2>6
<1>11. CASE c % 2 = 0
  <2>1. c = 2*h /\ f = 3*h
    BY <1>2, <1>3, <1>4, <1>11, SMT
  <2>2. /\ 2 * (f + 0) = 3*c + 0 /\ 2 * (f + 0) + 1 = 3*c + 1
        /\ 2 * (f + 1) = 3*c + 2 /\ 2 * (f + 1) + 1 \in Nat
    BY <2>1, SMT
  <2>3. PICK x \in 0..15 : x = Nibble(2 * (f + 1) + 1)
    BY <2>2, NibbleIsSmall
  <2>4. Byte(f + 0) = d0 + 16 * d1 /\ Byte(f + 1) = d2 + 16 * x
    BY <1>9, <2>2, <2>3, SMT DEF Byte
  <2>5. FATEntryVal(c) = (d0 + 16 * d1 + 256 * (d2 + 16 * x)) % 4096
    BY <1>10, <1>11, <2>4, SMT
  <2>6. (d0 + 16 * d1 + 256 * (d2 + 16 * x)) % 4096 = d0 + 16 * d1 + 256 * d2
    BY SMT
  <2>. QED  BY <1>1, <1>8, <2>5, <2>6
<1>12. CASE c % 2 = 1
  <2>1. c = 2*h + 1 /\ f = 3*h + 1
    BY <1>2, <1>3, <1>4, <1>12, SMT
  <2>2. /\ 2 * (f + 0) \in Nat /\ 2 * (f + 0) + 1 = 3*c + 0
        /\ 2 * (f + 1) = 3*c + 1 /\ 2 * (f + 1) + 1 = 3*c + 2
    BY <2>1, SMT
  <2>3. PICK x \in 0..15 : x = Nibble(2 * (f + 0))
    BY <2>2, NibbleIsSmall
  <2>4. Byte(f + 0) = x + 16 * d0 /\ Byte(f + 1) = d1 + 16 * d2
    BY <1>9, <2>2, <2>3, SMT DEF Byte
  <2>5. FATEntryVal(c) = (x + 16 * d0 + 256 * (d1 + 16 * d2)) \div 16
    BY <1>10, <1>12, <2>4, SMT
  <2>6. (x + 16 * d0 + 256 * (d1 + 16 * d2)) \div 16 = d0 + 16 * d1 + 256 * d2
    BY SMT
  <2>. QED  BY <1>1, <1>8, <2>5, <2>6
<1>13. c % 2 = 0 \/ c % 2 = 1
  BY <1>2, SMT
<1>. QED  BY <1>11, <1>12, <1>13

LEMMA EntryIs ==
  ASSUME DiskOK, NEW c \in Clusters
  PROVE  FATEntryVal(c) = table[c]
<1>1. type = 1 \/ type = 2 \/ type = 3
  BY DEF DiskOK
<1>. QED  BY <1>1, Entry12, Entry16, Entry32

-----------------------------------------------------------------------------
(***************************************************************************)
(* do_cdiv rounds up.                                                      *)
(***************************************************************************)
LEMMA CdivIs ==
  ASSUME NEW s \in Nat, NEW d \in Nat \ {0}
  PROVE  /\ do_cdiv(s, d) \in Nat
         /\ do_cdiv(s, d) * d >= s
         /\ do_cdiv(s, d) >= 1 => (do_cdiv(s, d) - 1) * d < s
<1>1. PICK q \in Nat, r \in 0..d-1 : q = s \div d /\ r = s % d
  OBVIOUS
<1>2. PICK m \in Nat : m = q * d
  OBVIOUS
<1>3. s = m + r
  <2>1. r = s - q * d
    BY <1>1
  <2>. QED  BY <1>2, <2>1
<1>4. (q + 1) * d = m + d
  BY <1>2
<1>5. CASE r = 0
  <2>1. do_cdiv(s, d) = q
    BY <1>1, <1>5 DEF do_cdiv
  <2>2. q >= 1 => (q - 1) * d < s
    <3>1. SUFFICES ASSUME q >= 1 PROVE (q - 1) * d < s
      OBVIOUS
    <3>2. PICK x \in Int : x = (q - 1) * d
      OBVIOUS
    <3>3. x = m - d
      BY <1>2, <3>2
    <3>4. x < s
      BY <1>3, <3>3
    <3>. QED  BY <3>2, <3>4
  <2>3. q * d >= s
    BY <1>2, <1>3, <1>5
  <2>. QED  BY <2>1, <2>2, <2>3
<1>6. CASE r # 0
  <2>1. do_cdiv(s, d) = q + 1
    BY <1>1, <1>6 DEF do_cdiv
  <2>2. (q + 1) * d >= s /\ q * d < s
    BY <1>2, <1>3, <1>4, <1>6
  <2>3. (q + 1) - 1 = q
    OBVIOUS
  <2>. QED  BY <2>1, <2>2, <2>3
<1>. QED  BY <1>5, <1>6

LEMMA ProductMonotone ==
  ASSUME NEW d \in Nat, NEW x \in Int, NEW y \in Int, x <= y
  PROVE  x * d <= y * d
OBVIOUS

(***************************************************************************)
(* The inductive invariant: index is what the table says behind the last   *)
(* entry of the map, and count is what the map still lacks, but for the    *)
(* round that met the end mark, after which it is not decremented.         *)
(***************************************************************************)
Chain ==
  /\ block \in Seq(Clusters)
  /\ index \in Clusters \cup EndMarks
  /\ block = <<>> => index = first
  /\ block # <<>> => block[1] = first /\ index = table[block[Len(block)]]
  /\ \A i \in 1..Len(block)-1 : block[i+1] = table[block[i]]

Counted ==
  /\ count \in Int /\ done \in BOOLEAN
  /\ count = do_cdiv(size, blk_size) - Len(block) + (IF eeof(index) THEN 1 ELSE 0)
  /\ count >= -1
  /\ ~done => count >= 0 /\ ~eeof(index)
  /\ eeof(index) => count >= 0 /\ Len(block) >= 1
  /\ done /\ ~eeof(index) => count = -1

Inv == DiskOK /\ Chain /\ Counted

(***************************************************************************)
(* eeof tells the end marks from the clusters.                             *)
(***************************************************************************)
LEMMA EofIs ==
  ASSUME DiskOK
  PROVE  /\ \A x \in Clusters : ~eeof(x)
         /\ \A x \in EndMarks : eeof(x)
<1>1. PICK m \in Nat : m = EofMark
  BY MarkIs DEF DiskOK
<1>2. LastCluster \in Nat /\ LastCluster < m
  BY <1>1, FatAssumption DEF DiskOK
<1>3. ASSUME NEW x \in Clusters PROVE ~eeof(x)
  BY <1>1, <1>2 DEF eeof, Clusters
<1>4. ASSUME NEW x \in EndMarks PROVE eeof(x)
  <2>1. PICK k \in 0..7 : x = m + k
    BY <1>1, FatAssumption DEF EndMarks
  <2>. QED  BY <1>1, <2>1 DEF eeof
<1>. QED  BY <1>3, <1>4

LEMMA InitInv == Init => Inv
<1>. SUFFICES ASSUME Init PROVE Inv
  OBVIOUS
<1>0. blk_size \in Nat \ {0} /\ Sizes \subseteq Nat
  BY FatAssumption
<1>1. DiskOK
  BY <1>0 DEF Init, DiskOK
<1>2. Chain
  BY <1>1 DEF Init, Chain, DiskOK
<1>3. ~eeof(index)
  BY <1>1, EofIs DEF Init, DiskOK
<1>4. PICK n \in Nat : n = do_cdiv(size, blk_size)
  BY <1>0, <1>1, CdivIs DEF DiskOK
<1>5. count = n /\ done = FALSE /\ Len(block) = 0
  BY <1>4 DEF Init
<1>6. Counted
  <2>1. count = n - Len(block) + (IF eeof(index) THEN 1 ELSE 0)
    BY <1>3, <1>5
  <2>2. count \in Int /\ count >= 0 /\ count >= -1
    BY <1>5
  <2>3. done \in BOOLEAN /\ ~done
    BY <1>5
  <2>. QED  BY <1>3, <1>4, <2>1, <2>2, <2>3 DEF Counted
<1>. QED  BY <1>1, <1>2, <1>6 DEF Inv

LEMMA StepInv ==
  ASSUME Inv, read_map
  PROVE  Inv'
<1>1. DiskOK /\ Chain /\ Counted
  BY DEF Inv
<1>2. /\ type' = type /\ table' = table /\ reserved' = reserved /\ first' = first
      /\ size' = size
  BY DEF read_map, disk
<1>3. EofMark' = EofMark /\ EndMarks' = EndMarks
  BY <1>2 DEF EofMark, EndMarks
<1>4. DiskOK'
  BY <1>1, <1>2, <1>3 DEF DiskOK
<1>5. index \in Clusters
  BY <1>1, EofIs DEF Chain, Counted, read_map
<1>6. index' = table[index] /\ index' \in Clusters \cup EndMarks
  BY <1>1, <1>5, EntryIs DEF read_map, DiskOK
<1>7. PICK m \in Nat : m = Len(block)
  BY <1>1 DEF Chain
<1>8. /\ block' = Append(block, index) /\ block' \in Seq(Clusters) /\ Len(block') = m + 1
      /\ block'[m + 1] = index /\ \A i \in 1..m : block'[i] = block[i]
  BY <1>1, <1>5, <1>7, AppendProperties DEF read_map, Chain
<1>9. Chain'
  <2>1. block' # <<>>
    BY <1>7, <1>8
  <2>2. block'[1] = first
    <3>1. CASE m = 0
      BY <1>1, <1>7, <1>8, <3>1, EmptySeq DEF Chain
    <3>2. CASE m # 0
      BY <1>1, <1>7, <1>8, <3>2, EmptySeq DEF Chain
    <3>. QED  BY <3>1, <3>2
  <2>3. ASSUME NEW i \in 1..m PROVE block'[i + 1] = table[block'[i]]
    <3>1. CASE i = m
      <4>1. block # <<>>
        BY <1>7, <3>1
      <4>. QED  BY <1>1, <1>7, <1>8, <3>1, <4>1 DEF Chain
    <3>2. CASE i # m
      <4>1. i \in 1..m-1 /\ i + 1 \in 1..m
        BY <3>2
      <4>2. block[i + 1] = table[block[i]]
        BY <1>1, <1>7, <4>1 DEF Chain
      <4>. QED  BY <1>8, <4>1, <4>2
    <3>. QED  BY <3>1, <3>2
  <2>4. (m + 1) - 1 = m
    OBVIOUS
  <2>5. index' = table[block'[Len(block')]]
    BY <1>6, <1>8
  <2>. QED  BY <1>2, <1>3, <1>6, <1>8, <2>1, <2>2, <2>3, <2>4, <2>5 DEF Chain
<1>10. PICK n \in Nat : n = do_cdiv(size, blk_size)
  BY <1>1, FatAssumption, CdivIs DEF DiskOK
<1>11. do_cdiv(size, blk_size)' = n
  BY <1>2, <1>10 DEF do_cdiv
<1>12. PICK e \in BOOLEAN : (e <=> eeof(index'))
  OBVIOUS
<1>13. e <=> eeof(index)'
  BY <1>3, <1>12 DEF eeof
<1>14. count \in Int /\ count = n - m /\ count >= 0
  BY <1>1, <1>7, <1>10 DEF Counted, read_map
<1>15. count' = (IF e THEN count ELSE count - 1) /\ (done' <=> ~(~e /\ count > 0))
       /\ done' \in BOOLEAN
  BY <1>12 DEF read_map, goes_on
<1>16. Counted'
  BY <1>8, <1>11, <1>13, <1>14, <1>15 DEF Counted
<1>. QED  BY <1>4, <1>9, <1>16 DEF Inv

-----------------------------------------------------------------------------
(***************************************************************************)
(* read_map keeps the chain and the count of what it still needs in step:  *)
(* the inductive invariant.                                                *)
(***************************************************************************)
THEOREM InvHolds == Spec => []Inv
<1>1. ASSUME Inv, UNCHANGED vars PROVE Inv'
  <2>1. /\ type' = type /\ table' = table /\ reserved' = reserved /\ first' = first
        /\ size' = size /\ done' = done /\ block' = block /\ index' = index
        /\ count' = count
    BY <1>1 DEF vars, disk
  <2>2. EofMark' = EofMark /\ EndMarks' = EndMarks
    BY <2>1 DEF EofMark, EndMarks
  <2>3. DiskOK' /\ Chain'
    BY <1>1, <2>1, <2>2 DEF Inv, DiskOK, Chain
  <2>4. Counted'
    BY <1>1, <2>1, <2>2 DEF Inv, Counted, do_cdiv, eeof
  <2>. QED  BY <2>3, <2>4 DEF Inv
<1>2. ASSUME Inv, [read_map]_vars PROVE Inv'
  BY <1>1, <1>2, StepInv
<1>. QED  BY <1>2, InitInv, PTL DEF Spec

(***************************************************************************)
(* FATEntryVal (inode.c:69-101) returns for each cluster the entry that    *)
(* the disk's table has for it: in FAT12, FAT16 and FAT32, for odd and     *)
(* even clusters, whatever the neighbouring entries and the reserved bits  *)
(* are and wherever the end of a sector falls.                             *)
(***************************************************************************)
THEOREM EntryValHolds == Spec => [](\A c \in Clusters : FATEntryVal(c) = table[c])
<1>1. Inv => \A c \in Clusters : FATEntryVal(c) = table[c]
  BY EntryIs DEF Inv
<1>. QED  BY <1>1, InvHolds, PTL

(***************************************************************************)
(* read_map writes only numbers of clusters into ip->block, never an end   *)
(* mark, and count is at most once taken below zero (inode.c:112-117).     *)
(***************************************************************************)
THEOREM TypeOKHolds == Spec => []TypeOK
<1>1. ASSUME Inv PROVE TypeOK
  <2>1. PICK n \in Nat : n = do_cdiv(size, blk_size)
    BY <1>1, FatAssumption, CdivIs DEF Inv, DiskOK
  <2>2. PICK m \in Nat : m = Len(block)
    BY <1>1 DEF Inv, Chain
  <2>3. /\ count \in Int /\ count = n - m + (IF eeof(index) THEN 1 ELSE 0)
        /\ count >= -1 /\ (eeof(index) => m >= 1)
    BY <1>1, <2>1, <2>2 DEF Inv, Counted
  <2>4. count \in -1 .. n
    BY <2>3
  <2>. QED  BY <1>1, <2>1, <2>4 DEF Inv, Chain, Counted, TypeOK
<1>. QED  BY <1>1, InvHolds, PTL

(***************************************************************************)
(* Each cluster in ip->block is the successor of the one before it in the  *)
(* disk's table, and the first is the file's first (inode.c:111-117).      *)
(***************************************************************************)
THEOREM MapFollowsChainHolds == Spec => []MapFollowsChain
<1>1. Inv => MapFollowsChain
  BY DEF Inv, Chain, MapFollowsChain
<1>. QED  BY <1>1, InvHolds, PTL

(***************************************************************************)
(* read_map stops with fewer clusters than the size of the file needs only *)
(* where the chain itself ends (inode.c:109-117).                          *)
(***************************************************************************)
THEOREM MapCoversFileHolds == Spec => []MapCoversFile
<1>1. ASSUME Inv, done, index \notin EndMarks PROVE Len(block) * blk_size >= size
  <2>0. size \in Nat /\ blk_size \in Nat \ {0}
    BY <1>1, FatAssumption DEF Inv, DiskOK
  <2>1. PICK n \in Nat : n = do_cdiv(size, blk_size)
    BY <2>0, CdivIs
  <2>2. PICK m \in Nat : m = Len(block)
    BY <1>1 DEF Inv, Chain
  <2>3. ~eeof(index)
    BY <1>1, EofIs DEF Inv, Chain
  <2>4. count = n - m /\ count = -1
    BY <1>1, <2>1, <2>2, <2>3 DEF Inv, Counted
  <2>5. n <= m
    BY <2>4
  <2>6. n * blk_size <= m * blk_size /\ n * blk_size >= size
    BY <2>0, <2>1, <2>5, ProductMonotone, CdivIs
  <2>7. m * blk_size >= size
    BY <2>0, <2>6
  <2>. QED  BY <2>2, <2>7
<1>2. Inv => MapCoversFile
  BY <1>1 DEF MapCoversFile
<1>. QED  BY <1>2, InvHolds, PTL

(***************************************************************************)
(* read_map stores at most one cluster more than the size of the file      *)
(* needs, whatever the table says, also where the chain is a cycle         *)
(* (inode.c:112-117): ip->block is overrun by no file of up to nine        *)
(* clusters.                                                               *)
(***************************************************************************)
THEOREM MapBoundedHolds == Spec => []MapBounded
<1>1. ASSUME Inv, Len(block) > 1 PROVE size > (Len(block) - 2) * blk_size
  <2>0. size \in Nat /\ blk_size \in Nat \ {0}
    BY <1>1, FatAssumption DEF Inv, DiskOK
  <2>1. PICK n \in Nat : n = do_cdiv(size, blk_size)
    BY <2>0, CdivIs
  <2>2. PICK m \in Nat : m = Len(block)
    BY <1>1 DEF Inv, Chain
  <2>3. /\ count \in Int /\ count = n - m + (IF eeof(index) THEN 1 ELSE 0)
        /\ count >= -1 /\ (eeof(index) => count >= 0)
    BY <1>1, <2>1, <2>2 DEF Inv, Counted
  <2>4. m <= n + 1 /\ m > 1
    BY <1>1, <2>2, <2>3
  <2>5. m - 2 <= n - 1 /\ n >= 1
    BY <2>4
  <2>6. (n - 1) * blk_size < size
    BY <2>0, <2>1, <2>5, CdivIs
  <2>7. (m - 2) * blk_size <= (n - 1) * blk_size
    BY <2>0, <2>5, ProductMonotone
  <2>8. PICK x \in Int, y \in Int : x = (m - 2) * blk_size /\ y = (n - 1) * blk_size
    BY <2>0
  <2>9. x <= y /\ y < size
    BY <2>6, <2>7, <2>8
  <2>10. size > x
    BY <2>0, <2>9
  <2>. QED  BY <2>2, <2>8, <2>10
<1>2. Inv => MapBounded
  BY <1>1 DEF MapBounded
<1>. QED  BY <1>2, InvHolds, PTL
=============================================================================
