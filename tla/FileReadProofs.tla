--------------------------- MODULE FileReadProofs ---------------------------
(***************************************************************************)
(* Reading files, for any number of readers and files, any way of sharing  *)
(* them, any buffers, any cluster size and any sizes and requests.         *)
(***************************************************************************)
EXTENDS FileRead, TLAPS

-----------------------------------------------------------------------------
(***************************************************************************)
(* Quotient and remainder.                                                 *)
(***************************************************************************)
LEMMA DivMod ==
  ASSUME NEW C \in Nat \ {0}, NEW a \in Nat
  PROVE  \E q \in Nat, r \in 0..C-1 : q = a \div C /\ r = a % C /\ a = q * C + r
<1>1. a \div C \in Nat /\ a % C \in 0..C-1
  OBVIOUS
<1>2. PICK q \in Nat, r \in 0..C-1 : q = a \div C /\ r = a % C
  BY <1>1
<1>3. r = a - q * C
  BY <1>2
<1>4. q * C \in Nat
  OBVIOUS
<1>5. a = q * C + r
  BY <1>3, <1>4
<1>. QED  BY <1>2, <1>5

LEMMA ProductGrows ==
  ASSUME NEW C \in Nat \ {0}, NEW x \in Nat, NEW y \in Nat, x < y
  PROVE  x * C + C <= y * C
OBVIOUS

LEMMA DivModIs ==
  ASSUME NEW C \in Nat \ {0}, NEW q \in Nat, NEW r \in 0..C-1
  PROVE  (q * C + r) \div C = q /\ (q * C + r) % C = r
<1>1. PICK a \in Nat : a = q * C + r
  OBVIOUS
<1>2. PICK d \in Nat, m \in 0..C-1 : d = a \div C /\ m = a % C /\ a = d * C + m
  BY DivMod
<1>3. q * C \in Nat /\ d * C \in Nat
  OBVIOUS
<1>4. ~(d < q)
  <2>1. SUFFICES ASSUME d < q PROVE FALSE
    OBVIOUS
  <2>2. d * C + C <= q * C
    BY <2>1, ProductGrows
  <2>. QED  BY <1>1, <1>2, <1>3, <2>2
<1>5. ~(q < d)
  <2>1. SUFFICES ASSUME q < d PROVE FALSE
    OBVIOUS
  <2>2. q * C + C <= d * C
    BY <2>1, ProductGrows
  <2>. QED  BY <1>1, <1>2, <1>3, <2>2
<1>6. d = q
  BY <1>4, <1>5
<1>. QED  BY <1>1, <1>2, <1>6

(***************************************************************************)
(* A round of filp_read is within what is left, within its cluster and     *)
(* within the file, and it is not empty.                                   *)
(***************************************************************************)
IsRound(pos, l, c, o, v) ==
  /\ c \in Nat /\ o \in Nat /\ pos = c * Clusz + o /\ c * Clusz \in Nat
  /\ v \in Nat /\ v >= 1 /\ v <= l /\ o + v <= Clusz /\ pos + v <= filesz

LEMMA RoundIs ==
  ASSUME filesz \in Nat, NEW pos \in Nat, pos < filesz, NEW l \in Nat, l > 0,
         NEW c, c = pos \div Clusz, NEW o, o = pos % Clusz, NEW v, v = valid_size(c, o, l)
  PROVE  IsRound(pos, l, c, o, v)
<1>0. Clusz \in Nat \ {0}
  BY FileReadAssumption
<1>1. c \in Nat /\ o \in 0..Clusz-1 /\ pos = c * Clusz + o
  BY <1>0, DivMod
<1>2. PICK Q \in Nat, R \in 0..Clusz-1 :
        Q = filesz \div Clusz /\ R = filesz % Clusz /\ filesz = Q * Clusz + R
  BY <1>0, DivMod
<1>3. c * Clusz \in Nat /\ Q * Clusz \in Nat
  BY <1>0, <1>1
<1>4. PICK e : e = cluster_end(c)
  OBVIOUS
<1>5. e = IF c = Q /\ R # 0 THEN R ELSE Clusz
  BY <1>2, <1>4 DEF cluster_end
<1>6. e \in Nat /\ o < e /\ e <= Clusz /\ c * Clusz + e <= filesz
  <2>1. CASE c = Q
    <3>1. o < R
      BY <1>1, <1>2, <1>3, <2>1
    <3>. QED  BY <1>0, <1>1, <1>2, <1>3, <1>5, <2>1, <3>1
  <2>2. CASE c < Q
    <3>1. c * Clusz + Clusz <= Q * Clusz
      BY <1>0, <1>1, <2>2, ProductGrows
    <3>2. c \in Int /\ Q \in Int
      BY <1>1
    <3>6. c # Q
      BY <3>2, <2>2
    <3>5. e = Clusz
      BY <1>5, <3>6
    <3>3. c * Clusz + Clusz <= filesz
      BY <1>0, <1>2, <1>3, <3>1
    <3>4. o < Clusz
      BY <1>0, <1>1
    <3>. QED  BY <1>0, <3>5, <3>3, <3>4
  <2>3. CASE c > Q
    <3>1. Q * Clusz + Clusz <= c * Clusz
      BY <1>0, <1>1, <2>3, ProductGrows
    <3>. QED  BY <1>0, <1>1, <1>2, <1>3, <3>1
  <2>. QED  BY <1>1, <2>1, <2>2, <2>3
<1>7. v = IF l < e - o THEN l ELSE e - o
  BY <1>4 DEF valid_size
<1>8. v \in Nat /\ v >= 1 /\ v <= l /\ v <= e - o
  BY <1>1, <1>6, <1>7
<1>9. o + v <= Clusz /\ pos + v <= filesz
  BY <1>0, <1>1, <1>3, <1>6, <1>8
<1>. QED  BY <1>1, <1>3, <1>8, <1>9 DEF IsRound

(***************************************************************************)
(* The byte at o of cluster c is byte c * Clusz + o of the file.           *)
(***************************************************************************)
LEMMA ByteIs ==
  ASSUME NEW c \in Nat, NEW o \in Nat, o < Clusz
  PROVE  FileByte(c * Clusz + o) = <<c, o>>
<1>1. Clusz \in Nat \ {0} /\ o \in 0..Clusz-1
  BY FileReadAssumption
<1>2. (c * Clusz + o) \div Clusz = c /\ (c * Clusz + o) % Clusz = o
  BY <1>1, DivModIs
<1>. QED  BY <1>2 DEF FileByte

-----------------------------------------------------------------------------
(***************************************************************************)
(* The inductive invariant.  Each call has room at buf for what is left,   *)
(* and the round it sleeps in was cut when it began: f_pos may have been   *)
(* moved since by another reader of the same file, the round still lies in *)
(* the file.  Only where the file is private does the round still begin at *)
(* f_pos; and only while every round was copied and no other call fills    *)
(* the same addresses is the memory at buf the stretch behind oldpos.      *)
(***************************************************************************)
Chunks == [Clu : Nat, offset : Nat, valid : Nat]

Types ==
  /\ filesz \in Sizes /\ f_pos \in [Files -> Nat]
  /\ pc \in [Readers -> {"user", "loop", "get_block"}]
  /\ start \in [Readers -> Nat] /\ put \in [Readers -> Nat]
  /\ size \in [Readers -> Nat \ {0}]
  /\ asked \in [Readers -> Nat] /\ left \in [Readers -> Nat]
  /\ oldpos \in [Readers -> Nat]
  /\ chunk \in [Readers -> Chunks]
  /\ whole \in [Readers -> BOOLEAN]

HasRoom(p) ==
  /\ ~Calling(p) => put[p] = 0
  /\ Calling(p) => FileOf[p] \in Files
  /\ put[p] + left[p] <= asked[p]

RoundInFile(p) ==
  /\ pc[p] # "get_block" => chunk[p] = NoChunk
  /\ pc[p] = "get_block" =>
       /\ chunk[p].valid >= 1 /\ chunk[p].valid <= left[p]
       /\ chunk[p].offset + chunk[p].valid <= Clusz
       /\ chunk[p].Clu * Clusz + chunk[p].offset + chunk[p].valid <= filesz

InPlace(p) ==
  Private(p) /\ FileOf[p] \in Files =>
    /\ f_pos[FileOf[p]] <= filesz
    /\ Calling(p) =>
         /\ oldpos[p] + asked[p] = f_pos[FileOf[p]] + left[p]
         /\ oldpos[p] <= f_pos[FileOf[p]]
         /\ whole[p] => oldpos[p] + put[p] = f_pos[FileOf[p]]
    /\ pc[p] = "get_block" =>
         chunk[p].Clu * Clusz + chunk[p].offset = f_pos[FileOf[p]]

Holds(p, i) ==
  /\ start[p] + i \in DOMAIN mem
  /\ mem[start[p] + i] = FileByte(oldpos[p] + i)

Delivered(p) ==
  Private(p) /\ Calling(p) /\ whole[p]
    => \A i \in 0..(put[p] - 1) : Holds(p, i)

Reader(p) == HasRoom(p) /\ RoundInFile(p) /\ InPlace(p) /\ Delivered(p)

Apart(p, q) ==
  p # q /\ Calling(p) /\ Calling(q) /\ whole[p] => window(p) \cap window(q) = {}

Inv ==
  /\ Types
  /\ \A p \in Readers : Reader(p)
  /\ \A p, q \in Readers : Apart(p, q)
  /\ BufferSafe

LEMMA InitInv == Init => Inv
<1>. SUFFICES ASSUME Init PROVE Inv
  OBVIOUS
<1>0. Sizes \subseteq Nat
  BY FileReadAssumption
<1>1. Types
  BY <1>0 DEF Init, Types, Chunks, NoChunk
<1>2. ASSUME NEW p \in Readers PROVE Reader(p)
  <2>1. /\ ~Calling(p) /\ pc[p] = "user" /\ asked[p] = 0 /\ left[p] = 0 /\ put[p] = 0
        /\ chunk[p] = NoChunk /\ filesz \in Nat
        /\ FileOf[p] \in Files => f_pos[FileOf[p]] = 0
    BY <1>0 DEF Init, Calling
  <2>. QED
    BY <2>1 DEF Reader, HasRoom, RoundInFile, InPlace, Delivered
<1>3. ASSUME NEW p \in Readers, NEW q \in Readers PROVE Apart(p, q)
  BY DEF Apart, Calling, Init
<1>4. BufferSafe
  BY DEF BufferSafe, Init
<1>. QED  BY <1>1, <1>2, <1>3, <1>4 DEF Inv

(***************************************************************************)
(* A reader is not touched by another one, but for the position of a file  *)
(* they share and the memory they share.                                   *)
(***************************************************************************)
LEMMA OtherReader ==
  ASSUME NEW q \in Readers, Reader(q), filesz' = filesz, pc'[q] = pc[q],
         start'[q] = start[q], put'[q] = put[q], oldpos'[q] = oldpos[q],
         asked'[q] = asked[q], left'[q] = left[q], chunk'[q] = chunk[q],
         whole'[q] => whole[q],
         Private(q) /\ FileOf[q] \in Files => f_pos'[FileOf[q]] = f_pos[FileOf[q]],
         Calling(q) /\ whole'[q] =>
           \A i \in 0..(put[q] - 1) : start[q] + i \in DOMAIN mem =>
             start[q] + i \in DOMAIN mem' /\ mem'[start[q] + i] = mem[start[q] + i]
  PROVE  Reader(q)'
<1>1. Private(q)' = Private(q) /\ Calling(q)' = Calling(q)
  BY DEF Private, Calling
<1>2. HasRoom(q)' /\ RoundInFile(q)'
  BY <1>1 DEF Reader, HasRoom, RoundInFile
<1>3. InPlace(q)'
  BY <1>1 DEF Reader, InPlace
<1>4. Delivered(q)'
  BY <1>1 DEF Reader, Delivered, Holds, FileByte
<1>. QED  BY <1>2, <1>3, <1>4 DEF Reader

LEMMA OtherWindow ==
  ASSUME NEW p \in Readers, NEW q \in Readers, Apart(p, q),
         pc'[p] = pc[p], pc'[q] = pc[q], start'[p] = start[p], start'[q] = start[q],
         asked'[p] = asked[p], asked'[q] = asked[q], whole'[p] => whole[p]
  PROVE  Apart(p, q)'
BY DEF Apart, Calling, window

(***************************************************************************)
(* sys_read begins a call, and takes `whole' from those it shares memory   *)
(* with.                                                                   *)
(***************************************************************************)
LEMMA SysReadInv ==
  ASSUME Inv, NEW p \in Readers, NEW a \in Buffers[p], NEW r \in Requests, sys_read(p, a, r),
         ~UNCHANGED vars
  PROVE  Inv'
<1>0. /\ FileOf[p] \in Files \cup {NoFile} /\ a \in Nat /\ r[1] \in Nat \ {0} /\ r[2] \in Nat
      /\ Types /\ Reader(p) /\ Sizes \subseteq Nat
  BY FileReadAssumption DEF Inv
<1>1. PICK n \in Nat : n = r[1] * r[2]
  BY <1>0
<1>2. PICK shared : shared = {q \in Readers \ {p} : Calling(q) /\ window(q) \cap window(p)' # {}}
  OBVIOUS
<1>3. /\ pc[p] = "user" /\ FileOf[p] \in Files
      /\ pc' = [pc EXCEPT ![p] = "loop"] /\ start' = [start EXCEPT ![p] = a]
      /\ size' = [size EXCEPT ![p] = r[1]] /\ asked' = [asked EXCEPT ![p] = n]
      /\ left' = [left EXCEPT ![p] = n] /\ oldpos' = [oldpos EXCEPT ![p] = f_pos[FileOf[p]]]
      /\ whole' = [q \in Readers |-> IF q = p THEN shared = {} ELSE whole[q] /\ q \notin shared]
      /\ filesz' = filesz /\ f_pos' = f_pos /\ put' = put /\ chunk' = chunk /\ mem' = mem
  BY <1>0, <1>1, <1>2 DEF sys_read
<1>4. f_pos[FileOf[p]] \in Nat
  BY <1>0, <1>3 DEF Types
<1>5. whole' \in [Readers -> BOOLEAN]
  BY <1>0, <1>3 DEF Types
<1>6. Types'
  BY <1>0, <1>3, <1>4, <1>5 DEF Types
<1>7. ASSUME NEW q \in Readers, q # p
      PROVE  /\ pc'[q] = pc[q] /\ start'[q] = start[q] /\ put'[q] = put[q]
             /\ oldpos'[q] = oldpos[q] /\ asked'[q] = asked[q] /\ left'[q] = left[q]
             /\ whole'[q] = (whole[q] /\ q \notin shared)
  BY <1>0, <1>3, <1>7 DEF Types
<1>8. /\ pc'[p] = "loop" /\ asked'[p] = n /\ left'[p] = n /\ put'[p] = put[p]
      /\ oldpos'[p] = f_pos[FileOf[p]] /\ whole'[p] = (shared = {})
  BY <1>0, <1>3 DEF Types
<1>9. put[p] = 0 /\ chunk[p] = NoChunk
  BY <1>0, <1>3 DEF Reader, HasRoom, RoundInFile, Calling
<1>10. ASSUME NEW q \in Readers PROVE Reader(q)'
  <2>1. CASE q # p
    BY <1>3, <1>7, <2>1, OtherReader DEF Inv
  <2>2. CASE q = p
    <3>1. HasRoom(p)' /\ RoundInFile(p)'
      BY <1>3, <1>8, <1>9 DEF HasRoom, RoundInFile, Calling
    <3>2. InPlace(p)'
      <4>1. Private(p)' = Private(p)
        BY DEF Private
      <4>2. Private(p) => f_pos[FileOf[p]] <= filesz
        BY <1>0, <1>3 DEF Reader, InPlace
      <4>. QED  BY <1>3, <1>4, <1>8, <1>9, <4>1, <4>2 DEF InPlace
    <3>3. Delivered(p)'
      BY <1>8, <1>9 DEF Delivered
    <3>. QED  BY <2>2, <3>1, <3>2, <3>3 DEF Reader
  <2>. QED  BY <2>1, <2>2
<1>11. ASSUME NEW q \in Readers, q # p PROVE window(q)' = window(q) /\ Calling(q)' = Calling(q)
  BY <1>7, <1>11 DEF window, Calling
<1>12. ASSUME NEW q \in Readers, NEW s \in Readers PROVE Apart(q, s)'
  <2>1. CASE q # p /\ s # p
    BY <1>7, <2>1, OtherWindow DEF Inv
  <2>2. CASE q # p /\ s = p
    <3>1. ASSUME Calling(q)', whole'[q] PROVE window(q)' \cap window(p)' = {}
      BY <1>2, <1>7, <1>11, <2>2, <3>1
    <3>. QED  BY <2>2, <3>1 DEF Apart
  <2>3. CASE q = p /\ s # p
    <3>1. ASSUME Calling(s)', whole'[p] PROVE window(p)' \cap window(s)' = {}
      <4>1. s \in Readers \ {p} /\ s \notin shared /\ Calling(s)
        BY <1>8, <1>11, <2>3, <3>1
      <4>2. window(s) \cap window(p)' = {}
        BY <1>2, <4>1
      <4>. QED  BY <1>11, <2>3, <4>2
    <3>. QED  BY <2>3, <3>1 DEF Apart
  <2>4. CASE q = p /\ s = p
    BY <2>4 DEF Apart
  <2>. QED  BY <2>1, <2>2, <2>3, <2>4
<1>13. BufferSafe'
  <2>1. SUFFICES ASSUME NEW x \in DOMAIN mem
                 PROVE  /\ \E q \in Readers : Calling(q)' /\ x \in window(q)'
                        /\ \E i \in 0..(filesz - 1) : mem[x] = FileByte(i)
    BY <1>3 DEF BufferSafe, FileByte
  <2>2. PICK q \in Readers : Calling(q) /\ x \in window(q)
    BY DEF Inv, BufferSafe
  <2>3. q # p
    BY <1>3, <2>2 DEF Calling
  <2>. QED  BY <1>11, <2>2, <2>3 DEF Inv, BufferSafe
<1>. QED  BY <1>6, <1>10, <1>12, <1>13 DEF Inv

(***************************************************************************)
(* A call that returns leaves the memory of the others as it is.           *)
(***************************************************************************)
LEMMA ReturnInv ==
  ASSUME Inv, NEW p \in Readers, Return(p)
  PROVE  Inv'
<1>0. Types /\ Reader(p)
  BY DEF Inv
<1>1. PICK kept : kept = {a \in DOMAIN mem :
                            \E q \in Readers \ {p} : Calling(q) /\ a \in window(q)}
  OBVIOUS
<1>2. /\ pc[p] = "loop" /\ pc' = [pc EXCEPT ![p] = "user"]
      /\ start' = [start EXCEPT ![p] = 0] /\ put' = [put EXCEPT ![p] = 0]
      /\ size' = [size EXCEPT ![p] = 1] /\ asked' = [asked EXCEPT ![p] = 0]
      /\ left' = [left EXCEPT ![p] = 0] /\ oldpos' = [oldpos EXCEPT ![p] = 0]
      /\ whole' = [whole EXCEPT ![p] = TRUE]
      /\ mem' = [a \in kept |-> mem[a]]
      /\ filesz' = filesz /\ f_pos' = f_pos /\ chunk' = chunk
  BY <1>1 DEF Return, Restrict
<1>3. Types'
  BY <1>0, <1>2 DEF Types
<1>4. ASSUME NEW q \in Readers, q # p
      PROVE  /\ pc'[q] = pc[q] /\ start'[q] = start[q] /\ put'[q] = put[q]
             /\ oldpos'[q] = oldpos[q] /\ asked'[q] = asked[q] /\ left'[q] = left[q]
             /\ whole'[q] = whole[q]
  BY <1>0, <1>2, <1>4 DEF Types
<1>5. ASSUME NEW q \in Readers, q # p, Calling(q), NEW x \in window(q), x \in DOMAIN mem
      PROVE  x \in DOMAIN mem' /\ mem'[x] = mem[x]
  BY <1>1, <1>2, <1>5
<1>6. ASSUME NEW q \in Readers PROVE Reader(q)'
  <2>1. CASE q # p
    <3>1. ASSUME Calling(q), NEW i \in 0..(put[q] - 1) PROVE start[q] + i \in window(q)
      <4>1. put[q] \in Nat /\ left[q] \in Nat /\ asked[q] \in Nat /\ start[q] \in Nat
        BY <1>0 DEF Types
      <4>2. put[q] + left[q] <= asked[q]
        BY DEF Inv, Reader, HasRoom
      <4>. QED  BY <4>1, <4>2 DEF window
    <3>2. Calling(q) /\ whole'[q] =>
            \A i \in 0..(put[q] - 1) : start[q] + i \in DOMAIN mem =>
              start[q] + i \in DOMAIN mem' /\ mem'[start[q] + i] = mem[start[q] + i]
      BY <1>5, <2>1, <3>1
    <3>. QED  BY <1>2, <1>4, <2>1, <3>2, OtherReader DEF Inv
  <2>2. CASE q = p
    <3>1. /\ pc'[p] = "user" /\ put'[p] = 0 /\ asked'[p] = 0 /\ left'[p] = 0
          /\ ~Calling(p)'
      BY <1>0, <1>2 DEF Types, Calling
    <3>2. chunk[p] = NoChunk
      BY <1>0, <1>2 DEF Reader, RoundInFile
    <3>3. HasRoom(p)' /\ RoundInFile(p)' /\ Delivered(p)'
      BY <1>2, <3>1, <3>2 DEF HasRoom, RoundInFile, Delivered
    <3>4. InPlace(p)'
      BY <1>0, <1>2, <3>1 DEF Reader, InPlace, Private
    <3>. QED  BY <2>2, <3>3, <3>4 DEF Reader
  <2>. QED  BY <2>1, <2>2
<1>7. ASSUME NEW q \in Readers, NEW s \in Readers PROVE Apart(q, s)'
  <2>1. CASE q # p /\ s # p
    BY <1>4, <2>1, OtherWindow DEF Inv
  <2>2. CASE q = p \/ s = p
    BY <1>0, <1>2, <2>2 DEF Apart, Calling, Types
  <2>. QED  BY <2>1, <2>2
<1>8. BufferSafe'
  <2>1. SUFFICES ASSUME NEW x \in kept
                 PROVE  /\ \E q \in Readers : Calling(q)' /\ x \in window(q)'
                        /\ \E i \in 0..(filesz - 1) : mem[x] = FileByte(i)
    BY <1>2 DEF BufferSafe, FileByte
  <2>2. x \in DOMAIN mem /\ \E q \in Readers \ {p} : Calling(q) /\ x \in window(q)
    BY <1>1
  <2>3. PICK q \in Readers \ {p} : Calling(q) /\ x \in window(q)
    BY <2>2
  <2>4. Calling(q)' /\ window(q)' = window(q)
    BY <1>4, <2>3 DEF Calling, window
  <2>. QED  BY <2>2, <2>3, <2>4 DEF Inv, BufferSafe
<1>. QED  BY <1>3, <1>6, <1>7, <1>8 DEF Inv

(***************************************************************************)
(* A round that copies nothing moves f_pos only and ends `whole'; a round  *)
(* that waits for its block lies in the file.                              *)
(***************************************************************************)
LEMMA FilpReadInv ==
  ASSUME Inv, NEW p \in Readers, filp_read(p)
  PROVE  Inv'
<1>0. /\ Types /\ Reader(p) /\ Clusz \in Nat \ {0} /\ filesz \in Nat /\ NR_BLOCK \in Nat
      /\ FileOf[p] \in Files
  BY FileReadAssumption DEF Inv, Types, Reader, HasRoom, Calling, filp_read
<1>1. PICK pos : pos = f_pos[FileOf[p]]
  OBVIOUS
<1>2. PICK l : l = left[p]
  OBVIOUS
<1>3. PICK c : c = pos \div Clusz
  OBVIOUS
<1>4. PICK o : o = pos % Clusz
  OBVIOUS
<1>5. PICK v : v = valid_size(c, o, l)
  OBVIOUS
<1>6. pos \in Nat /\ l \in Nat /\ l > 0 /\ pos < filesz
  <2>1. pos \in Nat /\ l \in Nat
    BY <1>0, <1>1, <1>2 DEF Types
  <2>2. l > 0 /\ filesz > pos
    BY <1>1, <1>2 DEF filp_read, More
  <2>. QED  BY <1>0, <2>1, <2>2
<1>7. /\ c \in Nat /\ o \in Nat /\ pos = c * Clusz + o /\ c * Clusz \in Nat
      /\ v \in Nat /\ v >= 1 /\ v <= l /\ o + v <= Clusz /\ pos + v <= filesz
  <2>1. IsRound(pos, l, c, o, v)
    BY <1>0, <1>3, <1>4, <1>5, <1>6, RoundIs
  <2>. QED  BY <2>1 DEF IsRound
<1>8. /\ pc[p] = "loop" /\ filesz' = filesz /\ put' = put /\ mem' = mem
      /\ start' = start /\ size' = size /\ asked' = asked /\ oldpos' = oldpos
  BY DEF filp_read, args
<1>9. \/ /\ Advance(p, v) /\ whole' = [whole EXCEPT ![p] = FALSE]
         /\ pc' = pc /\ chunk' = chunk
      \/ /\ chunk' = [chunk EXCEPT ![p] = [Clu |-> c, offset |-> o, valid |-> v]]
         /\ pc' = [pc EXCEPT ![p] = "get_block"]
         /\ f_pos' = f_pos /\ left' = left /\ whole' = whole
  BY <1>1, <1>2, <1>3, <1>4, <1>5 DEF filp_read
<1>10. /\ chunk[p] = NoChunk /\ put[p] \in Nat /\ asked[p] \in Nat /\ oldpos[p] \in Nat
       /\ put[p] + l <= asked[p]
  BY <1>0, <1>2, <1>8 DEF Reader, RoundInFile, HasRoom, Types
<1>11. ASSUME NEW q \in Readers
       PROVE  /\ Calling(q)' = Calling(q) /\ window(q)' = window(q)
              /\ whole'[q] => whole[q]
  BY <1>0, <1>8, <1>9, <1>11 DEF Types, Calling, window
<1>12. ASSUME NEW q \in Readers, NEW s \in Readers PROVE Apart(q, s)'
  BY <1>11 DEF Inv, Apart
<1>13. BufferSafe'
  BY <1>8, <1>11 DEF Inv, BufferSafe, FileByte
<1>14. CASE /\ Advance(p, v) /\ whole' = [whole EXCEPT ![p] = FALSE]
            /\ pc' = pc /\ chunk' = chunk
  <2>1. f_pos' = [f_pos EXCEPT ![FileOf[p]] = pos + v] /\ left' = [left EXCEPT ![p] = l - v]
    BY <1>1, <1>2, <1>14 DEF Advance
  <2>2. pos + v \in Nat /\ l - v \in Nat
    BY <1>6, <1>7
  <2>3. Types'
    BY <1>0, <1>8, <1>14, <2>1, <2>2 DEF Types
  <2>4. ASSUME NEW q \in Readers PROVE Reader(q)'
    <3>1. CASE q # p
      <4>1. left'[q] = left[q]
        BY <1>0, <2>1, <3>1 DEF Types
      <4>2. Private(q) /\ FileOf[q] \in Files => f_pos'[FileOf[q]] = f_pos[FileOf[q]]
        BY <1>0, <2>1, <3>1 DEF Types, Private
      <4>. QED  BY <1>8, <1>11, <1>14, <4>1, <4>2, OtherReader DEF Inv
    <3>2. CASE q = p
      <4>1. left'[p] = l - v /\ f_pos'[FileOf[p]] = pos + v /\ whole'[p] = FALSE
        BY <1>0, <1>14, <2>1 DEF Types
      <4>2. HasRoom(p)'
        BY <1>0, <1>6, <1>7, <1>8, <1>10, <1>14, <4>1 DEF Reader, HasRoom, Calling
      <4>3. RoundInFile(p)'
        BY <1>8, <1>10, <1>14 DEF RoundInFile
      <4>4. Delivered(p)'
        BY <4>1 DEF Delivered
      <4>5. InPlace(p)'
        <5>1. SUFFICES ASSUME Private(p)
                       PROVE  /\ pos + v <= filesz
                              /\ oldpos[p] + asked[p] = (pos + v) + (l - v)
                              /\ oldpos[p] <= pos + v
          BY <1>8, <1>14, <4>1 DEF InPlace, Private
        <5>2. oldpos[p] + asked[p] = pos + l /\ oldpos[p] <= pos
          BY <1>0, <1>1, <1>2, <1>8, <5>1 DEF Reader, InPlace, Calling
        <5>. QED  BY <1>6, <1>7, <1>10, <5>2
      <4>. QED  BY <3>2, <4>2, <4>3, <4>4, <4>5 DEF Reader
    <3>. QED  BY <3>1, <3>2
  <2>. QED  BY <1>12, <1>13, <2>3, <2>4 DEF Inv
<1>15. CASE /\ chunk' = [chunk EXCEPT ![p] = [Clu |-> c, offset |-> o, valid |-> v]]
            /\ pc' = [pc EXCEPT ![p] = "get_block"]
            /\ f_pos' = f_pos /\ left' = left /\ whole' = whole
  <2>1. Types'
    BY <1>0, <1>7, <1>8, <1>15 DEF Types, Chunks
  <2>2. ASSUME NEW q \in Readers PROVE Reader(q)'
    <3>1. CASE q # p
      <4>1. pc'[q] = pc[q] /\ chunk'[q] = chunk[q]
        BY <1>0, <1>15, <3>1 DEF Types
      <4>. QED  BY <1>8, <1>11, <1>15, <4>1, OtherReader DEF Inv
    <3>2. CASE q = p
      <4>1. /\ pc'[p] = "get_block" /\ chunk'[p].Clu = c /\ chunk'[p].offset = o
            /\ chunk'[p].valid = v /\ left'[p] = l /\ Calling(p)' = Calling(p)
        BY <1>0, <1>2, <1>11, <1>15 DEF Types
      <4>2. HasRoom(p)'
        BY <1>0, <1>8, <1>10, <1>15, <4>1 DEF Reader, HasRoom, Calling
      <4>3. RoundInFile(p)'
        <5>1. c * Clusz + o + v <= filesz
          BY <1>6, <1>7
        <5>. QED  BY <1>7, <1>8, <4>1, <5>1 DEF RoundInFile
      <4>4. Delivered(p)'
        BY <1>0, <1>8, <1>11, <1>15 DEF Reader, Delivered, Holds, FileByte, Private
      <4>5. InPlace(p)'
        <5>1. c * Clusz + o = f_pos[FileOf[p]]
          BY <1>1, <1>7
        <5>. QED  BY <1>0, <1>8, <1>15, <4>1, <5>1 DEF Reader, InPlace, Private, Calling
      <4>. QED  BY <3>2, <4>2, <4>3, <4>4, <4>5 DEF Reader
    <3>. QED  BY <3>1, <3>2
  <2>. QED  BY <1>12, <1>13, <2>1, <2>2 DEF Inv
<1>. QED  BY <1>9, <1>14, <1>15

(***************************************************************************)
(* The bytes of a round within the file are the ones the file has there.   *)
(***************************************************************************)
LEMMA CopiedOfFile ==
  ASSUME filesz \in Nat, NEW c \in Chunks, NEW v \in Nat, v = c.valid, v >= 1,
         c.offset + v <= Clusz, c.Clu * Clusz + c.offset + v <= filesz,
         NEW i \in 0..(v - 1)
  PROVE  /\ c.Clu * Clusz + c.offset + i \in 0..(filesz - 1)
         /\ Copied(c, i) = FileByte(c.Clu * Clusz + c.offset + i)
<1>0. Clusz \in Nat \ {0}
  BY FileReadAssumption
<1>1. PICK u \in Nat : u = c.Clu
  BY DEF Chunks
<1>2. PICK o \in Nat : o = c.offset
  BY DEF Chunks
<1>4. u * Clusz \in Nat
  BY <1>0
<1>5. i \in Nat /\ i < v /\ o + v <= Clusz /\ u * Clusz + o + v <= filesz
  BY <1>1, <1>2
<1>8. Copied(c, i) = <<u, o + i>>
  BY <1>1, <1>2 DEF Copied
<1>9. PICK k \in Nat : k = o + i
  BY <1>5
<1>10. k < Clusz
  BY <1>0, <1>5, <1>9
<1>11. FileByte(u * Clusz + k) = <<u, k>>
  BY <1>10, ByteIs
<1>12. u * Clusz + k = u * Clusz + o + i /\ u * Clusz + o + i \in 0..(filesz - 1)
  BY <1>4, <1>5, <1>9
<1>. QED  BY <1>1, <1>2, <1>8, <1>9, <1>11, <1>12

(***************************************************************************)
(* A round fills addresses of its own call, which no call still whole has. *)
(***************************************************************************)
LEMMA ClusterReadInv ==
  ASSUME Inv, NEW p \in Readers, ClusterRead(p)
  PROVE  Inv'
<1>0. /\ Types /\ Reader(p) /\ Clusz \in Nat \ {0} /\ filesz \in Nat
      /\ FileOf[p] \in Files
  BY FileReadAssumption DEF Inv, Types, Reader, HasRoom, Calling, ClusterRead
<1>1. PICK c \in Chunks : c = chunk[p]
  BY <1>0 DEF Types
<1>2. PICK m \in Nat, st \in Nat : m = put[p] /\ st = start[p]
  BY <1>0 DEF Types
<1>3. PICK pos \in Nat : pos = f_pos[FileOf[p]]
  BY <1>0 DEF Types
<1>4. PICK l \in Nat, ask \in Nat : l = left[p] /\ ask = asked[p]
  BY <1>0 DEF Types
<1>5. PICK v \in Nat : v = c.valid
  BY DEF Chunks
<1>6. PICK cells : cells = (st + m)..(st + m + v - 1)
  OBVIOUS
<1>7. /\ pc[p] = "get_block" /\ pc' = [pc EXCEPT ![p] = "loop"]
      /\ put' = [put EXCEPT ![p] = m + v] /\ chunk' = [chunk EXCEPT ![p] = NoChunk]
      /\ f_pos' = [f_pos EXCEPT ![FileOf[p]] = pos + v]
      /\ left' = [left EXCEPT ![p] = l - v]
      /\ filesz' = filesz /\ whole' = whole
      /\ start' = start /\ size' = size /\ asked' = asked /\ oldpos' = oldpos
  BY <1>1, <1>2, <1>3, <1>4, <1>5 DEF ClusterRead, Advance, args
<1>8. mem' = [a \in DOMAIN mem \cup cells |->
                IF a \in cells THEN Copied(c, a - (st + m)) ELSE mem[a]]
  BY <1>1, <1>2, <1>5, <1>6 DEF ClusterRead, memcpy
<1>9. /\ v >= 1 /\ v <= l /\ c.offset + v <= Clusz /\ m + l <= ask
      /\ c.Clu * Clusz + c.offset + v <= filesz
  BY <1>0, <1>1, <1>2, <1>4, <1>5, <1>7 DEF Reader, RoundInFile, HasRoom
<1>10. pos + v \in Nat /\ l - v \in Nat /\ m + v \in Nat
  BY <1>9
<1>11. Types'
  BY <1>0, <1>7, <1>10 DEF Types, Chunks, NoChunk
<1>12. ASSUME NEW q \in Readers
       PROVE  Calling(q)' = Calling(q) /\ window(q)' = window(q)
  BY <1>0, <1>7, <1>12 DEF Types, Calling, window
<1>13. cells \subseteq window(p)
  <2>1. window(p) = st..(st + ask - 1)
    BY <1>2, <1>4 DEF window
  <2>. QED  BY <1>6, <1>9, <2>1
<1>14. ASSUME NEW q \in Readers, NEW s \in Readers PROVE Apart(q, s)'
  BY <1>7, <1>12 DEF Inv, Apart
<1>15. ASSUME NEW a \in cells
       PROVE  \E k \in 0..(v - 1) :
                /\ a = st + m + k
                /\ mem'[a] = FileByte(c.Clu * Clusz + c.offset + k)
                /\ c.Clu * Clusz + c.offset + k \in 0..(filesz - 1)
  <2>1. PICK k \in 0..(v - 1) : a = st + m + k /\ a - (st + m) = k
    BY <1>6
  <2>2. mem'[a] = Copied(c, k)
    BY <1>8, <1>15, <2>1
  <2>3. /\ c.Clu * Clusz + c.offset + k \in 0..(filesz - 1)
        /\ Copied(c, k) = FileByte(c.Clu * Clusz + c.offset + k)
    BY <1>0, <1>5, <1>9, <1>15, CopiedOfFile
  <2>. QED  BY <2>1, <2>2, <2>3
<1>16. BufferSafe'
  <2>1. SUFFICES ASSUME NEW x \in DOMAIN mem \cup cells
                 PROVE  /\ \E q \in Readers : Calling(q)' /\ x \in window(q)'
                        /\ \E i \in 0..(filesz - 1) : mem'[x] = FileByte(i)
    BY <1>7, <1>8 DEF BufferSafe, FileByte
  <2>2. CASE x \in cells
    <3>1. Calling(p)' /\ x \in window(p)'
      BY <1>7, <1>12, <1>13, <2>2 DEF Calling
    <3>. QED  BY <1>15, <2>2, <3>1
  <2>3. CASE x \notin cells
    <3>1. x \in DOMAIN mem /\ mem'[x] = mem[x]
      BY <1>8, <2>1, <2>3
    <3>. QED  BY <1>12, <3>1 DEF Inv, BufferSafe
  <2>. QED  BY <2>2, <2>3
<1>17. ASSUME NEW q \in Readers, q # p PROVE Reader(q)'
  <2>1. Private(q) /\ FileOf[q] \in Files => f_pos'[FileOf[q]] = f_pos[FileOf[q]]
    BY <1>0, <1>7, <1>17 DEF Types, Private
  <2>2. /\ pc'[q] = pc[q] /\ left'[q] = left[q] /\ chunk'[q] = chunk[q]
        /\ put'[q] = put[q]
    BY <1>0, <1>7, <1>17 DEF Types
  <2>3. ASSUME Calling(q), whole'[q], NEW i \in 0..(put[q] - 1), start[q] + i \in DOMAIN mem
        PROVE  start[q] + i \in DOMAIN mem' /\ mem'[start[q] + i] = mem[start[q] + i]
    <3>1. window(q) \cap window(p) = {}
      BY <1>7, <1>17, <2>3 DEF Inv, Apart, Calling
    <3>2. start[q] + i \in window(q)
      <4>1. put[q] \in Nat /\ left[q] \in Nat /\ asked[q] \in Nat /\ start[q] \in Nat
        BY <1>0 DEF Types
      <4>2. put[q] + left[q] <= asked[q]
        BY DEF Inv, Reader, HasRoom
      <4>. QED  BY <4>1, <4>2 DEF window
    <3>3. start[q] + i \notin cells
      BY <1>13, <3>1, <3>2
    <3>. QED  BY <1>8, <2>3, <3>3
  <2>. QED  BY <1>7, <1>17, <2>1, <2>2, <2>3, OtherReader DEF Inv
<1>18. /\ pc'[p] = "loop" /\ chunk'[p] = NoChunk /\ put'[p] = m + v
       /\ f_pos'[FileOf[p]] = pos + v /\ left'[p] = l - v /\ Calling(p) /\ Calling(p)'
  BY <1>0, <1>7 DEF Types, Calling
<1>19. HasRoom(p)' /\ RoundInFile(p)'
  <2>1. (m + v) + (l - v) <= ask /\ asked'[p] = ask
    BY <1>4, <1>7, <1>9
  <2>. QED  BY <1>0, <1>18, <2>1 DEF HasRoom, RoundInFile
<1>20. PICK old \in Nat : old = oldpos[p] /\ old = oldpos'[p]
  BY <1>0, <1>7 DEF Types
<1>21. Private(p) => /\ old + ask = pos + l /\ old <= pos
                     /\ whole[p] => old + m = pos
                     /\ c.Clu * Clusz + c.offset = pos
  BY <1>0, <1>1, <1>2, <1>3, <1>4, <1>7, <1>18, <1>20 DEF Reader, InPlace
<1>22. InPlace(p)'
  <2>1. SUFFICES ASSUME Private(p)
                 PROVE  /\ pos + v <= filesz
                        /\ old + ask = (pos + v) + (l - v) /\ old <= pos + v
                        /\ whole[p] => old + (m + v) = pos + v
    BY <1>4, <1>7, <1>18, <1>20 DEF InPlace, Private
  <2>. QED  BY <1>9, <1>21, <2>1
<1>23. Delivered(p)'
  <2>1. SUFFICES ASSUME Private(p), whole[p], NEW i \in 0..(m + v - 1)
                 PROVE  /\ st + i \in DOMAIN mem' /\ mem'[st + i] = FileByte(old + i)
    BY <1>2, <1>7, <1>18, <1>20 DEF Delivered, Holds, FileByte, Private
  <2>2. CASE i < m
    <3>1. i \in 0..(m - 1) /\ st + i \notin cells
      BY <1>6, <2>1, <2>2
    <3>2. Holds(p, i)
      BY <1>0, <1>2, <1>18, <2>1, <3>1 DEF Reader, Delivered
    <3>. QED  BY <1>2, <1>8, <1>20, <3>1, <3>2 DEF Holds
  <2>3. CASE ~(i < m)
    <3>1. st + i \in cells
      BY <1>6, <2>1, <2>3
    <3>2. PICK k \in 0..(v - 1) :
            /\ st + i = st + m + k
            /\ mem'[st + i] = FileByte(c.Clu * Clusz + c.offset + k)
      BY <1>15, <2>1, <3>1
    <3>3. c.Clu * Clusz + c.offset + k = old + i
      BY <1>21, <2>1, <3>2
    <3>. QED  BY <1>8, <3>1, <3>2, <3>3
  <2>. QED  BY <2>2, <2>3
<1>. QED  BY <1>11, <1>14, <1>16, <1>17, <1>19, <1>22, <1>23 DEF Inv, Reader

-----------------------------------------------------------------------------
(***************************************************************************)
(* Each call's bytes and its round stay within the request and the file    *)
(* through every interleaving of the readers: the inductive invariant.     *)
(***************************************************************************)
THEOREM InvHolds == Spec => []Inv
<1>1. ASSUME Inv, [Next]_vars PROVE Inv'
  <2>1. CASE UNCHANGED vars
    <3>0. /\ UNCHANGED <<filesz, f_pos, pc, start, put, size, asked, left, oldpos, chunk,
                         mem, whole>>
      BY <2>1 DEF vars, args
    <3>1. Types'
      BY <1>1, <3>0 DEF Inv, Types
    <3>2. ASSUME NEW q \in Readers PROVE Reader(q)'
      BY <1>1, <3>0, OtherReader DEF Inv
    <3>3. ASSUME NEW q \in Readers, NEW s \in Readers PROVE Apart(q, s)'
      BY <1>1, <3>0, OtherWindow DEF Inv
    <3>4. BufferSafe'
      BY <1>1, <3>0 DEF Inv, BufferSafe, Calling, window, FileByte
    <3>. QED  BY <3>1, <3>2, <3>3, <3>4 DEF Inv
  <2>2. ASSUME NEW p \in Readers, NEW a \in Buffers[p], NEW r \in Requests, sys_read(p, a, r)
        PROVE  Inv'
    BY <1>1, <2>1, <2>2, SysReadInv
  <2>3. ASSUME NEW p \in Readers, filp_read(p) PROVE Inv'
    BY <1>1, <2>3, FilpReadInv
  <2>4. ASSUME NEW p \in Readers, Return(p) PROVE Inv'
    BY <1>1, <2>4, ReturnInv
  <2>5. ASSUME NEW p \in Readers, ClusterRead(p) PROVE Inv'
    BY <1>1, <2>5, ClusterReadInv
  <2>. QED  BY <1>1, <2>1, <2>2, <2>3, <2>4, <2>5 DEF Next
<1>. QED  BY <1>1, InitInv, PTL DEF Spec

(***************************************************************************)
(* At any moment a reader has at most one round of filp_read under way,    *)
(* and no round is empty (read.c:45-77): the type invariant of FileRead.   *)
(***************************************************************************)
THEOREM TypeOKHolds == Spec => []TypeOK
<1>1. ASSUME Inv PROVE TypeOK
  <2>1. ASSUME NEW p \in Readers
        PROVE  /\ left[p] \in 0..asked[p] /\ put[p] \in 0..asked[p]
               /\ (pc[p] = "get_block" <=> chunk[p].valid > 0)
    <3>1. Types /\ HasRoom(p) /\ RoundInFile(p)
      BY <1>1 DEF Inv, Reader
    <3>2. left[p] \in Nat /\ asked[p] \in Nat /\ put[p] \in Nat /\ chunk[p].valid \in Nat
      BY <3>1 DEF Types, Chunks
    <3>3. left[p] \in 0..asked[p] /\ put[p] \in 0..asked[p]
      BY <3>1, <3>2 DEF HasRoom
    <3>4. pc[p] = "get_block" => chunk[p].valid > 0
      BY <3>1, <3>2 DEF RoundInFile
    <3>5. pc[p] # "get_block" => chunk[p].valid = 0
      BY <3>1 DEF RoundInFile, NoChunk
    <3>. QED  BY <3>3, <3>4, <3>5
  <2>. QED  BY <1>1, <2>1 DEF Inv, Types, TypeOK
<1>. QED  BY <1>1, InvHolds, PTL

(***************************************************************************)
(* Whoever moves f_pos while a reader sleeps in get_block, the kernel puts *)
(* bytes only at addresses a call under way has asked it to fill, and only *)
(* bytes of the file (read.c:19-77).                                       *)
(***************************************************************************)
THEOREM BufferSafeHolds == Spec => []BufferSafe
BY InvHolds, PTL DEF Inv

(***************************************************************************)
(* A read of a file the reader has for itself moves its position over the  *)
(* next stretch of the file, as much as was asked for or the file has, and *)
(* reports the whole items in it, whatever the other readers do between    *)
(* the rounds; and if every round got its block and no other call fills    *)
(* the same addresses, the stretch lies at buf, in order, without a gap or *)
(* a byte twice (read.c:45-100).                                           *)
(***************************************************************************)
THEOREM ReadDeliversFileHolds == Spec => []ReadDeliversFile
<1>1. ASSUME Inv PROVE ReadDeliversFile
  <2>1. SUFFICES ASSUME NEW p \in Readers, Private(p), pc[p] = "loop", ~More(p),
                        NEW read, read = IF asked[p] < filesz - oldpos[p] THEN asked[p]
                                         ELSE filesz - oldpos[p]
                 PROVE  /\ f_pos[FileOf[p]] = oldpos[p] + read
                        /\ returned(p) = read \div size[p]
                        /\ whole[p]
                             => \A i \in 0..(read - 1) : Holds(p, i)
    BY DEF ReadDeliversFile, Holds
  <2>2. /\ Types /\ HasRoom(p) /\ InPlace(p) /\ Delivered(p) /\ Calling(p) /\ filesz \in Nat
        /\ FileOf[p] \in Files
    BY <1>1, <2>1, FileReadAssumption DEF Inv, Reader, HasRoom, Types, Calling
  <2>3. PICK pos \in Nat : pos = f_pos[FileOf[p]]
    BY <2>2 DEF Types
  <2>4. PICK l \in Nat, a \in Nat, old \in Nat, m \in Nat :
          l = left[p] /\ a = asked[p] /\ old = oldpos[p] /\ m = put[p]
    BY <2>2 DEF Types
  <2>5. /\ pos <= filesz /\ old + a = pos + l /\ old <= pos
        /\ whole[p] => old + m = pos
    BY <2>1, <2>2, <2>3, <2>4 DEF InPlace
  <2>6. ~(l > 0 /\ filesz > pos)
    BY <2>1, <2>3, <2>4 DEF More
  <2>7. read \in Nat /\ pos = old + read /\ pos - old = read
    BY <2>1, <2>2, <2>4, <2>5, <2>6
  <2>8. returned(p) = read \div size[p]
    BY <2>3, <2>4, <2>7 DEF returned
  <2>9. ASSUME whole[p], NEW i \in 0..(read - 1) PROVE Holds(p, i)
    <3>1. i \in 0..(m - 1)
      BY <2>5, <2>7, <2>9
    <3>. QED  BY <2>1, <2>2, <2>4, <2>9, <3>1 DEF Delivered
  <2>. QED  BY <2>3, <2>4, <2>7, <2>8, <2>9
<1>. QED  BY <1>1, InvHolds, PTL
=============================================================================
