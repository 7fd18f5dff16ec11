----------------------------- MODULE CpmFsProofs -----------------------------
(***************************************************************************)
(* Proofs about the CP/M file system, for every disk format.                *)
(***************************************************************************)
EXTENDS CpmFs, Sequences, FiniteSetTheorems, TLAPS

Ptr == 0..Pointers - 1

\* The pointers of the entries in use stay clear of the directory.
InRange(d) == \A i \in Slots : d[i].name # Absent => BlocksInRange(d[i])

\* How the directory in core and the one on the disk differ, tool by tool: cpmcp only adds
\* entries, cpmrm only takes some away, cpmchattr changes neither names nor pointers, and the
\* other tools write nothing.
Agreement ==
  /\ tool = "cpmcp" => \A i \in Slots : diskDir[i].name # Absent => dir[i] = diskDir[i]
  /\ tool = "cpmrm" => \A i \in Slots : dir[i].name # Absent => dir[i] = diskDir[i]
  /\ tool = "cpmchattr" =>
       \A i \in Slots : dir[i].name = diskDir[i].name /\ dir[i].pointers = diskDir[i].pointers
  /\ tool \in {"none", "fsck.cpm", "exit"} => ~dirtyDirectory
  /\ file # NoFile => \A i \in Slots : diskDir[i].name # file.name
  /\ dirtyDirectory => synced < DirBlocks

Ownership == BlocksOwned /\ InRange(diskDir) /\ InRange(dir)

IInv == TypeOK /\ Ownership /\ Agreement
-------------------------------------------------------------------------------
LEMMA ConstantFacts ==
  /\ MaxDir \in Nat /\ MaxDir > 0 /\ Size \in Nat /\ Pointers \in Nat /\ Pointers > 0
  /\ BlkSiz \in Nat /\ BlkSiz > 0 /\ LogExt \in Nat /\ LogExt > 0
  /\ RecLen \in Nat /\ RecLen > 0 /\ Chunk \in Nat /\ Chunk > 0
  /\ DirBlocks \in Nat /\ DirBlocks > 0 /\ DirBlocks <= Size
  /\ MaxCrashes \in Nat /\ Absent \notin Names
  /\ ExtCap \in Nat /\ ExtCap > 0
<1>1. /\ MaxDir \in Nat /\ MaxDir > 0 /\ Size \in Nat /\ Pointers \in Nat /\ Pointers > 0
      /\ BlkSiz \in Nat /\ BlkSiz > 0 /\ LogExt \in Nat /\ LogExt > 0
      /\ RecLen \in Nat /\ RecLen > 0 /\ Chunk \in Nat /\ Chunk > 0
      /\ EntriesPerBlock \in Nat /\ EntriesPerBlock > 0
      /\ DirBlocks <= Size /\ MaxCrashes \in Nat /\ Absent \notin Names
  BY FormatAssumption
<1>2. DirBlocks \in Nat /\ DirBlocks > 0
  <2>1. ASSUME NEW m \in Nat, NEW e \in Nat, m > 0, e > 0
        PROVE  (m + e - 1) \div e \in Nat /\ (m + e - 1) \div e > 0
    BY <2>1
  <2> QED BY <1>1, <2>1 DEF DirBlocks
<1>3. ExtCap \in Nat /\ ExtCap > 0
  <2>1. ASSUME NEW m \in Nat, NEW e \in Nat, m > 0, e > 0
        PROVE  m * e \in Nat /\ m * e > 0
    BY <2>1
  <2> QED BY <1>1, <2>1 DEF ExtCap
<1> QED BY <1>1, <1>2, <1>3

\* The pointer that cpmWrite uses is one of the entry's.
LEMMA PointerInEntry ==
  ASSUME NEW pos \in Nat
  PROVE  (pos % ExtCap) \div BlkSiz \in Ptr
<1> DEFINE r == pos % ExtCap
           q == r \div BlkSiz
<1>1. r \in Nat /\ r < Pointers * BlkSiz
  BY ConstantFacts DEF ExtCap
<1>2. q \in Nat /\ q * BlkSiz <= r
  BY <1>1, ConstantFacts
<1>3. q < Pointers
  <2>1. SUFFICES ASSUME q >= Pointers PROVE FALSE
    BY <1>2, ConstantFacts
  <2>2. q * BlkSiz >= Pointers * BlkSiz
    <3>1. ASSUME NEW x \in Nat, NEW y \in Nat, NEW z \in Nat, x >= y PROVE x * z >= y * z
      BY <3>1
    <3> QED BY <2>1, <3>1, <1>2, ConstantFacts
  <2> QED BY <2>2, <1>1, <1>2, ConstantFacts
<1> QED BY <1>2, <1>3, ConstantFacts DEF Ptr

\* An entry that is given one more block.
LEMMA BlockAdded ==
  ASSUME NEW e, NEW f, NEW k \in Ptr, NEW b \in Blocks, b # 0,
         e.pointers \in [Ptr -> Blocks], e.pointers[k] \in {0, b},
         f.pointers = [e.pointers EXCEPT ![k] = b]
  PROVE  BlocksOf(f) = BlocksOf(e) \cup {b}
BY DEF BlocksOf, Ptr

\* The blocks of an entry in use are taken.
LEMMA TakenBlocks ==
  ASSUME NEW d, NEW i \in Slots, d[i].name # Absent, NEW p \in Ptr,
         d[i].pointers[p] \in Blocks, d[i].pointers[p] # 0
  PROVE  d[i].pointers[p] \in AlvOf(d)
BY DEF AlvOf, Free, BlocksOf, Ptr

LEMMA EntryTypes ==
  /\ NoBlocks \in [Ptr -> Blocks] /\ FreeEntry \in Entry /\ NoFile \in Copy
  /\ \A f \in Names \cup {Absent} : NewEntry(f) \in Entry /\ BlocksOf(NewEntry(f)) = {}
  /\ \A f : NewEntry(f).name = f /\ NewEntry(f).pointers = NoBlocks
BY ConstantFacts DEF NoBlocks, Ptr, Blocks, Slots, FreeEntry, NewEntry, NoFile, Entry, Copy,
                     BlocksOf

\* Nothing runs, and nothing is in core.
LEMMA EmptyCore ==
  ASSUME NEW d, d = [i \in Slots |-> FreeEntry]
  PROVE  d \in [Slots -> Entry] /\ NoSharedBlock(d) /\ InRange(d)
BY EntryTypes DEF NoSharedBlock, InRange, FreeEntry

LEMMA InitInv == Init => IInv
<1> SUFFICES ASSUME Init PROVE IInv
  OBVIOUS
<1> USE DEF Init
<1>1. TypeOK
  <2>1. 0 \in 0..DirBlocks /\ 0 \in 0..MaxCrashes
    BY ConstantFacts
  <2> QED BY <2>1, EntryTypes, EmptyCore DEF TypeOK
<1>2. Ownership
  BY EmptyCore DEF Ownership, BlocksOwned
<1>3. Agreement
  BY DEF Agreement
<1> QED BY <1>1, <1>2, <1>3 DEF IInv

LEMMA IdleInv ==
  ASSUME IInv, Idle, UNCHANGED diskVars, crashes' \in 0..MaxCrashes
  PROVE  IInv'
<1> USE DEF IInv, Idle, diskVars
<1>1. TypeOK'
  <2>1. 0 \in 0..DirBlocks
    BY ConstantFacts
  <2> QED BY <2>1, EntryTypes, EmptyCore DEF TypeOK
<1>2. Ownership'
  BY EmptyCore DEF Ownership, BlocksOwned, NoSharedBlock, InRange
<1>3. Agreement'
  BY DEF Agreement
<1> QED BY <1>1, <1>2, <1>3

LEMMA ReadSuperInv ==
  ASSUME IInv, NEW t \in {"cpmcp", "cpmrm", "cpmchattr", "fsck.cpm"}, ReadSuper(t)
  PROVE  IInv'
<1> USE DEF IInv, ReadSuper, diskVars
<1>1. AlvOf(diskDir) \subseteq Blocks
  BY ConstantFacts DEF AlvOf, BlocksOf, Blocks
<1>2. TypeOK'
  BY <1>1 DEF TypeOK
<1>3. Ownership'
  BY DEF Ownership, BlocksOwned, NoSharedBlock, InRange, AlvOf, Free
<1>4. Agreement'
  <2>1. file = NoFile
    BY DEF TypeOK
  <2>2. ~dirtyDirectory
    BY DEF Agreement
  <2> QED BY <2>1, <2>2 DEF Agreement
<1> QED BY <1>2, <1>3, <1>4

\* An entry without blocks takes the place of a free one.
LEMMA EmptyEntry ==
  ASSUME NEW d, NEW e, NEW i \in Slots, d[i].name = Absent,
         \A p \in Ptr : e[i].pointers[p] = 0, \A j \in Slots \ {i} : e[j] = d[j],
         NoSharedBlock(d), InRange(d)
  PROVE  NoSharedBlock(e) /\ InRange(e) /\ AlvOf(e) = AlvOf(d)
<1>1. AlvOf(e) = AlvOf(d)
  <2>1. BlocksOf(e[i]) = {}
    BY DEF BlocksOf, Ptr
  <2> QED BY <2>1 DEF AlvOf, Free
<1>2. NoSharedBlock(e)
  <2> SUFFICES ASSUME NEW j \in Slots, NEW k \in Slots, NEW p \in Ptr, NEW q \in Ptr,
                      e[j].name # Absent, e[k].name # Absent,
                      e[j].pointers[p] # 0, e[j].pointers[p] = e[k].pointers[q]
               PROVE  j = k /\ p = q
    BY DEF NoSharedBlock, Ptr
  <2>1. j # i /\ k # i
    OBVIOUS
  <2> QED BY <2>1 DEF NoSharedBlock, Ptr
<1>3. InRange(e)
  <2> SUFFICES ASSUME NEW j \in Slots, e[j].name # Absent PROVE BlocksInRange(e[j])
    BY DEF InRange
  <2>1. CASE j = i
    BY <2>1 DEF BlocksInRange, Ptr
  <2>2. CASE j # i
    BY <2>2 DEF InRange
  <2> QED BY <2>1, <2>2
<1> QED BY <1>1, <1>2, <1>3

LEMMA CreatInv ==
  ASSUME IInv, NEW f \in Names, NEW length \in Lengths, Creat(f, length)
  PROVE  IInv'
<1> USE DEF IInv
<1>1. PICK i \in Slots :
        /\ IsFirst(i, Free(dir))
        /\ dir' = [dir EXCEPT ![i] = NewEntry(f)]
        /\ file' = [NoFile EXCEPT !.name = f, !.ino = i, !.length = length]
  BY DEF Creat
<1>2. /\ dir \in [Slots -> Entry] /\ dir[i].name = Absent /\ f # Absent
      /\ dir'[i] = NewEntry(f) /\ \A j \in Slots \ {i} : dir'[j] = dir[j]
      /\ file'.name = f /\ file'.ino = i
      /\ tool = "cpmcp" /\ tool' = tool /\ UNCHANGED << diskDir, diskData, alv >>
  BY <1>1, ConstantFacts DEF TypeOK, IsFirst, Free, Creat, Runs, NoFile, diskVars
<1>3. TypeOK'
  <2>1. file' \in Copy
    BY <1>1, EntryTypes, FormatAssumption DEF Copy, NoFile
  <2>2. dir' \in [Slots -> Entry]
    BY <1>1, <1>2, EntryTypes
  <2> QED BY <1>2, <2>1, <2>2, EntryTypes DEF TypeOK, Creat, diskVars
<1>4. Ownership'
  <2>1. \A p \in Ptr : dir'[i].pointers[p] = 0
    BY <1>2 DEF NewEntry, NoBlocks, Ptr
  <2>2. NoSharedBlock(dir') /\ InRange(dir') /\ AlvOf(dir') = AlvOf(dir)
    BY <1>2, <2>1, EmptyEntry DEF Ownership, BlocksOwned
  <2> QED BY <1>2, <2>2 DEF Ownership, BlocksOwned
<1>5. Agreement'
  <2>1. \A j \in Slots : diskDir[j].name # Absent => dir[j] = diskDir[j]
    BY <1>2 DEF Agreement
  <2>2. \A j \in Slots : diskDir[j].name # f
    BY <1>2, <2>1 DEF Creat, EntriesOf
  <2>3. synced' < DirBlocks
    BY ConstantFacts DEF Creat, Runs
  <2> QED BY <1>2, <2>1, <2>2, <2>3 DEF Agreement
<1> QED BY <1>3, <1>4, <1>5

LEMMA EntryChanged ==
  ASSUME NEW e \in Entry, NEW m \in Nat, NEW c \in Nat, NEW r \in Nat,
         NEW P \in [Ptr -> Blocks]
  PROVE  [e EXCEPT !.pointers = P, !.extno = m, !.blkcnt = c, !.lrc = r] \in Entry
BY DEF Entry, Ptr

\* The entry that cpmWrite works on.
LEMMA ExtentFacts ==
  ASSUME IInv, file # NoFile, NEW i \in Slots, IsFirst(i, ExtentSlots)
  PROVE  /\ Extent(i) \in Entry /\ Extent(i).name = file.name
         /\ dir[i].name = Absent => Extent(i).pointers = NoBlocks
         /\ dir[i].name # Absent => Extent(i) = dir[i]
         /\ diskDir[i].name = Absent
         /\ file.pos \in Nat => ExtentNo \in Nat
<1> USE DEF IInv, TypeOK
<1>1. ExtentNo \in Nat /\ file.name \in Names /\ dir[file.ino].name = file.name
      /\ file.ino \in Slots /\ tool = "cpmcp"
  BY ConstantFacts DEF ExtentNo, Copy
<1>2. dir[i].name \in {file.name, Absent}
  BY DEF IsFirst, ExtentSlots, ExtentsAt, EntriesOf, Free
<1>3. diskDir[i].name = Absent
  BY <1>1, <1>2 DEF Agreement
<1>4. CASE dir[i].name = Absent
  <2>1. Extent(i) = [dir[file.ino] EXCEPT !.pointers = NoBlocks, !.extno = ExtentNo,
                                          !.blkcnt = 0, !.lrc = 0]
    BY <1>4 DEF Extent, Free
  <2>2. dir[file.ino] \in Entry
    BY <1>1
  <2>3. Extent(i).name = file.name /\ Extent(i).pointers = NoBlocks
    BY <1>1, <2>1, <2>2 DEF Entry
  <2>4. Extent(i) \in Entry
    <3>1. [dir[file.ino] EXCEPT !.pointers = NoBlocks, !.extno = ExtentNo, !.blkcnt = 0,
                                !.lrc = 0] \in Entry
      <4> HIDE DEF IInv, TypeOK
      <4>1. NoBlocks \in [Ptr -> Blocks] /\ 0 \in Nat
        BY EntryTypes
      <4> QED BY ONLY <1>1, <2>2, <4>1, EntryChanged
    <3> QED BY ONLY <2>1, <3>1
  <2> QED BY <1>1, <1>3, <1>4, <2>3, <2>4
<1>5. CASE dir[i].name # Absent
  BY <1>1, <1>2, <1>3, <1>5 DEF Extent, Free
<1> QED BY <1>2, <1>4, <1>5

\* An entry of the file that is being copied takes the place of entry i, with the pointers
\* it had and one more, to a block that was free.
Grows(d, i, k, b) ==
  /\ tool = "cpmcp" /\ file # NoFile /\ i \in Slots /\ IsFirst(i, ExtentSlots)
  /\ k \in Ptr /\ b \in Blocks /\ b # 0 /\ b \in DirBlocks..Size - 1
  /\ Extent(i).pointers[k] \in {0, b} /\ (Extent(i).pointers[k] = 0 => b \notin alv)
  /\ d \in [Slots -> Entry] /\ d[i].name = file.name
  /\ d[i].pointers = [Extent(i).pointers EXCEPT ![k] = b]
  /\ \A j \in Slots \ {i} : d[j] = dir[j]

\* Such a directory is as sound as the one before, with one more block taken.
LEMMA EntryGrows ==
  ASSUME IInv, NEW d, NEW i, NEW k, NEW b, Grows(d, i, k, b)
  PROVE  NoSharedBlock(d) /\ InRange(d) /\ AlvOf(d) = AlvOf(dir) \cup {b}
<1> USE DEF Grows
<1> DEFINE P == Extent(i).pointers
<1>1. /\ dir \in [Slots -> Entry] /\ alv = AlvOf(dir) /\ NoSharedBlock(dir) /\ InRange(dir)
      /\ file.name # Absent
  BY DEF IInv, TypeOK, Ownership, BlocksOwned
<1>2. /\ P \in [Ptr -> Blocks]
      /\ dir[i].name = Absent => \A p \in Ptr : P[p] = 0
      /\ dir[i].name # Absent => P = dir[i].pointers
  <2>1. Extent(i) \in Entry
    BY ExtentFacts
  <2>2. P \in [Ptr -> Blocks]
    BY <2>1 DEF Entry, Ptr
  <2>3. \A p \in Ptr : NoBlocks[p] = 0
    BY DEF NoBlocks, Ptr
  <2> QED BY <2>2, <2>3, ExtentFacts
<1>3. \A j \in Slots, p \in Ptr :
        dir[j].name # Absent /\ dir[j].pointers[p] # 0 => dir[j].pointers[p] \in alv
  <2> SUFFICES ASSUME NEW j \in Slots, NEW p \in Ptr,
                      dir[j].name # Absent, dir[j].pointers[p] # 0
               PROVE  dir[j].pointers[p] \in alv
    OBVIOUS
  <2>1. dir[j].pointers \in [Ptr -> Blocks]
    BY <1>1 DEF Entry, Ptr
  <2> QED BY <1>1, <2>1, TakenBlocks
<1>4. \A p \in Ptr : d[i].pointers[p] = IF p = k THEN b ELSE P[p]
  BY <1>2
<1>5. NoSharedBlock(d)
  <2> SUFFICES ASSUME NEW x \in Slots, NEW y \in Slots, NEW p \in Ptr, NEW q \in Ptr,
                      d[x].name # Absent, d[y].name # Absent,
                      d[x].pointers[p] # 0, d[x].pointers[p] = d[y].pointers[q]
               PROVE  x = y /\ p = q
    BY DEF NoSharedBlock, Ptr
  <2>1. \A v, w \in Slots, r, s \in Ptr :
          dir[v].name # Absent /\ dir[w].name # Absent /\ dir[v].pointers[r] # 0
          /\ dir[v].pointers[r] = dir[w].pointers[s] => v = w /\ r = s
    BY <1>1 DEF NoSharedBlock, Ptr
  <2>2. CASE x # i /\ y # i
    BY <2>1, <2>2
  <2>3. CASE x = i /\ y # i
    <3>1. CASE p = k /\ P[k] = 0
      BY <1>3, <1>4, <2>3, <3>1
    <3>2. CASE p # k \/ P[k] # 0
      BY <1>2, <1>4, <2>1, <2>3, <3>2
    <3> QED BY <3>1, <3>2
  <2>4. CASE x # i /\ y = i
    <3>1. CASE q = k /\ P[k] = 0
      BY <1>3, <1>4, <2>4, <3>1
    <3>2. CASE q # k \/ P[k] # 0
      BY <1>2, <1>4, <2>1, <2>4, <3>2
    <3> QED BY <3>1, <3>2
  <2>5. CASE x = i /\ y = i
    <3>1. CASE P[k] = 0
      BY <1>2, <1>3, <1>4, <2>1, <2>5, <3>1
    <3>2. CASE P[k] # 0
      BY <1>2, <1>4, <2>1, <2>5, <3>2
    <3> QED BY <3>1, <3>2
  <2> QED BY <2>2, <2>3, <2>4, <2>5
<1>6. InRange(d)
  <2> SUFFICES ASSUME NEW j \in Slots, d[j].name # Absent PROVE BlocksInRange(d[j])
    BY DEF InRange
  <2>1. CASE j = i
    BY <1>1, <1>2, <1>4, <2>1 DEF InRange, BlocksInRange, Ptr
  <2>2. CASE j # i
    BY <1>1, <2>2 DEF InRange
  <2> QED BY <2>1, <2>2
<1>7. AlvOf(d) = AlvOf(dir) \cup {b}
  <2>1. BlocksOf(d[i]) = BlocksOf(Extent(i)) \cup {b}
    BY <1>2, BlockAdded
  <2>2. BlocksOf(Extent(i)) = IF dir[i].name = Absent THEN {} ELSE BlocksOf(dir[i])
    <3>1. CASE dir[i].name = Absent
      BY <1>2, <3>1 DEF BlocksOf, Ptr
    <3>2. CASE dir[i].name # Absent
      BY <1>2, <3>2 DEF BlocksOf
    <3> QED BY <3>1, <3>2
  <2> QED BY <1>1, <2>1, <2>2 DEF AlvOf, Free
<1> QED BY <1>5, <1>6, <1>7

\* The block that cpmWrite writes: not one of the directory's, and free if it is new.
LEMMA BlockFacts ==
  ASSUME IInv, tool = "cpmcp", file # NoFile, NEW i \in Slots, NEW b \in Blocks,
         IsFirst(i, ExtentSlots),
         IF Extent(i).pointers[Pointer] = 0 THEN IsFirst(b, Blocks \ alv)
         ELSE b = Extent(i).pointers[Pointer]
  PROVE  /\ Pointer \in Ptr /\ b # 0 /\ b \in DirBlocks..Size - 1
         /\ Extent(i).pointers[Pointer] \in {0, b}
         /\ Extent(i).pointers[Pointer] = 0 => b \notin alv
<1>1. Pointer \in Ptr
  BY PointerInEntry DEF IInv, TypeOK, Copy, Pointer
<1>2. CASE Extent(i).pointers[Pointer] = 0
  <2>1. b \notin alv
    BY <1>2 DEF IsFirst
  <2>2. 0..DirBlocks - 1 \subseteq alv
    BY DEF IInv, Ownership, BlocksOwned, AlvOf
  <2> QED BY <1>1, <1>2, <2>1, <2>2, ConstantFacts DEF Blocks
<1>3. CASE Extent(i).pointers[Pointer] # 0
  <2>1. dir[i].name # Absent
    BY <1>1, <1>3, ExtentFacts DEF NoBlocks, Ptr
  <2>2. BlocksInRange(dir[i]) /\ Extent(i) = dir[i]
    BY <2>1, ExtentFacts DEF IInv, Ownership, InRange
  <2> QED BY <1>1, <1>3, <2>2 DEF BlocksInRange, Ptr
<1> QED BY <1>1, <1>2, <1>3

LEMMA WriteInv ==
  ASSUME IInv, Write
  PROVE  IInv'
<1>1. PICK n \in Counts, i \in Slots, b \in Blocks : WriteBlock(n, i, b)
  BY DEF Write
<1> DEFINE blockEnd == (file.pos \div BlkSiz + 1) * BlkSiz
           stop == IF file.pos + n < blockEnd THEN file.pos + n ELSE blockEnd
           k == Pointer
           count == ((stop - 1) % LogExt) \div RecLen + 1
<1>2. /\ file # NoFile /\ file \in Copy /\ tool = "cpmcp" /\ tool' = tool
      /\ UNCHANGED << diskDir, dirtyDirectory, synced, crashes >>
      /\ file.pos < file.length /\ file.name # Absent /\ file.name \in Names
      /\ dir[file.ino].name = file.name
      /\ dir \in [Slots -> Entry] /\ alv = AlvOf(dir)
  BY <1>1 DEF IInv, TypeOK, Write, WriteBlock, Ownership, BlocksOwned, Copy
<1>3. /\ file.pos \in Nat /\ file.left \in Nat /\ file.length \in Nat /\ file.ino \in Slots
      /\ n \in Nat
  BY <1>2, ConstantFacts DEF Copy, Counts
<1>4. stop \in Nat /\ file.pos + n - stop \in Nat /\ count \in Nat /\ stop % RecLen \in Nat
  <2>1. blockEnd \in Nat
    <3>1. ASSUME NEW x \in Nat, NEW z \in Nat, z > 0 PROVE (x \div z + 1) * z \in Nat
      BY <3>1
    <3> QED BY <1>3, <3>1, ConstantFacts
  <2>2. stop \in Nat /\ stop <= file.pos + n
    BY <1>3, <2>1
  <2>3. (stop - 1) % LogExt \in Nat
    <3> HIDE DEF stop
    <3> QED BY <2>2, ConstantFacts
  <2>4. count \in Nat
    <3> DEFINE m == (stop - 1) % LogExt
    <3>1. m \in Nat
      BY <2>3
    <3> HIDE DEF m
    <3>2. m \div RecLen \in Nat
      BY <3>1, ConstantFacts
    <3> QED BY <3>2 DEF m
  <2>5. stop % RecLen \in Nat
    <3> HIDE DEF stop
    <3> QED BY <2>2, ConstantFacts
  <2> QED BY <1>3, <2>2, <2>4, <2>5
<1> HIDE DEF stop, blockEnd, count
<1>5. /\ IsFirst(i, ExtentSlots)
      /\ IF Extent(i).pointers[k] = 0 THEN IsFirst(b, Blocks \ alv)
         ELSE b = Extent(i).pointers[k]
      /\ alv' = alv \cup {b}
      /\ dir' = [dir EXCEPT ![i] =
                   [Extent(i) EXCEPT !.pointers[k] = b, !.extno = ExtentNo, !.blkcnt = count,
                                     !.lrc = stop % RecLen]]
      /\ file' = [file EXCEPT !.pos = stop, !.left = file.pos + n - stop, !.extno = ExtentNo]
  BY <1>1 DEF WriteBlock, stop, blockEnd, count
<1>6. /\ Extent(i) \in Entry /\ Extent(i).name = file.name /\ diskDir[i].name = Absent
      /\ dir[i].name # Absent => Extent(i) = dir[i]
      /\ ExtentNo \in Nat
  BY <1>2, <1>3, <1>5, ExtentFacts
<1>7. /\ k \in Ptr /\ b # 0 /\ b \in DirBlocks..Size - 1
      /\ Extent(i).pointers[k] \in {0, b} /\ Extent(i).pointers[k] = 0 => b \notin alv
  BY <1>2, <1>5, BlockFacts
<1> HIDE DEF k
<1>8. /\ dir' \in [Slots -> Entry] /\ dir'[i].name = file.name
      /\ dir'[i].pointers = [Extent(i).pointers EXCEPT ![k] = b]
      /\ \A j \in Slots \ {i} : dir'[j] = dir[j]
  <2> DEFINE e == [Extent(i) EXCEPT !.pointers[k] = b, !.extno = ExtentNo, !.blkcnt = count,
                                    !.lrc = stop % RecLen]
             P == [Extent(i).pointers EXCEPT ![k] = b]
  <2>1. P \in [Ptr -> Blocks]
    BY <1>6 DEF Entry, Ptr
  <2>2. e = [Extent(i) EXCEPT !.pointers = P, !.extno = ExtentNo, !.blkcnt = count,
                              !.lrc = stop % RecLen]
    BY <1>6 DEF Entry
  <2> HIDE DEF P
  <2>3. e \in Entry
    BY ONLY <1>4, <1>6, <2>1, <2>2, EntryChanged
  <2>4. e.name = file.name /\ e.pointers = P
    BY <1>6, <2>2 DEF Entry
  <2> HIDE DEF e
  <2>5. dir' = [dir EXCEPT ![i] = e]
    BY <1>5 DEF e
  <2> QED BY <1>2, <2>3, <2>4, <2>5 DEF P
<1>9. TypeOK'
  <2>1. file' \in Copy /\ file'.name = file.name /\ file'.ino = file.ino
    BY <1>2, <1>4, <1>5, <1>6 DEF Copy
  <2>2. alv' \subseteq Blocks
    BY <1>5 DEF IInv, TypeOK
  <2>3. dir'[file.ino].name = file.name
    BY <1>2, <1>3, <1>8
  <2>4. DOMAIN diskData' = DirBlocks..Size - 1
    BY <1>1 DEF IInv, TypeOK, WriteBlock
  <2> QED BY <1>2, <1>8, <2>1, <2>2, <2>3, <2>4 DEF IInv, TypeOK
<1>10. NoSharedBlock(dir') /\ InRange(dir') /\ AlvOf(dir') = AlvOf(dir) \cup {b}
  <2>1. Grows(dir', i, k, b)
    BY <1>2, <1>5, <1>7, <1>8 DEF Grows
  <2> QED BY <2>1, EntryGrows
<1>11. Ownership'
  BY <1>2, <1>5, <1>10 DEF IInv, Ownership, BlocksOwned
<1>12. Agreement'
  <2>1. file'.name = file.name
    BY <1>2, <1>5 DEF Copy
  <2> QED BY <1>2, <1>6, <1>8, <2>1 DEF IInv, Agreement
<1> QED BY <1>9, <1>11, <1>12 DEF IInv

\* An entry without blocks is made, or none.
LEMMA WriteFailsInv ==
  ASSUME IInv, WriteFails
  PROVE  IInv'
<1> USE DEF IInv
<1>1. /\ file # NoFile /\ file' = NoFile /\ tool = "cpmcp" /\ tool' = tool
      /\ UNCHANGED << diskDir, diskData, alv, dirtyDirectory, synced, crashes >>
      /\ dir \in [Slots -> Entry]
  BY DEF WriteFails, TypeOK, diskVars
<1>2. CASE dir' = dir
  <2>1. TypeOK'
    BY <1>1, <1>2, EntryTypes DEF TypeOK
  <2>2. Ownership'
    BY <1>1, <1>2 DEF Ownership, BlocksOwned, NoSharedBlock, InRange
  <2>3. Agreement'
    BY <1>1, <1>2 DEF Agreement
  <2> QED BY <2>1, <2>2, <2>3
<1>3. CASE dir' # dir
  <2>1. PICK i \in Slots : /\ IsFirst(i, ExtentSlots) /\ Extent(i).pointers[Pointer] = 0
                           /\ dir' = [dir EXCEPT ![i] = Extent(i)]
    BY <1>3 DEF WriteFails
  <2>2. /\ Extent(i) \in Entry /\ Extent(i).name = file.name /\ diskDir[i].name = Absent
        /\ (dir[i].name = Absent => Extent(i).pointers = NoBlocks)
        /\ (dir[i].name # Absent => Extent(i) = dir[i])
    BY <1>1, <2>1, ExtentFacts
  <2>3. /\ dir' \in [Slots -> Entry] /\ dir'[i] = Extent(i)
        /\ \A j \in Slots \ {i} : dir'[j] = dir[j]
    BY <1>1, <2>1, <2>2
  <2>4. dir[i].name = Absent /\ \A p \in Ptr : dir'[i].pointers[p] = 0
    <3>1. dir[i].name = Absent
      BY <1>1, <1>3, <2>1, <2>2
    <3>2. \A p \in Ptr : NoBlocks[p] = 0
      BY DEF NoBlocks, Ptr
    <3> QED BY <2>2, <2>3, <3>1, <3>2
  <2>5. TypeOK'
    BY <1>1, <2>3, EntryTypes DEF TypeOK
  <2>6. Ownership'
    BY <1>1, <2>3, <2>4, EmptyEntry DEF Ownership, BlocksOwned
  <2>7. Agreement'
    BY <1>1, <2>2, <2>3 DEF Agreement
  <2> QED BY <2>5, <2>6, <2>7
<1> QED BY <1>2, <1>3

LEMMA CloseInv ==
  ASSUME IInv, Close
  PROVE  IInv'
<1> USE DEF IInv, Close, diskVars
<1>1. TypeOK'
  BY EntryTypes DEF TypeOK
<1>2. Ownership'
  BY DEF Ownership, BlocksOwned, NoSharedBlock, InRange
<1>3. Agreement'
  BY DEF Agreement
<1> QED BY <1>1, <1>2, <1>3

\* Entries are taken away.
LEMMA FewerEntries ==
  ASSUME NEW d, NEW e, \A i \in Slots : e[i].name = Absent \/ e[i] = d[i],
         NoSharedBlock(d), InRange(d)
  PROVE  NoSharedBlock(e) /\ InRange(e)
BY DEF NoSharedBlock, InRange

\* Names and pointers stay.
LEMMA SamePointers ==
  ASSUME NEW d, NEW e,
         \A i \in Slots : e[i].name = d[i].name /\ e[i].pointers = d[i].pointers,
         NoSharedBlock(d), InRange(d)
  PROVE  NoSharedBlock(e) /\ InRange(e) /\ AlvOf(e) = AlvOf(d)
<1>1. NoSharedBlock(e) /\ InRange(e)
  BY DEF NoSharedBlock, InRange, BlocksInRange
<1>2. AlvOf(e) = AlvOf(d)
  BY DEF AlvOf, Free, BlocksOf
<1> QED BY <1>1, <1>2

LEMMA AlvBlocks ==
  ASSUME NEW d
  PROVE  AlvOf(d) \subseteq Blocks
BY ConstantFacts DEF AlvOf, BlocksOf, Blocks

LEMMA UnlinkInv ==
  ASSUME IInv, NEW f \in Names, Unlink(f)
  PROVE  IInv'
<1> USE DEF IInv
<1>1. /\ tool = "cpmrm" /\ tool' = tool /\ file = NoFile /\ alv' = AlvOf(dir')
      /\ UNCHANGED << diskDir, diskData, synced, file, crashes >> /\ dirtyDirectory' = TRUE
      /\ dir' = [i \in Slots |-> IF dir[i].name = f THEN FreeEntry ELSE dir[i]]
      /\ dir \in [Slots -> Entry]
  BY DEF Unlink, Runs, TypeOK, diskVars
<1>2. \A i \in Slots : dir'[i].name = Absent \/ dir'[i] = dir[i]
  BY <1>1, EntryTypes DEF FreeEntry
<1>3. TypeOK'
  BY <1>1, EntryTypes, AlvBlocks DEF TypeOK
<1>4. Ownership'
  <2>1. NoSharedBlock(dir') /\ InRange(dir')
    BY <1>2, FewerEntries DEF Ownership, BlocksOwned
  <2> QED BY <1>1, <2>1 DEF Ownership, BlocksOwned
<1>5. Agreement'
  <2>1. synced' < DirBlocks
    BY ConstantFacts DEF Unlink, Runs
  <2> QED BY <1>1, <1>2, <2>1 DEF Agreement
<1> QED BY <1>3, <1>4, <1>5

LEMMA AttrSetInv ==
  ASSUME IInv, NEW f \in Names, NEW ro \in BOOLEAN, AttrSet(f, ro)
  PROVE  IInv'
<1> USE DEF IInv
<1>1. /\ tool = "cpmchattr" /\ tool' = tool /\ file = NoFile /\ dirtyDirectory' = TRUE
      /\ UNCHANGED << diskDir, diskData, alv, synced, file, crashes >>
      /\ dir \in [Slots -> Entry]
  BY DEF AttrSet, Runs, TypeOK, diskVars
<1>2. PICK i \in Slots :
        dir' = [j \in Slots |-> IF j >= i /\ dir[j].name = f THEN [dir[j] EXCEPT !.ro = ro]
                                ELSE dir[j]]
  BY DEF AttrSet, Listed
<1>3. /\ dir' \in [Slots -> Entry]
      /\ \A j \in Slots : dir'[j].name = dir[j].name /\ dir'[j].pointers = dir[j].pointers
  BY <1>1, <1>2, ZenonT(40) DEF Entry
<1>4. TypeOK'
  BY <1>1, <1>3 DEF TypeOK
<1>5. Ownership'
  <2>1. NoSharedBlock(dir') /\ InRange(dir') /\ AlvOf(dir') = AlvOf(dir)
    BY <1>3, SamePointers DEF Ownership, BlocksOwned
  <2> QED BY <1>1, <2>1 DEF Ownership, BlocksOwned
<1>6. Agreement'
  <2>1. synced' < DirBlocks
    BY ConstantFacts DEF AttrSet, Runs
  <2> QED BY <1>1, <1>3, <2>1 DEF Agreement
<1> QED BY <1>4, <1>5, <1>6

LEMMA FsckInv ==
  ASSUME IInv, Fsck
  PROVE  IInv'
<1> USE DEF IInv
<1>1. /\ tool = "fsck.cpm" /\ tool' = "exit" /\ file = NoFile
      /\ UNCHANGED << diskDir, diskData, alv, dirtyDirectory, synced, file, crashes >>
      /\ dir \in [Slots -> Entry]
  BY DEF Fsck, Runs, TypeOK, diskVars
<1>2. PICK agreed \in SUBSET Slots :
        dir' = [i \in Slots |-> IF i \in agreed THEN Repaired(dir[i]) ELSE dir[i]]
  BY DEF Fsck
<1>3. /\ dir' \in [Slots -> Entry]
      /\ \A i \in Slots : dir'[i].name = Absent \/ dir'[i] = dir[i]
  BY <1>1, <1>2, EntryTypes DEF Repaired, FreeEntry
<1>4. TypeOK'
  BY <1>1, <1>3 DEF TypeOK
<1>5. Ownership'
  <2>1. NoSharedBlock(dir') /\ InRange(dir')
    BY <1>3, FewerEntries DEF Ownership, BlocksOwned
  <2> QED BY <1>1, <2>1 DEF Ownership, BlocksOwned
<1>6. Agreement'
  BY <1>1 DEF Agreement
<1> QED BY <1>4, <1>5, <1>6

\* A block of the directory in core reaches the disk.
LEMMA SyncBlockInv ==
  ASSUME IInv, SyncBlock
  PROVE  IInv'
<1> USE DEF IInv
<1>1. /\ file = NoFile /\ dirtyDirectory /\ synced' = synced + 1
      /\ dirtyDirectory' = (synced + 1 < DirBlocks)
      /\ UNCHANGED << diskData, tool, dir, alv, file, crashes >>
      /\ \A i \in Slots : diskDir'[i] \in {dir[i], diskDir[i]}
      /\ diskDir' \in [Slots -> Entry] /\ synced \in Nat /\ synced < DirBlocks
      /\ tool \in {"cpmcp", "cpmrm", "cpmchattr"}
  <2>1. diskDir' \in [Slots -> Entry] /\ \A i \in Slots : diskDir'[i] \in {dir[i], diskDir[i]}
    BY DEF SyncBlock, TypeOK
  <2>2. tool \in {"cpmcp", "cpmrm", "cpmchattr"} /\ synced \in Nat /\ synced < DirBlocks
    BY ConstantFacts DEF SyncBlock, TypeOK, Agreement
  <2> QED BY <2>1, <2>2 DEF SyncBlock
<1>2. TypeOK'
  <2>1. synced' \in 0..DirBlocks
    BY <1>1, ConstantFacts
  <2> QED BY <1>1, <2>1 DEF TypeOK
<1>3. Agreement'
  <2>1. dirtyDirectory' => synced' < DirBlocks
    BY <1>1
  <2> QED BY <1>1, <2>1 DEF Agreement
<1>4. NoSharedBlock(diskDir') /\ InRange(diskDir')
  <2>1. CASE tool = "cpmcp"
    <3>1. \A i \in Slots : diskDir'[i].name = Absent \/ diskDir'[i] = dir[i]
      BY <1>1, <2>1 DEF Agreement
    <3> QED BY <3>1, FewerEntries DEF Ownership, BlocksOwned
  <2>2. CASE tool = "cpmrm"
    <3>1. \A i \in Slots : diskDir'[i].name = Absent \/ diskDir'[i] = diskDir[i]
      BY <1>1, <2>2 DEF Agreement
    <3> QED BY <3>1, FewerEntries DEF Ownership, BlocksOwned
  <2>3. CASE tool = "cpmchattr"
    <3>1. \A i \in Slots : diskDir'[i].name = dir[i].name /\ diskDir'[i].pointers = dir[i].pointers
      BY <1>1, <2>3 DEF Agreement
    <3> QED BY <3>1, SamePointers DEF Ownership, BlocksOwned
  <2> QED BY <1>1, <2>1, <2>2, <2>3
<1>5. Ownership'
  BY <1>1, <1>4 DEF Ownership, BlocksOwned, NoSharedBlock, InRange
<1> QED BY <1>2, <1>3, <1>5

LEMMA UnchangedInv ==
  ASSUME IInv, UNCHANGED fsVars
  PROVE  IInv'
<1> USE DEF IInv, fsVars, diskVars, coreVars
<1>1. TypeOK'
  BY DEF TypeOK
<1>2. Ownership'
  BY DEF Ownership, BlocksOwned, NoSharedBlock, InRange
<1>3. Agreement'
  BY DEF Agreement
<1> QED BY <1>1, <1>2, <1>3

LEMMA NextInv == IInv /\ [Next]_fsVars => IInv'
<1> SUFFICES ASSUME IInv, [Next]_fsVars PROVE IInv'
  OBVIOUS
<1>1. ASSUME NEW t \in {"cpmcp", "cpmrm", "cpmchattr", "fsck.cpm"}, ReadSuper(t) PROVE IInv'
  BY <1>1, ReadSuperInv
<1>2. ASSUME NEW f \in Names, NEW length \in Lengths, Creat(f, length) PROVE IInv'
  BY <1>2, CreatInv
<1>3. ASSUME NEW f \in Names, Unlink(f) PROVE IInv'
  BY <1>3, UnlinkInv
<1>4. ASSUME NEW f \in Names, NEW ro \in BOOLEAN, AttrSet(f, ro) PROVE IInv'
  BY <1>4, AttrSetInv
<1>5. CASE Write
  BY <1>5, WriteInv
<1>6. CASE WriteFails
  BY <1>6, WriteFailsInv
<1>7. CASE Close
  BY <1>7, CloseInv
<1>8. CASE Fsck
  BY <1>8, FsckInv
<1>9. CASE SyncBlock
  BY <1>9, SyncBlockInv
<1>10. CASE Umount
  <2>1. crashes' \in 0..MaxCrashes
    BY <1>10 DEF Umount, IInv, TypeOK
  <2> QED BY <1>10, <2>1, IdleInv DEF Umount
<1>11. CASE Crash
  <2>1. crashes' \in 0..MaxCrashes
    BY <1>11, ConstantFacts DEF Crash, IInv, TypeOK
  <2> QED BY <1>11, <2>1, IdleInv DEF Crash
<1>12. CASE UNCHANGED fsVars
  BY <1>12, UnchangedInv
<1> QED BY <1>1, <1>2, <1>3, <1>4, <1>5, <1>6, <1>7, <1>8, <1>9, <1>10, <1>11, <1>12 DEF Next

\* The inductive invariant of the file system, for every disk format.
THEOREM Invariant == Spec => []IInv
BY InitInv, NextInv, PTL DEF Spec

\* The directories on the disk and in core keep their shape, and a file is copied only by
\* cpmcp, into an entry with its name.
THEOREM TypeCorrect == Spec => []TypeOK
<1>1. IInv => TypeOK
  BY DEF IInv
<1> QED BY <1>1, Invariant, PTL

\* alvInit and allocBlock give no block to two files, whatever the disk's format and
\* wherever a tool is killed.
THEOREM OneOwner == Spec => []BlocksOwned
<1>1. IInv => BlocksOwned
  BY DEF IInv, Ownership
<1> QED BY <1>1, Invariant, PTL
-------------------------------------------------------------------------------
\* cpmWrite writes to a block that nothing on the disk points to.
LEMMA WriteKeeps ==
  ASSUME IInv, Write, NEW i \in Slots \ Free(diskDir), NEW b \in BlocksOf(diskDir[i])
  PROVE  diskData'[b] = diskData[b]
<1>1. PICK n \in Counts, j \in Slots, c \in Blocks : WriteBlock(n, j, c)
  BY DEF Write
<1>2. /\ file # NoFile /\ tool = "cpmcp" /\ alv = AlvOf(dir) /\ NoSharedBlock(dir)
      /\ IsFirst(j, ExtentSlots)
      /\ IF Extent(j).pointers[Pointer] = 0 THEN IsFirst(c, Blocks \ alv)
         ELSE c = Extent(j).pointers[Pointer]
  BY <1>1 DEF IInv, TypeOK, Write, WriteBlock, Ownership, BlocksOwned
<1>3. /\ Pointer \in Ptr /\ c # 0 /\ Extent(j).pointers[Pointer] \in {0, c}
      /\ Extent(j).pointers[Pointer] = 0 => c \notin alv
  BY <1>2, BlockFacts
<1>4. /\ diskDir[j].name = Absent /\ (dir[j].name # Absent => Extent(j) = dir[j])
      /\ (dir[j].name = Absent => Extent(j).pointers = NoBlocks)
  BY <1>2, ExtentFacts
<1>5. diskDir[i].name # Absent /\ dir[i] = diskDir[i] /\ i # j
  BY <1>2, <1>4 DEF Free, IInv, Agreement
<1>6. PICK p \in Ptr : dir[i].pointers[p] = b
  BY <1>5 DEF BlocksOf, Ptr
<1>7. b \in Blocks /\ b # 0 /\ b \in alv
  BY <1>2, <1>5, <1>6, TakenBlocks DEF BlocksOf
<1>8. b # c
  <2>1. CASE Extent(j).pointers[Pointer] = 0
    BY <1>3, <1>7, <2>1
  <2>2. CASE Extent(j).pointers[Pointer] # 0
    <3>1. dir[j].name # Absent /\ dir[j].pointers[Pointer] = c
      BY <1>3, <1>4, <2>2 DEF NoBlocks, Ptr
    <3> QED BY <1>2, <1>3, <1>5, <1>6, <1>7, <3>1 DEF NoSharedBlock, Ptr
  <2> QED BY <2>1, <2>2
<1> QED BY <1>1, <1>8 DEF WriteBlock

LEMMA StepKeeps ==
  ASSUME IInv, [Next]_fsVars, NEW i \in Slots \ Free(diskDir), NEW b \in BlocksOf(diskDir[i])
  PROVE  diskData'[b] = diskData[b]
<1>1. CASE Write
  BY <1>1, WriteKeeps
<1>2. ASSUME ~Write PROVE UNCHANGED diskData
  BY <1>2 DEF Next, ReadSuper, Creat, Unlink, AttrSet, WriteFails, Close, Fsck, SyncBlock,
              Umount, Crash, diskVars, fsVars
<1> QED BY <1>1, <1>2

\* A tool that is killed while it copies has destroyed nothing: what the disk's directory
\* points to is not written to, on a disk of any format.
THEOREM KeepsData == Spec => DataKept
<1>1. IInv /\ [Next]_fsVars =>
        [\A i \in Slots \ Free(diskDir) : \A b \in BlocksOf(diskDir[i]) :
           diskData'[b] = diskData[b]]_fsVars
  BY StepKeeps
<1> QED BY <1>1, Invariant, PTL DEF Spec, DataKept
-------------------------------------------------------------------------------
\* Division, for what fsck.cpm counts.
LEMMA Product == ASSUME NEW x \in Nat, NEW y \in Nat, x > 0, y > 0 PROVE x * y \in Nat /\ x * y > 0
  OBVIOUS

LEMMA Monotone == ASSUME NEW x \in Int, NEW y \in Int, NEW z \in Nat, x <= y PROVE x * z <= y * z
  OBVIOUS

LEMMA Division ==
  ASSUME NEW x \in Int, NEW y \in Nat, y > 0
  PROVE  /\ x \div y \in Int /\ x % y \in 0..(y - 1)
         /\ x = ((x \div y) * y) + (x % y)
         /\ x >= 0 => x \div y \in Nat
  OBVIOUS

\* Quotient and remainder are unique.
LEMMA Unique ==
  ASSUME NEW y \in Nat, y > 0, NEW q \in Int, NEW r \in 0..(y - 1)
  PROVE  ((q * y) + r) \div y = q /\ ((q * y) + r) % y = r
<1> DEFINE x == (q * y) + r
           d == (x \div y) - q
<1>1. /\ x \in Int /\ x \div y \in Int /\ x % y \in 0..(y - 1)
      /\ x = ((x \div y) * y) + (x % y)
  BY Division
<1>2. d \in Int /\ d * y = r - (x % y)
  <2> HIDE DEF x
  <2>1. d * y = ((x \div y) * y) - (q * y)
    BY <1>1
  <2> QED
    BY <1>1, <2>1 DEF x
<1>3. d * y < y /\ d * y > -y
  BY <1>1, <1>2
<1> HIDE DEF d
<1>4. d = 0
  <2>1. CASE d >= 1
    <3>1. 1 * y <= d * y
      BY <1>2, <2>1, Monotone
    <3> QED
      BY <1>2, <1>3, <3>1
  <2>2. CASE d <= -1
    <3>1. d * y <= (-1) * y
      BY <1>2, <2>2, Monotone
    <3> QED
      BY <1>2, <1>3, <3>1
  <2> QED
    BY <1>2, <2>1, <2>2
<1>5. x \div y = q
  BY <1>1, <1>4 DEF d
<1> QED
  BY <1>1, <1>5

LEMMA Cancel ==
  ASSUME NEW x \in Nat, NEW y \in Nat, NEW z \in Nat, z > 0, x * z = y * z
  PROVE  x = y
<1>1. 0 \in 0..(z - 1) /\ x * z = (x * z) + 0 /\ y * z = (y * z) + 0
  OBVIOUS
<1>2. ((x * z) + 0) \div z = x /\ ((y * z) + 0) \div z = y
  BY <1>1, Unique
<1> QED
  BY <1>1, <1>2

LEMMA Between ==
  ASSUME NEW y \in Nat, y > 0, NEW q \in Int, NEW x \in Int, q * y <= x, x < (q + 1) * y
  PROVE  x \div y = q /\ x % y = x - q * y
<1>1. x - q * y \in 0..(y - 1) /\ x = (q * y) + (x - q * y)
  BY Division
<1> QED
  BY <1>1, Unique

\* Places of places.
LEMMA Nested ==
  ASSUME NEW u \in Nat, NEW y \in Nat, NEW k \in Nat, y > 0, k > 0
  PROVE  /\ (u \div y) \div k = u \div (k * y)
         /\ (u % (k * y)) \div y = (u \div y) % k
         /\ u % (k * y) = (((u \div y) % k) * y) + (u % y)
<1> DEFINE q == u \div y
           r == u % y
           c == q \div k
           s == q % k
<1>1. q \in Nat /\ r \in 0..(y - 1) /\ u = (q * y) + r
  BY Division
<1>2. c \in Nat /\ s \in 0..(k - 1) /\ q = (c * k) + s
  BY <1>1, Division
<1> HIDE DEF q, r, c, s
<1>3. k * y \in Nat /\ k * y > 0
  BY Product
<1>4. (s * y) + r \in 0..(k * y - 1)
  <2>1. s * y <= (k - 1) * y
    BY <1>2, Monotone
  <2>2. s * y >= 0
    BY <1>2
  <2>3. (k - 1) * y = k * y - y
    OBVIOUS
  <2> QED
    BY <1>1, <1>2, <1>3, <2>1, <2>2, <2>3
<1>5. u = (c * (k * y)) + ((s * y) + r)
  <2>1. q * y = c * (k * y) + s * y
    BY <1>2
  <2>2. c * (k * y) \in Int /\ s * y \in Int
    BY <1>2, <1>3
  <2> QED
    BY <1>1, <2>1, <2>2
<1>6. u \div (k * y) = c /\ u % (k * y) = (s * y) + r
  <2> DEFINE w == k * y
             t == (s * y) + r
  <2>1. w \in Nat /\ w > 0 /\ c \in Int /\ t \in 0..(w - 1) /\ u = (c * w) + t
    BY <1>2, <1>3, <1>4, <1>5
  <2> HIDE DEF w, t
  <2>2. u \div w = c /\ u % w = t
    BY <2>1, Unique
  <2> QED
    BY <2>2 DEF w, t
<1>7. ((s * y) + r) \div y = s
  BY <1>1, <1>2, Unique
<1> QED
  BY <1>6, <1>7 DEF c, s, q, r

\* A length in records, rounded up to blocks.
LEMMA RoundUp ==
  ASSUME NEW v \in Nat, NEW z \in Nat, NEW m \in Nat, z > 0, m > 0
  PROVE  ((v \div z + 1) * z + m * z - 1) \div (m * z) = v \div (m * z) + 1
<1> DEFINE a == v \div z
           c == a \div m
           t == a % m
           y == m * z
<1>1. a \in Nat /\ c \in Nat /\ t \in 0..(m - 1) /\ a = (c * m) + t
  BY Division
<1>2. y \in Nat /\ y > 0 /\ c = v \div y
  BY Product, Nested
<1>3. (a + 1) * z + y - 1 = ((c + 1) * y) + (((t + 1) * z) - 1)
  <2> HIDE DEF a, c, t
  <2>1. (a + 1) * z = c * (m * z) + (t + 1) * z
    BY <1>1
  <2>2. (c + 1) * y = c * y + y
    BY <1>1, <1>2
  <2>3. c * y \in Int /\ (t + 1) * z \in Int
    BY <1>1, <1>2
  <2> QED
    BY <1>2, <2>1, <2>2, <2>3
<1>4. ((t + 1) * z) - 1 \in 0..(y - 1)
  <2> HIDE DEF t
  <2>1. (t + 1) * z <= m * z
    BY <1>1, Monotone
  <2>2. (t + 1) * z > 0 /\ (t + 1) * z \in Int
    BY <1>1, Product
  <2> QED
    BY <1>2, <2>1, <2>2
<1>5. c + 1 \in Int
  BY <1>1
<1> HIDE DEF a, c, t, y
<1>6. ((a + 1) * z + y - 1) \div y = c + 1
  BY <1>2, <1>3, <1>4, <1>5, Unique
<1> QED
  BY <1>2, <1>6 DEF a, y
-------------------------------------------------------------------------------
\* What cpmcp copies at once lies in one logical extent, and records, blocks and extents
\* fit into one another.
Aligned ==
  /\ ~Text
  /\ LogExt % Chunk = 0 /\ BlkSiz % RecLen = 0
  /\ LogExt % BlkSiz = 0 /\ ExtCap % LogExt = 0

\* The block pointers of a logical extent.
PerExtent == LogExt \div BlkSiz

LEMMA Exactly ==
  ASSUME NEW x \in Nat, NEW y \in Nat, x > 0, y > 0, x % y = 0
  PROVE  x \div y \in Nat /\ x \div y > 0 /\ x = (x \div y) * y /\ x >= y
<1>1. x \div y \in Nat /\ x = ((x \div y) * y) + (x % y)
  BY Division
<1>2. x \div y # 0
  BY <1>1
<1>3. 1 * y <= (x \div y) * y
  BY <1>1, <1>2, Monotone
<1> QED
  BY <1>1, <1>2, <1>3

LEMMA AlignedSizes ==
  ASSUME Aligned
  PROVE  /\ PerExtent \in Nat /\ PerExtent > 0 /\ LogExt = PerExtent * BlkSiz
         /\ Extents \in Nat /\ Extents > 0 /\ ExtCap = Extents * LogExt
         /\ Pointers = Extents * PerExtent
         /\ \E m \in Nat : m > 0 /\ BlkSiz = m * RecLen
         /\ \E m \in Nat : m > 0 /\ LogExt = m * Chunk
<1>1. PerExtent \in Nat /\ PerExtent > 0 /\ LogExt = PerExtent * BlkSiz
  BY ConstantFacts, Exactly DEF Aligned, PerExtent
<1>2. Extents \in Nat /\ Extents > 0 /\ ExtCap = Extents * LogExt
  BY ConstantFacts, Exactly DEF Aligned, Extents
<1>3. Pointers = Extents * PerExtent
  <2> DEFINE e == Extents * PerExtent
  <2>1. e \in Nat
    BY <1>1, <1>2, Product
  <2>2. Pointers * BlkSiz = e * BlkSiz
    BY <1>1, <1>2, ConstantFacts DEF ExtCap
  <2> HIDE DEF e
  <2>3. Pointers = e
    BY <2>1, <2>2, ConstantFacts, Cancel
  <2> QED
    BY <2>3 DEF e
<1>4. \E m \in Nat : m > 0 /\ BlkSiz = m * RecLen
  BY ConstantFacts, Exactly, ZenonT(40) DEF Aligned
<1>5. \E m \in Nat : m > 0 /\ LogExt = m * Chunk
  BY ConstantFacts, Exactly, ZenonT(40) DEF Aligned
<1> QED
  BY <1>1, <1>2, <1>3, <1>4, <1>5

LEMMA PlaceInEntry ==
  ASSUME NEW u \in Nat
  PROVE  /\ (u % (Pointers * BlkSiz)) \div BlkSiz = (u \div BlkSiz) % Pointers
         /\ u % (Pointers * BlkSiz) = (((u \div BlkSiz) % Pointers) * BlkSiz) + (u % BlkSiz)
<1>1. BlkSiz \in Nat /\ BlkSiz > 0 /\ Pointers \in Nat /\ Pointers > 0
  BY ConstantFacts
<1>2. (u % (Pointers * BlkSiz)) \div BlkSiz = (u \div BlkSiz) % Pointers
  BY ONLY <1>1, u \in Nat, Nested
<1>3. u % (Pointers * BlkSiz) = (((u \div BlkSiz) % Pointers) * BlkSiz) + (u % BlkSiz)
  BY ONLY <1>1, u \in Nat, Nested
<1> QED
  BY <1>2, <1>3

\* Where the unit at position u is: its block, counted from the beginning of the file, its
\* extents, and its place in the entry.
LEMMA Position ==
  ASSUME Aligned, NEW u \in Nat, NEW q, q = u \div BlkSiz
  PROVE  /\ q \in Nat /\ u \div LogExt \in Nat
         /\ (u \div LogExt) \div Extents = q \div Pointers
         /\ (u % ExtCap) \div BlkSiz = q % Pointers
         /\ (u % LogExt) \div BlkSiz = q % PerExtent
         /\ q % Pointers = (((u \div LogExt) % Extents) * PerExtent) + (q % PerExtent)
         /\ u % ExtCap = ((q % Pointers) * BlkSiz) + (u % BlkSiz)
<1>0. /\ BlkSiz \in Nat /\ BlkSiz > 0 /\ LogExt \in Nat /\ LogExt > 0
      /\ Pointers \in Nat /\ Pointers > 0
      /\ PerExtent \in Nat /\ PerExtent > 0 /\ LogExt = PerExtent * BlkSiz
      /\ Extents \in Nat /\ Extents > 0 /\ Pointers = Extents * PerExtent
  BY ConstantFacts, AlignedSizes
<1>1. q \in Nat /\ u \div LogExt \in Nat
  BY <1>0, Division
<1>2. u \div LogExt = q \div PerExtent /\ (u % LogExt) \div BlkSiz = q % PerExtent
  BY <1>0, Nested
<1>3. /\ (q \div PerExtent) \div Extents = q \div Pointers
      /\ q % Pointers = (((q \div PerExtent) % Extents) * PerExtent) + (q % PerExtent)
  <2>1. /\ (q \div PerExtent) \div Extents = q \div (Extents * PerExtent)
        /\ q % (Extents * PerExtent)
           = (((q \div PerExtent) % Extents) * PerExtent) + (q % PerExtent)
    BY <1>0, <1>1, Nested
  <2> QED
    BY <1>0, <2>1
<1>4. ExtCap = Pointers * BlkSiz
  BY DEF ExtCap
<1>5. /\ (u % ExtCap) \div BlkSiz = q % Pointers
      /\ u % ExtCap = ((q % Pointers) * BlkSiz) + (u % BlkSiz)
  <2> DEFINE w == Pointers * BlkSiz
             s == (u \div BlkSiz) % Pointers
  <2>0. /\ (u % (Pointers * BlkSiz)) \div BlkSiz = (u \div BlkSiz) % Pointers
        /\ u % (Pointers * BlkSiz)
           = (((u \div BlkSiz) % Pointers) * BlkSiz) + (u % BlkSiz)
    BY PlaceInEntry
  <2>1. (u % w) \div BlkSiz = s
    BY <2>0
  <2>2. u % w = (s * BlkSiz) + (u % BlkSiz)
    BY <2>0
  <2>3. s = q % Pointers
    OBVIOUS
  <2> HIDE DEF s
  <2>4. w = ExtCap
    BY <1>4
  <2> HIDE DEF w
  <2> QED
    BY <2>1, <2>2, <2>3, <2>4
<1> QED
  BY <1>1, <1>2, <1>3, <1>5

\* The blocks that the units before pos take.
BlocksBefore(pos) == (pos + BlkSiz - 1) \div BlkSiz

LEMMA Ceiling ==
  ASSUME NEW u \in Nat
  PROVE  /\ BlocksBefore(u) = IF u % BlkSiz = 0 THEN u \div BlkSiz ELSE u \div BlkSiz + 1
         /\ u > 0 => BlocksBefore(u) = (u - 1) \div BlkSiz + 1
<1> DEFINE q == u \div BlkSiz
           r == u % BlkSiz
<1>1. BlkSiz \in Nat /\ BlkSiz > 0 /\ q \in Nat /\ r \in 0..(BlkSiz - 1) /\ u = (q * BlkSiz) + r
  BY ConstantFacts, Division
<1> HIDE DEF q, r
<1>2. CASE r = 0
  <2>1. u + BlkSiz - 1 = (q * BlkSiz) + (BlkSiz - 1)
    BY <1>1, <1>2
  <2>2. BlocksBefore(u) = q
    BY <1>1, <2>1, Unique DEF BlocksBefore
  <2>3. ASSUME u > 0 PROVE (u - 1) \div BlkSiz = q - 1
    <3>1. u - 1 = ((q - 1) * BlkSiz) + (BlkSiz - 1)
      BY <1>1, <1>2
    <3> QED
      BY <1>1, <3>1, Unique
  <2> QED
    BY <1>1, <1>2, <2>2, <2>3 DEF q, r
<1>3. CASE r # 0
  <2>1. u + BlkSiz - 1 = ((q + 1) * BlkSiz) + (r - 1) /\ u - 1 = (q * BlkSiz) + (r - 1)
    BY <1>1, <1>3
  <2>2. r - 1 \in 0..(BlkSiz - 1)
    BY <1>1, <1>3
  <2>3. BlocksBefore(u) = q + 1 /\ (u - 1) \div BlkSiz = q
    BY <1>1, <2>1, <2>2, Unique DEF BlocksBefore
  <2> QED
    BY <1>1, <1>3, <2>3 DEF q, r
<1> QED
  BY <1>2, <1>3
-------------------------------------------------------------------------------
\* An entry has the blocks of the extents before its last one, and of that as many as its
\* records need (fsck.cpm.c counts the latter).
BlocksIn(e) == (e.blkcnt * RecLen + BlkSiz - 1) \div BlkSiz

Filled(e) ==
  /\ BlocksIn(e) \in 0..PerExtent
  /\ \A p \in Ptr : e.pointers[p] # 0 <=> p < ((e.extno % Extents) * PerExtent) + BlocksIn(e)

\* A part of a file has one entry.
Part(e) == e.extno \div Extents
Distinct(d) ==
  \A i, j \in Slots :
    d[i].name # Absent /\ d[i].name = d[j].name /\ Part(d[i]) = Part(d[j]) => i = j

Sound(d) == Distinct(d) /\ \A i \in Slots : d[i].name # Absent => Filled(d[i])

\* The entry for part y of a file has the pointers of those of its blocks before the c-th.
Points(entry, y, c) == \A p \in Ptr : entry.pointers[p] # 0 <=> (y * Pointers) + p < c

\* The file that is being copied has the blocks of the units before file.pos, and what was
\* handed to cpmWrite stays in the logical extent it began in.
Copying ==
  LET q == file.pos \div BlkSiz
      end == file.pos + file.left
  IN /\ \A i \in EntriesOf(dir, file.name) :
          /\ Part(dir[i]) <= q \div Pointers
          /\ Part(dir[i]) = q \div Pointers =>
               Points(dir[i], q \div Pointers, BlocksBefore(file.pos))
     /\ file.pos % ExtCap # 0 => ExtentsAt(dir, file.name, file.pos \div LogExt) # {}
     /\ file.left > 0 => /\ file.extno = file.pos \div LogExt
                         /\ end <= (file.extno + 1) * LogExt
     /\ end % Chunk = 0 \/ end = file.length
     /\ end <= file.length

CleanInv ==
  /\ Sound(diskDir) /\ Sound(dir)
  /\ file # NoFile => Copying
  /\ tool = "cpmchattr" =>
       \A i \in Slots : dir[i].extno = diskDir[i].extno /\ dir[i].blkcnt = diskDir[i].blkcnt

Stop(n) == LET blockEnd == (file.pos \div BlkSiz + 1) * BlkSiz
           IN IF file.pos + n < blockEnd THEN file.pos + n ELSE blockEnd

\* A pass of cpmWrite stays in the extent it began in, and in a block.
LEMMA Pass ==
  ASSUME Aligned, file \in Copy, Copying, file.pos < file.length, NEW n \in Counts
  PROVE  LET q == file.pos \div BlkSiz
             end == file.pos + n
         IN /\ n \in Nat /\ n > 0 /\ ExtentNo = file.pos \div LogExt
            /\ end <= (ExtentNo + 1) * LogExt /\ end <= file.length
            /\ end % Chunk = 0 \/ end = file.length
            /\ Stop(n) \in (file.pos + 1)..end
            /\ Stop(n) - 1 \in Nat /\ (Stop(n) - 1) \div BlkSiz = q
<1> DEFINE q == file.pos \div BlkSiz
           end == file.pos + n
<1>1. /\ file.pos \in Nat /\ file.left \in Nat /\ file.length \in Nat /\ file.extno \in Nat
      /\ LogExt \in Nat /\ LogExt > 0 /\ Chunk \in Nat /\ Chunk > 0
      /\ BlkSiz \in Nat /\ BlkSiz > 0
  BY ConstantFacts DEF Copy
<1>2. /\ n \in Nat /\ n > 0
      /\ end % Chunk = 0 \/ end = file.length
      /\ end <= file.length /\ end <= (file.pos \div LogExt + 1) * LogExt
  <2>1. CASE file.left > 0
    BY <1>1, <2>1 DEF Counts, Copying
  <2>2. CASE file.left = 0
    <3>1. n <= Chunk /\ n > 0 /\ n \in Nat /\ (n = Chunk \/ end = file.length) /\ end <= file.length
      BY <1>1, <2>2 DEF Counts, Aligned
    <3>2. file.pos % Chunk = 0
      BY <1>1, <2>2 DEF Copying
    <3> DEFINE a == file.pos \div Chunk
    <3>3. a \in Nat /\ file.pos = a * Chunk
      BY <1>1, <3>2, Division
    <3>4. PICK m \in Nat : m > 0 /\ LogExt = m * Chunk
      BY AlignedSizes
    <3>5. file.pos \div LogExt = a \div m
      BY <1>1, <3>4, Nested
    <3> HIDE DEF a
    <3> DEFINE c == a \div m
    <3>6. c \in Nat /\ a % m \in 0..(m - 1) /\ a = (c * m) + (a % m)
      BY <3>3, <3>4, Division
    <3> HIDE DEF c
    <3>7. a + 1 <= (c + 1) * m
      <4>1. (c + 1) * m = c * m + m /\ c * m \in Nat
        BY <3>4, <3>6
      <4> QED
        BY <3>3, <3>4, <3>6, <4>1
    <3>8. (a + 1) * Chunk <= ((c + 1) * m) * Chunk
      <4>1. (c + 1) * m \in Int
        BY <3>4, <3>6
      <4> QED
        BY <1>1, <3>3, <3>7, <4>1, Monotone
    <3>9. end <= (a + 1) * Chunk
      BY <1>1, <3>1, <3>3
    <3>10. ((c + 1) * m) * Chunk = (c + 1) * LogExt
      BY <1>1, <3>4, <3>6
    <3>11. end <= (file.pos \div LogExt + 1) * LogExt
      <4>1. (a + 1) * Chunk \in Int /\ (c + 1) * LogExt \in Int /\ end \in Int
        BY <1>1, <3>1, <3>3, <3>6
      <4> QED
        BY <3>5, <3>8, <3>9, <3>10, <4>1 DEF c
    <3>12. n = Chunk => end % Chunk = 0
      <4>1. n = Chunk => end = ((a + 1) * Chunk) + 0
        BY <1>1, <3>3
      <4>2. 0 \in 0..(Chunk - 1) /\ a + 1 \in Int
        BY <1>1, <3>3
      <4>3. (((a + 1) * Chunk) + 0) % Chunk = 0
        BY <1>1, <4>2, Unique
      <4> QED
        BY <4>1, <4>3
    <3> QED
      BY <3>1, <3>11, <3>12
  <2> QED
    BY <1>1, <2>1, <2>2
<1>3. ExtentNo = file.pos \div LogExt
  BY <1>1 DEF ExtentNo, Copying
<1>4. /\ q \in Nat /\ q * BlkSiz <= file.pos /\ file.pos < (q + 1) * BlkSiz
      /\ (q + 1) * BlkSiz \in Nat
  <2>1. /\ q \in Nat /\ file.pos % BlkSiz \in 0..(BlkSiz - 1)
        /\ file.pos = (q * BlkSiz) + (file.pos % BlkSiz)
    BY <1>1, Division
  <2> HIDE DEF q
  <2>2. (q + 1) * BlkSiz = q * BlkSiz + BlkSiz /\ q * BlkSiz \in Nat
    BY <1>1, <2>1
  <2> QED
    BY <1>1, <2>1, <2>2
<1>5. Stop(n) \in (file.pos + 1)..end /\ Stop(n) <= (q + 1) * BlkSiz
  BY <1>1, <1>2, <1>4 DEF Stop
<1>6. Stop(n) - 1 \in Nat /\ (Stop(n) - 1) \div BlkSiz = q
  <2>1. Stop(n) - 1 \in Int /\ q * BlkSiz <= Stop(n) - 1 /\ Stop(n) - 1 < (q + 1) * BlkSiz
    <3> HIDE DEF q
    <3>1. q * BlkSiz \in Int
      BY <1>1, <1>4
    <3> QED
      BY <1>1, <1>2, <1>4, <1>5, <3>1
  <2> QED
    BY <1>1, <1>4, <1>5, <2>1, Between
<1> QED
  BY <1>2, <1>3, <1>5, <1>6

\* An entry as cpmWrite makes it for the part of the file it comes to holds no blocks yet.
LEMMA NewPart ==
  ASSUME Aligned, file \in Copy, Copying, ExtentNo = file.pos \div LogExt,
         ExtentsAt(dir, file.name, ExtentNo) = {}
  PROVE  /\ ((ExtentNo % Extents) * PerExtent) = 0
         /\ \A p \in Ptr : ~ (((file.pos \div BlkSiz) \div Pointers) * Pointers) + p
                             < BlocksBefore(file.pos)
<1> DEFINE q == file.pos \div BlkSiz
           x == (file.pos \div LogExt) % Extents
           s == q % Pointers
           r == file.pos % BlkSiz
<1>1. /\ file.pos \in Nat /\ BlkSiz \in Nat /\ BlkSiz > 0 /\ Pointers \in Nat /\ Pointers > 0
      /\ PerExtent \in Nat /\ PerExtent > 0 /\ Extents \in Nat /\ Extents > 0
  BY ConstantFacts, AlignedSizes DEF Copy
<1>2. file.pos % ExtCap = 0
  BY DEF Copying
<1>3. /\ q \in Nat /\ file.pos \div LogExt \in Nat
      /\ s = (x * PerExtent) + (q % PerExtent)
      /\ file.pos % ExtCap = (s * BlkSiz) + r
  BY <1>1, Position
<1>4. s \in Nat /\ r \in Nat /\ x \in Nat /\ q % PerExtent \in Nat
  BY <1>1, <1>3, Division
<1>5. s = 0 /\ r = 0
  <2> HIDE DEF s, r
  <2>1. s * BlkSiz \in Nat
    BY <1>1, <1>4
  <2>2. s * BlkSiz = 0 /\ r = 0
    BY <1>2, <1>3, <1>4, <2>1
  <2>3. s > 0 => s * BlkSiz > 0
    BY <1>1, <1>4, Product
  <2> QED
    BY <1>4, <2>2, <2>3
<1>6. x * PerExtent = 0
  <2> HIDE DEF x, s, q
  <2>1. x * PerExtent \in Nat
    BY <1>1, <1>4
  <2> QED
    BY <1>3, <1>4, <1>5, <2>1
<1>7. BlocksBefore(file.pos) = q
  BY <1>1, <1>5, Ceiling
<1>8. (q \div Pointers) * Pointers = q
  <2> HIDE DEF q
  <2>1. q = ((q \div Pointers) * Pointers) + s /\ (q \div Pointers) \in Int
    BY <1>1, <1>3, Division
  <2> HIDE DEF s
  <2>2. (q \div Pointers) * Pointers \in Int
    BY <1>1, <2>1
  <2> QED
    BY <1>3, <1>5, <2>1, <2>2
<1>9. \A p \in Ptr : ~ q + p < q
  <2> HIDE DEF q
  <2> QED
    BY <1>1, <1>3 DEF Ptr
<1> QED
  BY <1>6, <1>7, <1>8, <1>9

\* The entry that a pass of cpmWrite works on belongs to the part at file.pos, no other
\* entry does, and its pointers are those of the blocks before file.pos.
LEMMA PartFacts ==
  ASSUME Aligned, IInv, CleanInv, file # NoFile, ExtentNo = file.pos \div LogExt,
         NEW i \in Slots, IsFirst(i, ExtentSlots)
  PROVE  LET Y == (file.pos \div BlkSiz) \div Pointers
         IN /\ ExtentNo \div Extents = Y /\ Part(Extent(i)) = Y
            /\ Points(Extent(i), Y, BlocksBefore(file.pos))
            /\ \A j \in Slots \ {i} : dir[j].name = file.name => Part(dir[j]) # Y
            /\ dir[i].name = Absent => ((ExtentNo % Extents) * PerExtent) = 0
<1> DEFINE Y == (file.pos \div BlkSiz) \div Pointers
<1>1. /\ file \in Copy /\ Copying /\ file.pos \in Nat /\ file.name # Absent
      /\ dir \in [Slots -> Entry] /\ Distinct(dir)
      /\ dir[file.ino] \in Entry
  BY DEF IInv, TypeOK, CleanInv, Sound, Copy
<1>2. ExtentNo \div Extents = Y
  BY <1>1, Position
<1>3. CASE dir[i].name # Absent
  <2>1. i \in ExtentsAt(dir, file.name, ExtentNo)
    BY <1>3 DEF IsFirst, ExtentSlots, Free
  <2>2. Extent(i) = dir[i] /\ dir[i].name = file.name /\ Part(dir[i]) = Y
    BY <1>2, <1>3, <2>1 DEF Extent, Free, ExtentsAt, EntriesOf, Part
  <2>3. Points(dir[i], Y, BlocksBefore(file.pos))
    BY <1>1, <2>2 DEF Copying, EntriesOf
  <2>4. \A j \in Slots \ {i} : dir[j].name = file.name => Part(dir[j]) # Y
    BY <1>1, <2>2 DEF Distinct
  <2> QED
    BY <1>2, <1>3, <2>2, <2>3, <2>4
<1>4. CASE dir[i].name = Absent
  <2>1. ExtentsAt(dir, file.name, ExtentNo) = {}
    BY <1>1, <1>4 DEF IsFirst, ExtentSlots, ExtentsAt, EntriesOf
  <2>2. /\ ((ExtentNo % Extents) * PerExtent) = 0
        /\ \A p \in Ptr : ~ (Y * Pointers) + p < BlocksBefore(file.pos)
    BY <1>1, <2>1, NewPart
  <2>3. Extent(i).pointers = NoBlocks
    BY <1>4, ExtentFacts
  <2>4. Extent(i).extno = ExtentNo
    BY <1>1, <1>4 DEF Extent, Free, Entry
  <2>5. \A j \in Slots : dir[j].name = file.name => Part(dir[j]) # Y
    BY <1>2, <2>1 DEF ExtentsAt, EntriesOf, Part
  <2>6. \A p \in Ptr : NoBlocks[p] = 0
    BY DEF NoBlocks, Ptr
  <2>7. Points(Extent(i), Y, BlocksBefore(file.pos))
    BY <2>2, <2>3, <2>6 DEF Points
  <2> QED
    BY <1>2, <2>2, <2>4, <2>5, <2>7 DEF Part
<1> QED
  BY <1>3, <1>4

\* The place after k in an entry is in the same entry, or the first one of the next.
LEMMA Successor ==
  ASSUME NEW q \in Nat, NEW y \in Nat, y > 0
  PROVE  \/ (q + 1) \div y = q \div y
         \/ (q + 1) \div y = q \div y + 1 /\ (q + 1) % y = 0
<1> DEFINE a == q \div y
           r == q % y
<1>1. a \in Nat /\ r \in 0..(y - 1) /\ q = (a * y) + r
  BY Division
<1> HIDE DEF a, r
<1>2. CASE r < y - 1
  <2>1. r + 1 \in 0..(y - 1) /\ q + 1 = (a * y) + (r + 1)
    BY <1>1, <1>2
  <2>2. (q + 1) \div y = a
    BY <1>1, <2>1, Unique
  <2> QED
    BY <2>2 DEF a
<1>3. CASE r = y - 1
  <2>1. (a + 1) * y = (a * y) + y
    BY <1>1
  <2>2. q + 1 = ((a + 1) * y) + 0 /\ 0 \in 0..(y - 1) /\ a + 1 \in Int
    BY <1>1, <1>3, <2>1
  <2>3. (q + 1) \div y = a + 1 /\ (q + 1) % y = 0
    BY <2>2, Unique
  <2> QED
    BY <2>3 DEF a
<1> QED
  BY <1>1, <1>2, <1>3

\* The blocks before the place after a pass, and where that place is.
LEMMA AfterPass ==
  ASSUME Aligned, NEW pos \in Nat, NEW stop \in Nat, stop > pos,
         stop <= (pos \div BlkSiz + 1) * BlkSiz
  PROVE  LET q == pos \div BlkSiz
             r == stop \div BlkSiz
         IN /\ BlocksBefore(stop) = q + 1
            /\ \/ r \div Pointers = q \div Pointers
               \/ r \div Pointers = q \div Pointers + 1 /\ stop % ExtCap = 0
<1> DEFINE q == pos \div BlkSiz
           r == stop \div BlkSiz
<1>1. /\ BlkSiz \in Nat /\ BlkSiz > 0 /\ Pointers \in Nat /\ Pointers > 0
      /\ q \in Nat /\ r \in Nat /\ r \div Pointers \in Nat /\ q \div Pointers \in Nat
  BY ConstantFacts, Division
<1>2. q * BlkSiz <= pos /\ q * BlkSiz \in Nat /\ (q + 1) * BlkSiz = q * BlkSiz + BlkSiz
  <2>1. /\ pos % BlkSiz \in 0..(BlkSiz - 1) /\ pos = (q * BlkSiz) + (pos % BlkSiz)
    BY <1>1, Division
  <2> HIDE DEF q
  <2>2. q * BlkSiz \in Nat /\ (q + 1) * BlkSiz = q * BlkSiz + BlkSiz
    BY <1>1
  <2> QED
    BY <1>1, <2>1, <2>2
<1>3. (stop - 1) \div BlkSiz = q
  <2>1. stop - 1 \in Int /\ q * BlkSiz <= stop - 1 /\ stop - 1 < (q + 1) * BlkSiz
    <3>1. stop <= (q + 1) * BlkSiz
      OBVIOUS
    <3> HIDE DEF q
    <3> QED
      BY <1>1, <1>2, <3>1
  <2> HIDE DEF q
  <2> QED
    BY <1>1, <2>1, Between
<1>4. BlocksBefore(stop) = q + 1
  BY <1>3, Ceiling
<1>5. CASE stop < (q + 1) * BlkSiz
  <2>1. q * BlkSiz <= stop
    <3> HIDE DEF q
    <3> QED
      BY <1>1, <1>2
  <2>2. r = q
    <3> HIDE DEF q
    <3> QED
      BY <1>1, <1>5, <2>1, Between
  <2> QED
    BY <1>4, <2>2
<1>6. CASE stop >= (q + 1) * BlkSiz
  <2>1. stop = ((q + 1) * BlkSiz) + 0 /\ 0 \in 0..(BlkSiz - 1) /\ q + 1 \in Int
    <3>1. stop <= (q + 1) * BlkSiz
      OBVIOUS
    <3> HIDE DEF q
    <3> QED
      BY <1>1, <1>2, <1>6, <3>1
  <2>2. r = q + 1 /\ stop % BlkSiz = 0
    <3> HIDE DEF q
    <3> QED
      BY <1>1, <2>1, Unique
  <2>3. \/ r \div Pointers = q \div Pointers
        \/ r \div Pointers = q \div Pointers + 1 /\ r % Pointers = 0
    <3> HIDE DEF q, r
    <3> QED
      BY <1>1, <2>2, Successor
  <2>4. stop % ExtCap = ((r % Pointers) * BlkSiz) + (stop % BlkSiz)
    BY Position
  <2>5. r % Pointers = 0 => stop % ExtCap = 0
    BY <1>1, <2>2, <2>4
  <2> QED
    BY <1>4, <2>3, <2>5
<1>7. stop \in Int /\ (q + 1) * BlkSiz \in Int
  BY <1>1, <1>2
<1> QED
  BY <1>5, <1>6, <1>7

\* The entry that a pass of cpmWrite leaves holds all of the blocks up to the one written.
LEMMA EntryFilled ==
  ASSUME Aligned, NEW u \in Nat, NEW e, NEW old, NEW b, b # 0,
         e.extno = u \div LogExt, e.blkcnt = ((u % LogExt) \div RecLen) + 1,
         old.pointers \in [Ptr -> Blocks], NEW bb \in {u \div BlkSiz, u \div BlkSiz + 1},
         Points(old, (u \div BlkSiz) \div Pointers, bb),
         e.pointers = [old.pointers EXCEPT ![(u \div BlkSiz) % Pointers] = b]
  PROVE  Filled(e) /\ Points(e, (u \div BlkSiz) \div Pointers, u \div BlkSiz + 1)
<1> DEFINE q == u \div BlkSiz
           k == q % Pointers
           Y == q \div Pointers
           Z == Y * Pointers
           x == (e.extno % Extents) * PerExtent
           t == q % PerExtent
<1>1. /\ BlkSiz \in Nat /\ BlkSiz > 0 /\ Pointers \in Nat /\ Pointers > 0
      /\ PerExtent \in Nat /\ PerExtent > 0 /\ RecLen \in Nat /\ RecLen > 0
      /\ Extents \in Nat /\ Extents > 0
  BY ConstantFacts, AlignedSizes
<1>2. /\ q \in Nat /\ k \in 0..(Pointers - 1) /\ q = Z + k /\ Z \in Nat
  <2>1. q \in Nat
    BY Position
  <2> HIDE DEF q
  <2>2. Y \in Nat /\ k \in 0..(Pointers - 1) /\ q = (Y * Pointers) + k
    BY <1>1, <2>1, Division
  <2> HIDE DEF Y, k
  <2> QED
    BY <1>1, <2>1, <2>2
<1>3. k = x + t /\ t \in 0..(PerExtent - 1) /\ (u % LogExt) \div BlkSiz = t /\ x \in Int
  <2>1. /\ k = (((u \div LogExt) % Extents) * PerExtent) + t
        /\ (u % LogExt) \div BlkSiz = t /\ u \div LogExt \in Nat
    BY Position
  <2>2. t \in 0..(PerExtent - 1)
    BY <1>1, <1>2, Division
  <2>3. x \in Int
    BY <1>1, <2>1, Division
  <2> QED
    BY <2>1, <2>2, <2>3
<1>4. BlocksIn(e) = t + 1
  <2> DEFINE v == u % LogExt
  <2>1. v \in Nat
    BY ConstantFacts, Division
  <2>2. PICK m \in Nat : m > 0 /\ BlkSiz = m * RecLen
    BY AlignedSizes
  <2> HIDE DEF v
  <2>3. ((v \div RecLen + 1) * RecLen + m * RecLen - 1) \div (m * RecLen)
        = v \div (m * RecLen) + 1
    BY <1>1, <2>1, <2>2, RoundUp, ZenonT(40)
  <2>4. BlocksIn(e) = ((v \div RecLen + 1) * RecLen + BlkSiz - 1) \div BlkSiz
    BY DEF BlocksIn, v
  <2>5. v \div BlkSiz = t
    BY <1>3 DEF v
  <2> QED
    BY <2>2, <2>3, <2>4, <2>5
<1>5. k \in Ptr
  BY <1>2 DEF Ptr
<1>6. \A p \in Ptr : old.pointers[p] # 0 <=> Z + p < bb
  BY DEF Points
<1>7. bb \in {q, q + 1}
  OBVIOUS
<1>8. \A p \in Ptr : e.pointers[p] = IF p = k THEN b ELSE old.pointers[p]
  OBVIOUS
<1> HIDE DEF q, k, Y, Z, x, t
<1>9. \A p \in Ptr : p \in Nat /\ (Z + p < q + 1 <=> p <= k) /\ (p <= k <=> p < x + (t + 1))
  BY <1>1, <1>2, <1>3 DEF Ptr
<1>10. \A p \in Ptr : p # k => (Z + p < bb <=> p <= k)
  BY <1>1, <1>2, <1>7 DEF Ptr
<1>11. \A p \in Ptr : e.pointers[p] # 0 <=> p <= k
  <2> TAKE p \in Ptr
  <2>1. CASE p = k
    <3>1. p <= k
      BY <1>2, <2>1
    <3> QED
      BY <1>8, <2>1, <3>1
  <2>2. CASE p # k
    BY <1>6, <1>8, <1>10, <2>2
  <2> QED
    BY <2>1, <2>2
<1>12. BlocksIn(e) \in 0..PerExtent
  BY <1>1, <1>3, <1>4
<1>13. \A p \in Ptr : e.pointers[p] # 0 <=> p < x + BlocksIn(e)
  BY <1>4, <1>9, <1>11
<1>14. \A p \in Ptr : e.pointers[p] # 0 <=> Z + p < q + 1
  BY <1>9, <1>11
<1>15. Filled(e)
  BY <1>12, <1>13 DEF Filled, x
<1> QED
  BY <1>14, <1>15 DEF Points, Z, Y, q

\* Where a logical extent ends.
LEMMA StaysIn ==
  ASSUME NEW u \in Nat, NEW v \in Nat, NEW y \in Nat, y > 0, u <= v, v < (u \div y + 1) * y
  PROVE  v \div y = u \div y
<1> DEFINE q == u \div y
<1>1. q \in Int /\ q * y <= u
  <2>1. q \in Nat /\ u % y \in 0..(y - 1) /\ u = (q * y) + (u % y)
    BY Division
  <2> HIDE DEF q
  <2> QED
    BY <2>1
<1>2. q * y <= v /\ v < (q + 1) * y
  <2>0. v < (q + 1) * y
    OBVIOUS
  <2> HIDE DEF q
  <2>1. q * y \in Int
    BY <1>1
  <2> QED
    BY <1>1, <2>0, <2>1
<1> HIDE DEF q
<1>3. v \div y = q
  BY <1>1, <1>2, Between
<1> QED
  BY <1>3 DEF q

\* What a pass of cpmWrite does to the directory and to the file.
LEMMA WriteEffect ==
  ASSUME Aligned, IInv, CleanInv, file # NoFile, file.pos < file.length,
         NEW n \in Counts, NEW i \in Slots, NEW b \in Blocks, WriteBlock(n, i, b)
  PROVE  LET q == file.pos \div BlkSiz
             stop == Stop(n)
             e == dir'[i]
         IN /\ stop \in (file.pos + 1)..(file.pos + n) /\ stop - 1 \in Nat
            /\ stop <= (q + 1) * BlkSiz /\ (stop - 1) \div BlkSiz = q
            /\ ExtentNo = file.pos \div LogExt /\ (stop - 1) \div LogExt = ExtentNo
            /\ IsFirst(i, ExtentSlots) /\ Pointer = q % Pointers
            /\ e.name = file.name /\ e.ro = Extent(i).ro /\ e.extno = ExtentNo
            /\ e.blkcnt = (((stop - 1) % LogExt) \div RecLen) + 1 /\ e.lrc = stop % RecLen
            /\ e.pointers = [Extent(i).pointers EXCEPT ![Pointer] = b]
            /\ \A j \in Slots \ {i} : dir'[j] = dir[j]
            /\ file'.pos = stop /\ file'.left = (file.pos + n) - stop /\ file'.extno = ExtentNo
            /\ file'.name = file.name /\ file'.length = file.length /\ file' # NoFile
<1> DEFINE q == file.pos \div BlkSiz
           stop == Stop(n)
           end == file.pos + n
<1>1. /\ file \in Copy /\ file.pos \in Nat /\ Copying /\ tool = "cpmcp"
      /\ dir \in [Slots -> Entry] /\ file.name # Absent
  BY DEF WriteBlock, IInv, TypeOK, CleanInv, Copy, Sound
<1>2. /\ n \in Nat /\ n > 0 /\ ExtentNo = file.pos \div LogExt
      /\ end <= (ExtentNo + 1) * LogExt
      /\ stop \in (file.pos + 1)..end
      /\ stop - 1 \in Nat /\ (stop - 1) \div BlkSiz = q
  BY <1>1, Pass
<1>3. /\ IsFirst(i, ExtentSlots)
      /\ dir' = [dir EXCEPT ![i] =
                   [Extent(i) EXCEPT !.pointers[Pointer] = b, !.extno = ExtentNo,
                                     !.blkcnt = ((stop - 1) % LogExt) \div RecLen + 1,
                                     !.lrc = stop % RecLen]]
      /\ file' = [file EXCEPT !.pos = stop, !.left = file.pos + n - stop, !.extno = ExtentNo]
  BY DEF WriteBlock, Stop
<1>4. stop <= (q + 1) * BlkSiz
  <2>1. (q + 1) * BlkSiz \in Int
    <3>1. q \in Int
      BY <1>1, ConstantFacts, Division
    <3> HIDE DEF q
    <3> QED
      BY <3>1, ConstantFacts
  <2> QED
    BY <1>1, <1>2, <2>1 DEF Stop
<1> HIDE DEF stop, end
<1>5. (stop - 1) \div LogExt = ExtentNo
  <2>1. stop - 1 < (ExtentNo + 1) * LogExt /\ file.pos <= stop - 1
    <3>1. (ExtentNo + 1) * LogExt \in Int
      <4>1. ExtentNo \in Int
        BY <1>1, <1>2, ConstantFacts, Division
      <4> QED
        BY <4>1, ConstantFacts
    <3>2. stop <= end /\ end \in Int /\ file.pos + 1 <= stop
      BY <1>1, <1>2 DEF end
    <3> QED
      BY <1>1, <1>2, <3>1, <3>2
  <2> DEFINE v == stop - 1
  <2>2. v \in Nat /\ file.pos <= v /\ v < (file.pos \div LogExt + 1) * LogExt
    BY <1>2, <2>1
  <2> DEFINE u == file.pos
  <2>3. u \in Nat /\ u <= v /\ v < (u \div LogExt + 1) * LogExt
    BY <1>1, <2>2
  <2> HIDE DEF u, v
  <2>4. LogExt \in Nat /\ LogExt > 0
    BY ConstantFacts
  <2>5. v \div LogExt = u \div LogExt
    BY ONLY <2>2, <2>3, <2>4, StaysIn
  <2> QED
    BY <1>2, <2>5 DEF u, v
<1>6. Extent(i) \in Entry /\ Extent(i).name = file.name
  BY <1>1, <1>3, ExtentFacts
<1>7. Pointer = q % Pointers
  BY <1>1, Position DEF Pointer
<1>8. /\ dir'[i].name = file.name /\ dir'[i].ro = Extent(i).ro /\ dir'[i].extno = ExtentNo
      /\ dir'[i].blkcnt = (((stop - 1) % LogExt) \div RecLen) + 1
      /\ dir'[i].lrc = stop % RecLen
      /\ dir'[i].pointers = [Extent(i).pointers EXCEPT ![Pointer] = b]
      /\ \A j \in Slots \ {i} : dir'[j] = dir[j]
  BY <1>1, <1>3, <1>6 DEF Entry
<1>9. /\ file'.pos = stop /\ file'.left = (file.pos + n) - stop /\ file'.extno = ExtentNo
      /\ file'.name = file.name /\ file'.length = file.length
  <2>1. /\ file'.pos = stop /\ file'.left = file.pos + n - stop /\ file'.extno = ExtentNo
        /\ file'.name = file.name /\ file'.length = file.length
    BY <1>1, <1>3 DEF Copy
  <2>2. file.pos + n - stop = (file.pos + n) - stop
    BY <1>1, <1>2
  <2> QED
    BY <2>1, <2>2
<1>10. file' # NoFile
  BY <1>1, <1>9 DEF NoFile
<1> QED
  BY <1>2, <1>3, <1>4, <1>5, <1>7, <1>8, <1>9, <1>10 DEF stop, end

LEMMA WriteClean ==
  ASSUME Aligned, IInv, CleanInv, Write
  PROVE  CleanInv'
<1>1. PICK n \in Counts, i \in Slots, b \in Blocks : WriteBlock(n, i, b)
  BY DEF Write
<1> DEFINE q == file.pos \div BlkSiz
           Y == q \div Pointers
           stop == Stop(n)
           old == Extent(i)
           end == file.pos + n
           e == dir'[i]
<1>2. /\ file # NoFile /\ file \in Copy /\ file.pos \in Nat /\ file.length \in Nat
      /\ file.pos < file.length /\ Copying /\ tool = "cpmcp" /\ tool' = tool
      /\ Sound(dir) /\ Sound(diskDir) /\ diskDir' = diskDir
      /\ dir \in [Slots -> Entry] /\ file.name # Absent
  BY <1>1 DEF Write, WriteBlock, IInv, TypeOK, CleanInv, Copy, Sound
<1>3. /\ n \in Nat /\ n > 0 /\ ExtentNo = file.pos \div LogExt
      /\ end <= (ExtentNo + 1) * LogExt /\ end <= file.length
      /\ end % Chunk = 0 \/ end = file.length
      /\ stop \in (file.pos + 1)..end
      /\ stop - 1 \in Nat /\ (stop - 1) \div BlkSiz = q
  BY <1>2, Pass
<1>4. /\ IsFirst(i, ExtentSlots) /\ stop <= (q + 1) * BlkSiz /\ Pointer = q % Pointers
      /\ (stop - 1) \div LogExt = ExtentNo
      /\ e.name = file.name /\ e.extno = ExtentNo
      /\ e.blkcnt = (((stop - 1) % LogExt) \div RecLen) + 1
      /\ e.pointers = [old.pointers EXCEPT ![Pointer] = b]
      /\ \A j \in Slots \ {i} : dir'[j] = dir[j]
      /\ file'.pos = stop /\ file'.left = end - stop /\ file'.extno = ExtentNo
      /\ file'.name = file.name /\ file'.length = file.length
  BY <1>1, <1>2, WriteEffect
<1>5. IF old.pointers[Pointer] = 0 THEN IsFirst(b, Blocks \ alv) ELSE b = old.pointers[Pointer]
  BY <1>1 DEF WriteBlock
<1> HIDE DEF stop, end
<1>6. /\ stop \in Nat /\ stop > file.pos
      /\ BlocksBefore(stop) = q + 1
      /\ \/ (stop \div BlkSiz) \div Pointers = Y
         \/ (stop \div BlkSiz) \div Pointers = Y + 1 /\ stop % ExtCap = 0
  <2>1. stop \in Nat /\ stop > file.pos
    BY <1>2, <1>3
  <2> QED
    BY <1>2, <1>4, <2>1, AfterPass
<1>7. /\ ExtentNo \div Extents = Y
      /\ Points(old, Y, BlocksBefore(file.pos))
      /\ \A j \in Slots \ {i} : dir[j].name = file.name => Part(dir[j]) # Y
  BY <1>2, <1>3, <1>4, PartFacts
<1>8. old.pointers \in [Ptr -> Blocks]
  BY <1>2, <1>4, ExtentFacts DEF Entry, Ptr
<1>9. b # 0
  BY <1>2, <1>4, <1>5, BlockFacts
<1>10. Filled(e) /\ Points(e, Y, q + 1)
  <2> DEFINE u == stop - 1
             bb == BlocksBefore(file.pos)
  <2>1. bb \in {q, q + 1}
    BY <1>2, Ceiling
  <2>2. u \div BlkSiz = q /\ u \div LogExt = ExtentNo /\ u \in Nat
    BY <1>3, <1>4
  <2>3. e.blkcnt = ((u % LogExt) \div RecLen) + 1
    BY <1>4
  <2>4. Points(old, (u \div BlkSiz) \div Pointers, bb)
    BY <1>7, <2>2
  <2>5. /\ e.pointers = [old.pointers EXCEPT ![(u \div BlkSiz) % Pointers] = b]
        /\ e.extno = u \div LogExt
    BY <1>4, <2>2
  <2>6. bb \in {u \div BlkSiz, u \div BlkSiz + 1}
    BY <2>1, <2>2
  <2> HIDE DEF u, bb, old, q, e
  <2>7. Filled(e) /\ Points(e, (u \div BlkSiz) \div Pointers, u \div BlkSiz + 1)
    BY ONLY Aligned, <1>8, <1>9, <2>2, <2>3, <2>4, <2>5, <2>6, EntryFilled
  <2> QED
    BY <2>2, <2>7
<1>11. Part(e) = Y
  BY <1>7, <1>4 DEF Part
<1> HIDE DEF e, old
<1>12. \A j \in Slots : dir'[j] = IF j = i THEN e ELSE dir[j]
  BY <1>4 DEF e
<1>13. Sound(dir')
  <2>1. Distinct(dir')
    <3> SUFFICES ASSUME NEW j \in Slots, NEW k \in Slots, dir'[j].name # Absent,
                        dir'[j].name = dir'[k].name, Part(dir'[j]) = Part(dir'[k])
                 PROVE  j = k
      BY DEF Distinct
    <3>1. CASE j # i /\ k # i
      BY <1>2, <1>12, <3>1 DEF Sound, Distinct
    <3>2. CASE j = i \/ k = i
      BY <1>7, <1>4, <1>11, <1>12, <3>2
    <3> QED
      BY <3>1, <3>2
  <2>2. \A j \in Slots : dir'[j].name # Absent => Filled(dir'[j])
    BY <1>2, <1>10, <1>12 DEF Sound
  <2> QED
    BY <2>1, <2>2 DEF Sound
<1>14. stop + (end - stop) = end /\ end \in Nat
  BY <1>2, <1>3, <1>6 DEF end
<1> DEFINE V == (stop \div BlkSiz) \div Pointers
<1>15. Y \in Nat /\ V \in Nat /\ V >= Y /\ (V # Y => stop % ExtCap = 0)
  <2>1. q \in Nat /\ stop \div BlkSiz \in Nat
    BY <1>2, <1>6, ConstantFacts, Division
  <2> HIDE DEF q
  <2>2. Y \in Nat
    BY <2>1, ConstantFacts, Division
  <2> HIDE DEF Y
  <2> QED
    BY <1>6, <2>2
<1>16. ASSUME NEW j \in Slots, dir'[j].name = file.name
       PROVE  /\ Part(dir'[j]) <= V
              /\ Part(dir'[j]) = V => Points(dir'[j], V, BlocksBefore(stop))
  <2>1. CASE j = i
    <3>1. dir'[j] = e
      BY <1>12, <2>1
    <3> HIDE DEF Y, V, q
    <3>2. Part(e) <= V
      BY <1>11, <1>15
    <3>3. Part(e) = V => Points(e, V, BlocksBefore(stop))
      BY <1>6, <1>10, <1>11
    <3> QED
      BY <3>1, <3>2, <3>3
  <2>2. CASE j # i
    <3>1. dir'[j] = dir[j] /\ Part(dir[j]) # Y /\ Part(dir[j]) <= Y
      BY <1>2, <1>7, <1>12, <1>16, <2>2 DEF Copying, EntriesOf
    <3>2. Part(dir[j]) \in Int
      <4>1. dir[j].extno \in Nat /\ Extents \in Nat /\ Extents > 0
        BY <1>2, AlignedSizes DEF Entry
      <4> QED
        BY <4>1, Division DEF Part
    <3> HIDE DEF Y, V
    <3>3. Part(dir[j]) < V
      BY <1>15, <3>1, <3>2
    <3> QED
      BY <1>15, <3>1, <3>2, <3>3
  <2> QED
    BY <2>1, <2>2
<1>17. stop % ExtCap # 0 => ExtentsAt(dir', file.name, stop \div LogExt) # {}
  <2> SUFFICES ASSUME stop % ExtCap # 0 PROVE i \in ExtentsAt(dir', file.name, stop \div LogExt)
    OBVIOUS
  <2>1. (stop \div LogExt) \div Extents = V
    BY <1>6, Position
  <2>2. Part(e) = V
    BY <1>11, <1>15
  <2>3. dir'[i].name = file.name /\ dir'[i].extno \div Extents = V
    BY <1>4, <2>2 DEF e, Part
  <2> QED
    BY <2>1, <2>3 DEF ExtentsAt, EntriesOf
<1>18. end - stop > 0 => ExtentNo = stop \div LogExt
  <2> SUFFICES ASSUME stop < end PROVE ExtentNo = stop \div LogExt
    BY <1>6, <1>14
  <2>1. stop < (ExtentNo + 1) * LogExt /\ file.pos <= stop
    <3>1. (ExtentNo + 1) * LogExt \in Int
      <4>1. ExtentNo \in Int
        BY <1>2, <1>3, ConstantFacts, Division
      <4> QED
        BY <4>1, ConstantFacts
    <3> QED
      BY <1>2, <1>3, <1>6, <1>14, <3>1
  <2> QED
    BY <1>2, <1>3, <1>6, <2>1, ConstantFacts, StaysIn
<1>19. Copying'
  <2>1. \A j \in EntriesOf(dir', file.name) :
          /\ Part(dir'[j]) <= V
          /\ Part(dir'[j]) = V => Points(dir'[j], V, BlocksBefore(stop))
    BY <1>16 DEF EntriesOf
  <2>2. end - stop > 0 => ExtentNo = stop \div LogExt /\ end <= (ExtentNo + 1) * LogExt
    BY <1>3, <1>18
  <2>3. end % Chunk = 0 \/ end = file.length
    BY <1>3
  <2>4. end <= file.length
    BY <1>3
  <2> QED
    BY <1>4, <1>14, <1>17, <2>1, <2>2, <2>3, <2>4 DEF Copying
<1> QED
  BY <1>2, <1>13, <1>19 DEF CleanInv

\* An entry without blocks at the beginning of a part of a file.
LEMMA EmptyPart ==
  ASSUME Aligned, NEW e, e.blkcnt = 0, e.pointers = NoBlocks,
         ((e.extno % Extents) * PerExtent) = 0
  PROVE  Filled(e)
<1>1. BlocksIn(e) = 0
  BY ConstantFacts DEF BlocksIn
<1>2. \A p \in Ptr : e.pointers[p] = 0 /\ ~ p < 0
  BY ConstantFacts DEF NoBlocks, Ptr
<1> QED
  BY <1>1, <1>2, AlignedSizes DEF Filled

\* One more entry, for a part that had none.
LEMMA EntryAdded ==
  ASSUME NEW d, NEW e, NEW i \in Slots, Sound(d), Filled(e[i]),
         \A j \in Slots \ {i} : e[j] = d[j],
         \A j \in Slots \ {i} : d[j].name = e[i].name => Part(d[j]) # Part(e[i])
  PROVE  Sound(e)
<1>1. \A j \in Slots : j # i => e[j] = d[j]
  OBVIOUS
<1>2. Distinct(e)
  <2> SUFFICES ASSUME NEW j \in Slots, NEW k \in Slots, e[j].name # Absent,
                      e[j].name = e[k].name, Part(e[j]) = Part(e[k])
               PROVE  j = k
    BY DEF Distinct
  <2>1. CASE j # i /\ k # i
    BY <1>1, <2>1 DEF Sound, Distinct
  <2>2. CASE j = i \/ k = i
    BY <1>1, <2>2
  <2> QED
    BY <2>1, <2>2
<1>3. \A j \in Slots : e[j].name # Absent => Filled(e[j])
  BY <1>1 DEF Sound
<1> QED
  BY <1>2, <1>3 DEF Sound

\* Entries that are taken away leave the others sound, and so do other attributes.
LEMMA FewerSound ==
  ASSUME NEW d, NEW e, \A i \in Slots : e[i].name = Absent \/ e[i] = d[i], Sound(d)
  PROVE  Sound(e)
BY DEF Sound, Distinct

LEMMA SameSound ==
  ASSUME NEW d, NEW e, Sound(d),
         \A i \in Slots : /\ e[i].name = d[i].name /\ e[i].pointers = d[i].pointers
                          /\ e[i].extno = d[i].extno /\ e[i].blkcnt = d[i].blkcnt
  PROVE  Sound(e)
<1>1. \A i \in Slots : Part(e[i]) = Part(d[i]) /\ BlocksIn(e[i]) = BlocksIn(d[i])
  BY DEF Part, BlocksIn
<1>2. Distinct(e)
  BY <1>1 DEF Sound, Distinct
<1>3. \A i \in Slots : e[i].name # Absent => Filled(e[i])
  BY <1>1 DEF Sound, Filled
<1> QED
  BY <1>2, <1>3 DEF Sound

LEMMA NoEntries ==
  ASSUME NEW d, d = [i \in Slots |-> FreeEntry]
  PROVE  Sound(d)
BY DEF Sound, Distinct, FreeEntry, NewEntry

LEMMA InitClean == Init => CleanInv
BY NoEntries DEF Init, CleanInv

LEMMA CreatClean ==
  ASSUME Aligned, IInv, CleanInv, NEW f \in Names, NEW length \in Lengths, Creat(f, length)
  PROVE  CleanInv'
<1>1. PICK i \in Slots :
        /\ IsFirst(i, Free(dir))
        /\ dir' = [dir EXCEPT ![i] = NewEntry(f)]
        /\ file' = [NoFile EXCEPT !.name = f, !.ino = i, !.length = length]
  BY DEF Creat
<1>2. /\ dir \in [Slots -> Entry] /\ EntriesOf(dir, f) = {} /\ tool' = "cpmcp"
      /\ diskDir' = diskDir /\ Sound(dir) /\ Sound(diskDir)
      /\ dir'[i] = NewEntry(f) /\ \A j \in Slots \ {i} : dir'[j] = dir[j]
  BY <1>1 DEF Creat, Runs, IInv, TypeOK, CleanInv, diskVars
<1>3. /\ file'.name = f /\ file'.length = length /\ file'.pos = 0 /\ file'.left = 0
      /\ length \in Nat
  BY <1>1, FormatAssumption DEF NoFile
<1>4. /\ 0 % Extents = 0 /\ 0 \div Extents = 0 /\ 0 * PerExtent = 0 /\ 0 \div BlkSiz = 0
      /\ 0 \div Pointers = 0 /\ 0 % ExtCap = 0 /\ 0 % Chunk = 0 /\ 0 % BlkSiz = 0
  BY ConstantFacts, AlignedSizes
<1>5. NewEntry(f).extno = 0 /\ NewEntry(f).blkcnt = 0 /\ NewEntry(f).pointers = NoBlocks
  BY DEF NewEntry
<1>6. Sound(dir')
  <2>1. Filled(dir'[i])
    BY <1>2, <1>4, <1>5, EmptyPart
  <2>2. \A j \in Slots \ {i} : dir[j].name # dir'[i].name
    BY <1>2 DEF EntriesOf, NewEntry
  <2> QED
    BY <1>2, <2>1, <2>2, EntryAdded
<1>7. BlocksBefore(0) = 0
  BY <1>4, Ceiling
<1>8. \A j \in EntriesOf(dir', f) : dir'[j] = NewEntry(f)
  BY <1>2 DEF EntriesOf
<1>9. Part(NewEntry(f)) = 0
  BY <1>4, <1>5 DEF Part
<1>10. Points(NewEntry(f), 0, 0)
  BY <1>5, ConstantFacts DEF Points, NoBlocks, Ptr
<1>11. Copying'
  <2>1. 0 + 0 = 0 /\ ~ 0 > 0 /\ 0 <= length
    BY <1>3
  <2> QED
    BY <1>3, <1>4, <1>7, <1>8, <1>9, <1>10, <2>1 DEF Copying
<1> QED
  BY <1>2, <1>6, <1>11 DEF CleanInv

LEMMA WriteFailsClean ==
  ASSUME Aligned, IInv, CleanInv, WriteFails
  PROVE  CleanInv'
<1>1. /\ file # NoFile /\ file' = NoFile /\ tool = "cpmcp" /\ tool' = tool /\ diskDir' = diskDir
      /\ file \in Copy /\ Copying /\ file.pos < file.length /\ dir \in [Slots -> Entry]
      /\ Sound(dir) /\ Sound(diskDir)
  BY DEF WriteFails, IInv, TypeOK, CleanInv, diskVars
<1>2. CASE dir' = dir
  <2>1. Sound(dir')
    BY <1>1, <1>2, FewerSound
  <2> QED
    BY <1>1, <2>1 DEF CleanInv
<1>3. CASE dir' # dir
  <2>1. PICK i \in Slots : IsFirst(i, ExtentSlots) /\ dir' = [dir EXCEPT ![i] = Extent(i)]
    BY <1>3 DEF WriteFails
  <2>2. /\ Extent(i) \in Entry /\ Extent(i).name = file.name
        /\ (dir[i].name = Absent => Extent(i).pointers = NoBlocks)
        /\ (dir[i].name # Absent => Extent(i) = dir[i])
    BY <1>1, <2>1, ExtentFacts
  <2>3. dir'[i] = Extent(i) /\ \A j \in Slots \ {i} : dir'[j] = dir[j]
    BY <1>1, <2>1
  <2>4. dir[i].name = Absent
    BY <1>1, <1>3, <2>1, <2>2
  <2>5. ExtentNo = file.pos \div LogExt
    BY <1>1 DEF ExtentNo, Copying, Copy
  <2>6. /\ Part(Extent(i)) = (file.pos \div BlkSiz) \div Pointers
        /\ \A j \in Slots \ {i} : dir[j].name = file.name => Part(dir[j]) # Part(Extent(i))
        /\ ((ExtentNo % Extents) * PerExtent) = 0
    BY <1>1, <2>1, <2>4, <2>5, PartFacts
  <2>7. Extent(i).extno = ExtentNo /\ Extent(i).blkcnt = 0
    <3>1. dir[file.ino] \in Entry
      BY <1>1 DEF Copy
    <3> QED
      BY <2>4, <3>1 DEF Extent, Free, Entry
  <2>8. Filled(dir'[i])
    BY <2>2, <2>3, <2>4, <2>6, <2>7, EmptyPart
  <2>9. Sound(dir')
    BY <1>1, <2>2, <2>3, <2>6, <2>8, EntryAdded
  <2> QED
    BY <1>1, <2>9 DEF CleanInv
<1> QED
  BY <1>2, <1>3

LEMMA UnlinkClean ==
  ASSUME CleanInv, NEW f \in Names, Unlink(f)
  PROVE  CleanInv'
<1>1. \A i \in Slots : dir'[i].name = Absent \/ dir'[i] = dir[i]
  BY DEF Unlink, FreeEntry, NewEntry
<1>2. Sound(dir')
  BY <1>1, FewerSound DEF CleanInv
<1> QED
  BY <1>2 DEF Unlink, Runs, CleanInv, diskVars

LEMMA AttrSetClean ==
  ASSUME IInv, CleanInv, NEW f \in Names, NEW ro \in BOOLEAN, AttrSet(f, ro)
  PROVE  CleanInv'
<1>1. PICK i \in Slots :
        dir' = [j \in Slots |-> IF j >= i /\ dir[j].name = f THEN [dir[j] EXCEPT !.ro = ro]
                                ELSE dir[j]]
  BY DEF AttrSet, Listed
<1>2. dir \in [Slots -> Entry]
  BY DEF IInv, TypeOK
<1>3. \A j \in Slots : /\ dir'[j].name = dir[j].name /\ dir'[j].pointers = dir[j].pointers
                       /\ dir'[j].extno = dir[j].extno /\ dir'[j].blkcnt = dir[j].blkcnt
  BY <1>1, <1>2 DEF Entry
<1>4. Sound(dir')
  BY <1>3, SameSound DEF CleanInv
<1> QED
  BY <1>3, <1>4 DEF AttrSet, Runs, CleanInv, diskVars

LEMMA FsckKeepsClean ==
  ASSUME CleanInv, Fsck
  PROVE  CleanInv'
<1>1. \A i \in Slots : dir'[i].name = Absent \/ dir'[i] = dir[i]
  BY DEF Fsck, Repaired, FreeEntry, NewEntry
<1>2. Sound(dir')
  BY <1>1, FewerSound DEF CleanInv
<1> QED
  BY <1>2 DEF Fsck, Runs, CleanInv, diskVars

LEMMA SyncBlockClean ==
  ASSUME IInv, CleanInv, SyncBlock
  PROVE  CleanInv'
<1>1. /\ file = NoFile /\ UNCHANGED << tool, dir, file >>
      /\ \A i \in Slots : diskDir'[i] \in {dir[i], diskDir[i]}
      /\ tool \in {"cpmcp", "cpmrm", "cpmchattr"}
      /\ Sound(dir) /\ Sound(diskDir)
  BY DEF SyncBlock, IInv, TypeOK, Agreement, CleanInv
<1>2. Sound(diskDir')
  <2>1. CASE tool = "cpmcp"
    <3>1. \A i \in Slots : diskDir'[i].name = Absent \/ diskDir'[i] = dir[i]
      BY <1>1, <2>1 DEF IInv, Agreement
    <3> QED
      BY <1>1, <3>1, FewerSound
  <2>2. CASE tool = "cpmrm"
    <3>1. \A i \in Slots : diskDir'[i].name = Absent \/ diskDir'[i] = diskDir[i]
      BY <1>1, <2>2 DEF IInv, Agreement
    <3> QED
      BY <1>1, <3>1, FewerSound
  <2>3. CASE tool = "cpmchattr"
    <3>1. \A i \in Slots : /\ diskDir'[i].name = dir[i].name
                           /\ diskDir'[i].pointers = dir[i].pointers
                           /\ diskDir'[i].extno = dir[i].extno
                           /\ diskDir'[i].blkcnt = dir[i].blkcnt
      BY <1>1, <2>3 DEF IInv, Agreement, CleanInv
    <3> QED
      BY <1>1, <3>1, SameSound
  <2> QED
    BY <1>1, <2>1, <2>2, <2>3
<1>3. tool' = "cpmchattr" => \A i \in Slots : dir'[i].extno = diskDir'[i].extno
                                              /\ dir'[i].blkcnt = diskDir'[i].blkcnt
  BY <1>1 DEF CleanInv
<1> QED
  BY <1>1, <1>2, <1>3, FewerSound DEF CleanInv

LEMMA NextClean == Aligned /\ IInv /\ CleanInv /\ [Next]_fsVars => CleanInv'
<1> SUFFICES ASSUME Aligned, IInv, CleanInv, [Next]_fsVars PROVE CleanInv'
  OBVIOUS
<1>1. ASSUME NEW t \in {"cpmcp", "cpmrm", "cpmchattr", "fsck.cpm"}, ReadSuper(t)
      PROVE  CleanInv'
  <2>1. dir' = diskDir /\ UNCHANGED << diskDir, file >> /\ file = NoFile
    BY <1>1 DEF ReadSuper, diskVars, IInv, TypeOK
  <2> QED
    BY <2>1 DEF CleanInv, Sound, Distinct
<1>2. ASSUME NEW f \in Names, NEW length \in Lengths, Creat(f, length) PROVE CleanInv'
  BY <1>2, CreatClean
<1>3. ASSUME NEW f \in Names, Unlink(f) PROVE CleanInv'
  BY <1>3, UnlinkClean
<1>4. ASSUME NEW f \in Names, NEW ro \in BOOLEAN, AttrSet(f, ro) PROVE CleanInv'
  BY <1>4, AttrSetClean
<1>5. CASE Write
  BY <1>5, WriteClean
<1>6. CASE WriteFails
  BY <1>6, WriteFailsClean
<1>7. CASE Close
  <2>1. UNCHANGED << diskDir, dir, tool >> /\ file' = NoFile
    BY <1>7 DEF Close, diskVars
  <2> QED
    BY <2>1 DEF CleanInv, Sound, Distinct
<1>8. CASE Fsck
  BY <1>8, FsckKeepsClean
<1>9. CASE SyncBlock
  BY <1>9, SyncBlockClean
<1>10. CASE Umount \/ Crash
  <2>1. /\ UNCHANGED diskDir /\ dir' = [i \in Slots |-> FreeEntry] /\ tool' = "none"
        /\ file' = NoFile
    BY <1>10 DEF Umount, Crash, Idle, diskVars
  <2> QED
    BY <2>1, NoEntries DEF CleanInv, Sound, Distinct
<1>11. CASE UNCHANGED fsVars
  <2>1. UNCHANGED << diskDir, dir, tool, file >>
    BY <1>11 DEF fsVars, diskVars, coreVars
  <2>2. Copying => Copying'
    BY <2>1 DEF Copying, EntriesOf, ExtentsAt
  <2> QED
    BY <2>1, <2>2 DEF CleanInv, Sound, Distinct
<1> QED
  BY <1>1, <1>2, <1>3, <1>4, <1>5, <1>6, <1>7, <1>8, <1>9, <1>10, <1>11 DEF Next
-------------------------------------------------------------------------------
\* The pointers that fsck.cpm looks at, and how many of them it finds in use.
LEMMA RecordCount ==
  ASSUME Aligned, NEW e \in Entry, Filled(e)
  PROVE  RecordCountOK(e)
<1> DEFINE x == e.extno % Extents
           base == x * PerExtent
           c == BlocksIn(e)
<1>1. /\ PerExtent \in Nat /\ PerExtent > 0 /\ Extents \in Nat /\ Extents > 0
      /\ Pointers = Extents * PerExtent /\ Pointers \in Nat
      /\ x \in 0..(Extents - 1) /\ c \in 0..PerExtent
      /\ \A p \in Ptr : e.pointers[p] # 0 <=> p < base + c
  <2>1. x \in 0..(Extents - 1)
    BY AlignedSizes, Division DEF Entry
  <2> QED
    BY <2>1, AlignedSizes, ConstantFacts DEF Filled
<1> HIDE DEF x, c
<1>2. base \in Nat /\ base + PerExtent <= Pointers
  <2>1. base \in Nat
    BY <1>1
  <2>2. (x + 1) * PerExtent <= Extents * PerExtent
    BY <1>1, Monotone
  <2>3. (x + 1) * PerExtent = base + PerExtent
    BY <1>1
  <2> QED
    BY <1>1, <2>1, <2>2, <2>3
<1>3. /\ (x * Pointers) \div Extents = base
      /\ (x * Pointers + Pointers) \div Extents = base + PerExtent
  <2>1. x * Pointers = (base * Extents) + 0
    BY <1>1
  <2>2. x * Pointers + Pointers = ((base + PerExtent) * Extents) + 0
    BY <1>1
  <2>3. 0 \in 0..(Extents - 1) /\ base \in Int /\ base + PerExtent \in Int
    BY <1>1, <1>2
  <2> HIDE DEF base
  <2> QED
    BY <1>1, <2>1, <2>2, <2>3, Unique
<1> HIDE DEF base
<1>4. UsedHere(e) = { p \in base..((base + PerExtent) - 1) : e.pointers[p] # 0 }
  BY <1>3 DEF UsedHere, x
<1>5. UsedHere(e) = base..(base + c - 1)
  <2>1. \A p \in base..((base + PerExtent) - 1) : p \in Ptr
    BY <1>1, <1>2 DEF Ptr
  <2>2. \A p \in base..((base + PerExtent) - 1) : e.pointers[p] # 0 <=> p < base + c
    BY <1>1, <2>1
  <2>3. \A p : (p \in base..((base + PerExtent) - 1) /\ p < base + c) <=> p \in base..(base + c - 1)
    BY <1>1, <1>2
  <2> QED
    BY <1>4, <2>2, <2>3
<1>6. Cardinality(base..(base + c - 1)) = c
  <2> DEFINE top == base + c - 1
  <2>1. base \in Int /\ top \in Int
    BY <1>1, <1>2
  <2>2. Cardinality(base..top) = IF base > top THEN 0 ELSE top - base + 1
    <3> HIDE DEF top
    <3> QED
      BY <2>1, FS_Interval
  <2>3. c = IF base > top THEN 0 ELSE top - base + 1
    BY <1>1, <1>2
  <2> QED
    BY <2>2, <2>3
<1> QED
  BY <1>5, <1>6 DEF RecordCountOK, BlocksIn, c

LEMMA NothingToRepair ==
  ASSUME Aligned, NEW d \in [Slots -> Entry], Sound(d), InRange(d), NEW i \in Slots
  PROVE  Repaired(d[i]) = d[i]
<1>1. CASE d[i].name = Absent
  BY <1>1 DEF Repaired
<1>2. CASE d[i].name # Absent
  <2>1. BlocksInRange(d[i]) /\ RecordCountOK(d[i])
    BY <1>2, RecordCount DEF InRange, Sound
  <2> QED
    BY <2>1 DEF Repaired
<1> QED
  BY <1>1, <1>2

\* fsck.cpm finds nothing wrong with the disk, wherever a tool was killed: unless cpmcp -t
\* writes, whose chunks may cross the end of a logical extent.
THEOREM StaysClean ==
  ASSUME Aligned
  PROVE  Spec => []FsckClean
<1>1. IInv /\ CleanInv => FsckClean
  <2> SUFFICES ASSUME IInv, CleanInv PROVE FsckClean
    OBVIOUS
  <2>1. diskDir \in [Slots -> Entry] /\ Sound(diskDir) /\ InRange(diskDir)
    BY DEF IInv, TypeOK, Ownership, CleanInv
  <2>2. \A i \in Slots : Repaired(diskDir[i]) = diskDir[i]
    BY <2>1, NothingToRepair
  <2>3. \A i, j \in Slots \ Free(diskDir) :
          diskDir[i].name = diskDir[j].name /\ diskDir[i].extno = diskDir[j].extno => i = j
    BY <2>1 DEF Free, Sound, Distinct, Part
  <2> QED
    BY <2>2, <2>3 DEF FsckClean
<1>2. Init => IInv /\ CleanInv
  BY InitInv, InitClean
<1>3. IInv /\ CleanInv /\ [Next]_fsVars => (IInv /\ CleanInv)'
  BY NextInv, NextClean
<1> QED
  BY <1>1, <1>2, <1>3, PTL DEF Spec
-------------------------------------------------------------------------------
(***************************************************************************)
(* The file system implements FileStore, for every disk format whose sizes  *)
(* divide one another: a tool does to the files what it promises, and       *)
(* nothing to any other file, also when it is killed.                       *)
(***************************************************************************)
\* Sectors divide blocks, too.
Readable == Aligned /\ BlkSiz % SecLen = 0

\* Where the last record of an entry ends.
End(e) ==
  e.extno * LogExt
  + IF e.blkcnt = 0 THEN 0
    ELSE (e.blkcnt - 1) * RecLen + (IF e.lrc = 0 THEN RecLen ELSE e.lrc)

\* A file that is new has its parts one after the other.
Grown(d, f) ==
  /\ \A i, j \in EntriesOf(d, f) : i < j => Part(d[i]) < Part(d[j])
  /\ \A i \in EntriesOf(d, f) :
       /\ ~d[i].ro
       /\ Part(d[i]) * ExtCap <= End(d[i]) /\ End(d[i]) <= (Part(d[i]) + 1) * ExtCap

\* What cpmcp adds comes after all that is there, and belongs to files that the disk does
\* not have, unless cpmSync has begun to write them.
New(d, disk, n) ==
  \A i \in Slots : d[i].name # Absent /\ disk[i].name = Absent =>
    /\ \A j \in Slots : j < i => d[j].name # Absent
    /\ \A j \in Slots : disk[j].name = d[i].name => j \div EntriesPerBlock < n
    /\ Grown(d, d[i].name)

\* How the directory in core and the one on the disk differ, file by file: what cpmrm takes
\* away it takes away as a whole, and cpmchattr leaves the lengths alone.
FileAgreement ==
  /\ tool = "cpmcp" => New(dir, diskDir, synced)
  /\ tool = "cpmrm" =>
       \A i, j \in Slots :
         diskDir[i].name # Absent /\ dir[i].name = Absent => dir[j].name # diskDir[i].name
  /\ tool = "cpmchattr" => \A i \in Slots : dir[i].lrc = diskDir[i].lrc

\* cpmSync has written the blocks it has come to, and nothing is left to be saved otherwise.
Synced ==
  /\ tool # "none" =>
       \A i \in Slots : i \div EntriesPerBlock < synced \/ ~dirtyDirectory => diskDir[i] = dir[i]
  /\ file # NoFile => dirtyDirectory /\ synced = 0 /\ file.length \in Lengths

\* A part that is followed by others is full.
Full(d, f, y) == \E i \in EntriesOf(d, f) : Part(d[i]) = y /\ End(d[i]) = (y + 1) * ExtCap

\* The entry holds the unit at position u of the file of the given length that is copied.
Stored(e, data, f, length, u) ==
  LET b == e.pointers[(u % ExtCap) \div BlkSiz]
  IN b # 0 /\ data[b][u % BlkSiz] = << f, length, u >>

\* The first pos units of a file have been copied: all parts before that position are full,
\* the part there ends with it, and the units are where they belong.
Copied(d, data, f, length, pos) ==
  /\ \A y \in 0..(pos \div ExtCap) - 1 : Full(d, f, y)
  /\ \A i \in EntriesOf(d, f) :
       /\ Part(d[i]) <= pos \div ExtCap
       /\ Part(d[i]) = pos \div ExtCap => End(d[i]) = pos
       /\ \A u \in 0..pos - 1 :
            u \div ExtCap = Part(d[i]) => Stored(d[i], data, f, length, u)
  /\ pos % ExtCap # 0 => \E i \in EntriesOf(d, f) : Part(d[i]) = pos \div ExtCap

CopyInv == file # NoFile => Copied(dir, diskData, file.name, file.length, file.pos)

StoreInv == FileAgreement /\ Synced /\ CopyInv
-------------------------------------------------------------------------------
-------------------------------------------------------------------------------
\* The part of a file that a unit is in.
LEMMA PartOf ==
  ASSUME Aligned, NEW u \in Nat
  PROVE  /\ u \div ExtCap \in Nat
         /\ (u \div LogExt) \div Extents = u \div ExtCap
         /\ (u \div BlkSiz) \div Pointers = u \div ExtCap
<1>1. /\ LogExt \in Nat /\ LogExt > 0 /\ Extents \in Nat /\ Extents > 0
      /\ ExtCap = Extents * LogExt /\ ExtCap \in Nat /\ ExtCap > 0
  BY ConstantFacts, AlignedSizes
<1>2. u \div ExtCap \in Nat
  BY <1>1, Division
<1>3. (u \div LogExt) \div Extents = u \div (Extents * LogExt)
  BY <1>1, Nested
<1>4. (u \div LogExt) \div Extents = u \div ExtCap
  BY <1>1, <1>3
<1>5. (u \div LogExt) \div Extents = (u \div BlkSiz) \div Pointers
  BY Position
<1> QED
  BY <1>2, <1>4, <1>5

\* An entry ends after the unit that was written last.
LEMMA EndAfter ==
  ASSUME Aligned, NEW v \in Nat, NEW e,
         e.extno = v \div LogExt, e.blkcnt = ((v % LogExt) \div RecLen) + 1,
         e.lrc = (v + 1) % RecLen
  PROVE  End(e) = v + 1
<1> DEFINE x == v \div LogExt
           w == v % LogExt
           a == w \div RecLen
           r == w % RecLen
<1>1. RecLen \in Nat /\ RecLen > 0 /\ LogExt \in Nat /\ LogExt > 0
  BY ConstantFacts
<1>2. x \in Nat /\ w \in Nat /\ v = (x * LogExt) + w
  BY <1>1, Division
<1> HIDE DEF x, w
<1>3. a \in Nat /\ r \in 0..(RecLen - 1) /\ w = (a * RecLen) + r
  BY <1>1, <1>2, Division
<1> HIDE DEF a, r
<1>4. PICK m \in Nat : LogExt = m * RecLen
  <2>1. PICK n \in Nat : BlkSiz = n * RecLen
    BY AlignedSizes
  <2>2. LogExt = (PerExtent * n) * RecLen /\ PerExtent * n \in Nat
    BY <1>1, <2>1, AlignedSizes
  <2> QED
    BY <2>2
<1> DEFINE c == (x * m) + a
<1>5. c \in Nat /\ v = (c * RecLen) + r
  <2>1. x * LogExt = (x * m) * RecLen /\ x * m \in Nat
    BY <1>1, <1>2, <1>4
  <2>2. c * RecLen = ((x * m) * RecLen) + (a * RecLen)
    BY <1>1, <1>3, <2>1
  <2>3. x * LogExt \in Nat /\ a * RecLen \in Nat /\ (x * m) * RecLen \in Nat
    BY <1>1, <1>2, <1>3, <2>1
  <2>4. v = ((x * LogExt) + (a * RecLen)) + r
    BY <1>2, <1>3, <2>3
  <2>5. c * RecLen = (x * LogExt) + (a * RecLen)
    BY <2>1, <2>2
  <2>6. c \in Nat
    BY <1>3, <2>1
  <2> HIDE DEF c
  <2> QED
    BY <2>4, <2>5, <2>6
<1> HIDE DEF c
<1>6. e.blkcnt = a + 1 /\ e.extno = x
  BY DEF a, w, x
<1>7. /\ e.blkcnt # 0 /\ (e.blkcnt - 1) * RecLen = a * RecLen /\ a * RecLen \in Nat
      /\ e.extno * LogExt = x * LogExt /\ x * LogExt \in Nat
  BY <1>1, <1>2, <1>3, <1>6
<1>8. CASE r = RecLen - 1
  <2>1. (c + 1) * RecLen = (c * RecLen) + RecLen
    BY <1>1, <1>5
  <2>2. v + 1 = ((c + 1) * RecLen) + 0 /\ 0 \in 0..(RecLen - 1) /\ c + 1 \in Int
    BY <1>1, <1>5, <1>8, <2>1
  <2>3. e.lrc = 0
    BY <1>1, <2>2, Unique, ZenonT(40)
  <2>4. End(e) = x * LogExt + (a * RecLen + RecLen)
    BY <1>7, <2>3 DEF End
  <2> QED
    BY <1>1, <1>2, <1>3, <1>7, <1>8, <2>4
<1>9. CASE r # RecLen - 1
  <2>1. v + 1 = (c * RecLen) + (r + 1) /\ r + 1 \in 0..(RecLen - 1) /\ c \in Int
    BY <1>1, <1>3, <1>5, <1>9
  <2>2. e.lrc = r + 1 /\ r + 1 # 0
    BY <1>1, <1>3, <2>1, Unique
  <2>3. End(e) = x * LogExt + (a * RecLen + (r + 1))
    BY <1>7, <2>2 DEF End
  <2> QED
    BY <1>1, <1>2, <1>3, <1>7, <2>3
<1> QED
  BY <1>8, <1>9
-------------------------------------------------------------------------------
\* The least of a set of numbers.
LEMMA Least ==
  ASSUME NEW S, S \subseteq Nat, S # {}
  PROVE  \E m \in S : \A k \in S : m <= k
<1> DEFINE R == OpToRel(<, Nat)
<1>1. IsWellFoundedOn(R, Nat)
  BY NatLessThanWellFounded
<1>2. \A x, y \in Nat : << y, x >> \in R <=> y < x
  BY DEF OpToRel
<1> HIDE DEF R
<1>3. PICK m \in S : \A k \in S : ~ << k, m >> \in R
  BY <1>1, WFMin
<1>4. ASSUME NEW k \in S PROVE m <= k
  <2>1. ~ << k, m >> \in R /\ k \in Nat /\ m \in Nat
    BY <1>3
  <2>2. ~ k < m
    BY <1>2, <2>1
  <2> QED
    BY <2>1, <2>2
<1> QED
  BY <1>4

\* A file has a first entry and a last one.
LEMMA Lowest ==
  ASSUME NEW d \in [Slots -> Entry], NEW f, EntriesOf(d, f) # {}
  PROVE  \E i \in EntriesOf(d, f) : \A j \in EntriesOf(d, f) : d[i].extno <= d[j].extno
<1> DEFINE S == { d[i].extno : i \in EntriesOf(d, f) }
<1>1. S \subseteq Nat /\ S # {}
  BY ZenonT(40) DEF EntriesOf, Entry
<1>2. PICK m \in S : \A k \in S : m <= k
  <2> HIDE DEF S
  <2> QED
    BY <1>1, Least
<1> QED
  BY <1>2

LEMMA Bounded ==
  ASSUME NEW d \in [Slots -> Entry]
  PROVE  \E b \in Nat : \A i \in Slots : d[i].extno <= b
<1> DEFINE Good(m) == \E b \in Nat : \A i \in Slots : i < m => d[i].extno <= b
           Bad == { m \in Nat : ~ Good(m) }
<1>1. Slots \subseteq Nat /\ \A i \in Slots : i < MaxDir /\ d[i].extno \in Nat
  BY ConstantFacts DEF Slots, Entry
<1>2. Bad = {}
  <2> SUFFICES ASSUME Bad # {} PROVE FALSE
    OBVIOUS
  <2>1. PICK m \in Bad : \A k \in Bad : m <= k
    BY Least
  <2>2. m \in Nat /\ m # 0
    <3>1. Good(0)
      BY <1>1
    <3> QED
      BY <3>1
  <2>3. Good(m - 1)
    <3>1. m - 1 \in Nat /\ m - 1 \notin Bad
      BY <2>1, <2>2
    <3> QED
      BY <3>1
  <2>4. PICK b \in Nat : \A i \in Slots : i < m - 1 => d[i].extno <= b
    BY <2>3
  <2>5. Good(m)
    <3>1. CASE m - 1 \in Slots
      <4> DEFINE c == b + d[m - 1].extno
      <4>1. c \in Nat /\ b <= c /\ d[m - 1].extno <= c
        <5>1. b \in Nat /\ d[m - 1].extno \in Nat
          BY <1>1, <2>4, <3>1
        <5> QED
          BY <5>1
      <4>2. \A i \in Slots : i < m => d[i].extno <= c
        <5> TAKE i \in Slots
        <5>1. i < m => i < m - 1 \/ i = m - 1
          BY <1>1, <2>2
        <5>2. d[i].extno \in Nat
          BY <1>1
        <5> HIDE DEF c
        <5> QED
          BY <2>4, <4>1, <5>1, <5>2
      <4> QED
        BY <4>1, <4>2
    <3>2. CASE m - 1 \notin Slots
      <4>1. \A i \in Slots : i < m => i < m - 1
        BY <1>1, <2>2, <3>2
      <4> QED
        BY <2>4, <4>1
    <3> QED
      BY <3>1, <3>2
  <2> QED
    BY <2>5
<1>3. Good(MaxDir)
  BY <1>2, ConstantFacts
<1> QED
  BY <1>1, <1>3

LEMMA Highest ==
  ASSUME NEW d \in [Slots -> Entry], NEW f, EntriesOf(d, f) # {}
  PROVE  \E i \in EntriesOf(d, f) : \A j \in EntriesOf(d, f) : d[j].extno <= d[i].extno
<1>1. PICK b \in Nat : \A i \in Slots : d[i].extno <= b
  BY Bounded
<1> DEFINE S == { b - d[i].extno : i \in EntriesOf(d, f) }
<1>2. \A i \in EntriesOf(d, f) : d[i].extno \in Nat /\ d[i].extno <= b
  BY <1>1 DEF EntriesOf, Entry
<1>3. S \subseteq Nat /\ S # {}
  BY <1>2
<1>4. PICK m \in S : \A k \in S : m <= k
  BY <1>3, Least
<1>5. PICK i \in EntriesOf(d, f) : m = b - d[i].extno
  BY <1>4
<1>6. \A j \in EntriesOf(d, f) : b - d[i].extno <= b - d[j].extno
  BY <1>4, <1>5
<1> QED
  BY <1>2, <1>6
-------------------------------------------------------------------------------
\* What is found under a name.  A record is not what stands for no file.
RecordsDiffer == \A data, ro : [data |-> data, ro |-> ro] # Absent

First(d, f, i) == i \in EntriesOf(d, f) /\ \A j \in EntriesOf(d, f) : d[i].extno <= d[j].extno
Last(d, f, i) == i \in EntriesOf(d, f) /\ \A j \in EntriesOf(d, f) : d[j].extno <= d[i].extno

\* No two entries of a file have the same extent number.
LEMMA OneExtent ==
  ASSUME NEW d, Distinct(d), NEW f, f # Absent, NEW i \in EntriesOf(d, f),
         NEW j \in EntriesOf(d, f), d[i].extno = d[j].extno
  PROVE  i = j
BY DEF Distinct, EntriesOf, Part

LEMMA NoFileShown ==
  ASSUME NEW d, NEW data, NEW f, EntriesOf(d, f) = {}
  PROVE  FileOf(d, data, f) = Absent
BY DEF FileOf, Listed, EntriesOf

LEMMA SizeShown ==
  ASSUME NEW d \in [Slots -> Entry], Distinct(d), NEW f, f # Absent,
         NEW l, Last(d, f, l)
  PROVE  SizeOf(d, f) = End(d[l])
<1>1. \A i \in EntriesOf(d, f) : d[i].extno \in Nat
  BY DEF EntriesOf, Entry
<1>2. \A i \in EntriesOf(d, f) :
        (\A j \in EntriesOf(d, f) : d[j].extno <= d[i].extno) => i = l
  <2> SUFFICES ASSUME NEW i \in EntriesOf(d, f),
                      \A j \in EntriesOf(d, f) : d[j].extno <= d[i].extno
               PROVE  i = l
    OBVIOUS
  <2>1. d[i].extno = d[l].extno /\ l \in EntriesOf(d, f)
    BY <1>1 DEF Last
  <2> QED
    BY <2>1, OneExtent
<1> DEFINE last == CHOOSE i \in EntriesOf(d, f) :
                     \A j \in EntriesOf(d, f) : d[j].extno <= d[i].extno
<1>3. last = l
  BY <1>2 DEF Last
<1>4. SizeOf(d, f) = End(d[last])
  BY Zenon DEF SizeOf, End
<1> HIDE DEF last
<1> QED
  BY <1>3, <1>4

LEMMA FileShown ==
  ASSUME NEW d \in [Slots -> Entry], Distinct(d), NEW data, NEW f \in Names,
         NEW i, First(d, f, i), NEW l, Last(d, f, l)
  PROVE  FileOf(d, data, f)
         = [data |-> [u \in 1..End(d[l]) |-> UnitAt(d, data, f, u - 1)], ro |-> d[i].ro]
<1>1. f # Absent
  BY ConstantFacts
<1>2. \A j \in Slots : j \in Listed(d) /\ d[j].name = f <=> First(d, f, j)
  BY <1>1 DEF Listed, Free, First, EntriesOf
<1>3. \A j \in Slots : First(d, f, j) => j = i
  <2> SUFFICES ASSUME NEW j \in Slots, First(d, f, j) PROVE j = i
    OBVIOUS
  <2>1. j \in EntriesOf(d, f) /\ i \in EntriesOf(d, f) /\ d[j].extno = d[i].extno
    BY DEF First, EntriesOf, Entry
  <2> QED
    BY <1>1, <2>1, OneExtent
<1>4. Listed(d) \subseteq Slots /\ i \in Slots
  BY DEF Listed, First, EntriesOf
<1>5. i \in Listed(d) /\ d[i].name = f /\ \A j \in Listed(d) : d[j].name = f => j = i
  BY <1>2, <1>3, <1>4
<1>6. (CHOOSE j \in Listed(d) : d[j].name = f) = i
  BY <1>5
<1>7. SizeOf(d, f) = End(d[l])
  BY <1>1, SizeShown
<1> QED
  BY <1>5, <1>6, <1>7 DEF FileOf

LEMMA Ends ==
  ASSUME NEW d \in [Slots -> Entry], NEW f, EntriesOf(d, f) # {}
  PROVE  (\E i : First(d, f, i)) /\ (\E l : Last(d, f, l))
BY Lowest, Highest DEF First, Last

LEMMA EndType ==
  ASSUME NEW e \in Entry
  PROVE  End(e) \in Nat
<1>1. e.extno \in Nat /\ e.blkcnt \in Nat /\ e.lrc \in Nat /\ LogExt \in Nat /\ RecLen \in Nat
  BY ConstantFacts DEF Entry
<1>2. e.extno * LogExt \in Nat
  BY <1>1
<1>3. e.blkcnt # 0 => (e.blkcnt - 1) * RecLen \in Nat
  BY <1>1
<1> QED
  BY <1>1, <1>2, <1>3 DEF End

\* The unit at position u is in the entry for its part.
LEMMA UnitShown ==
  ASSUME Aligned, NEW d \in [Slots -> Entry], Distinct(d), NEW data, NEW f, f # Absent,
         NEW u \in Nat, NEW i \in EntriesOf(d, f), Part(d[i]) = u \div ExtCap
  PROVE  LET b == d[i].pointers[(u % ExtCap) \div BlkSiz]
         IN UnitAt(d, data, f, u) = IF b = 0 THEN Zero ELSE data[b][u % BlkSiz]
<1> DEFINE hits == ExtentsAt(d, f, u \div LogExt)
<1>1. hits = {i}
  <2>1. \A j \in EntriesOf(d, f) : j \in hits <=> Part(d[j]) = u \div ExtCap
    BY PartOf DEF ExtentsAt, Part
  <2>2. \A j \in EntriesOf(d, f) : Part(d[j]) = u \div ExtCap => j = i
    BY DEF Distinct, EntriesOf
  <2>3. hits \subseteq EntriesOf(d, f)
    BY DEF ExtentsAt
  <2> HIDE DEF hits
  <2> QED
    BY <2>1, <2>2, <2>3
<1>2. i \in Int /\ i <= i
  BY ConstantFacts DEF EntriesOf, Slots
<1> DEFINE first == CHOOSE j \in hits : IsFirst(j, hits)
           b == d[first].pointers[(u % ExtCap) \div BlkSiz]
<1>3. UnitAt(d, data, f, u) = IF hits = {} \/ b = 0 THEN Zero ELSE data[b][u % BlkSiz]
  BY Zenon DEF UnitAt
<1> HIDE DEF hits
<1>4. first = i /\ hits # {}
  BY <1>1, <1>2 DEF IsFirst
<1> HIDE DEF first
<1> QED
  BY <1>3, <1>4

LEMMA NoUnit ==
  ASSUME Aligned, NEW d, NEW data, NEW f, NEW u \in Nat,
         \A i \in EntriesOf(d, f) : Part(d[i]) # u \div ExtCap
  PROVE  UnitAt(d, data, f, u) = Zero
<1>1. ExtentsAt(d, f, u \div LogExt) = {}
  BY PartOf DEF ExtentsAt, Part
<1> QED
  BY <1>1 DEF UnitAt

\* Two directories have the same entries for a file, but for their attributes, and the blocks
\* of the file are the same.
Alike(d, e, f) ==
  \A i \in Slots : d[i].name = f \/ e[i].name = f =>
    /\ e[i].name = d[i].name /\ e[i].extno = d[i].extno /\ e[i].blkcnt = d[i].blkcnt
    /\ e[i].lrc = d[i].lrc /\ e[i].pointers = d[i].pointers

SameBlocks(d, old, new, f) ==
  \A i \in EntriesOf(d, f) : \A p \in Ptr :
    d[i].pointers[p] # 0 => new[d[i].pointers[p]] = old[d[i].pointers[p]]

LEMMA SameUnit ==
  ASSUME Aligned, NEW d \in [Slots -> Entry], Distinct(d), NEW e \in [Slots -> Entry],
         Distinct(e), NEW old, NEW new, NEW f \in Names,
         Alike(d, e, f), SameBlocks(d, old, new, f), NEW u \in Nat
  PROVE  UnitAt(e, new, f, u) = UnitAt(d, old, f, u)
<1>1. f # Absent /\ EntriesOf(e, f) = EntriesOf(d, f)
      /\ \A i \in EntriesOf(d, f) : Part(e[i]) = Part(d[i]) /\ e[i].pointers = d[i].pointers
  BY ConstantFacts DEF EntriesOf, Alike, Part
<1>2. CASE \E i \in EntriesOf(d, f) : Part(d[i]) = u \div ExtCap
  <2>1. PICK i \in EntriesOf(d, f) : Part(d[i]) = u \div ExtCap
    BY <1>2
  <2> DEFINE p == (u % ExtCap) \div BlkSiz
             b == d[i].pointers[p]
  <2>2. p \in Ptr
    BY PointerInEntry
  <2> HIDE DEF p
  <2>3. UnitAt(d, old, f, u) = IF b = 0 THEN Zero ELSE old[b][u % BlkSiz]
    BY <1>1, <2>1, UnitShown DEF p
  <2>4. UnitAt(e, new, f, u) = IF b = 0 THEN Zero ELSE new[b][u % BlkSiz]
    <3>1. i \in EntriesOf(e, f) /\ Part(e[i]) = u \div ExtCap /\ e[i].pointers = d[i].pointers
      BY <1>1, <2>1
    <3>2. UnitAt(e, new, f, u)
          = IF e[i].pointers[p] = 0 THEN Zero ELSE new[e[i].pointers[p]][u % BlkSiz]
      <4> HIDE DEF Alike, SameBlocks
      <4>1. f # Absent
        BY <1>1
      <4> QED
        BY ONLY Aligned, e \in [Slots -> Entry], Distinct(e), <4>1, <3>1, u \in Nat,
                UnitShown DEF p
    <3> QED
      BY <3>1, <3>2
  <2>5. b # 0 => new[b] = old[b]
    BY <2>2 DEF SameBlocks
  <2> QED
    BY <2>3, <2>4, <2>5
<1>3. CASE ~ \E i \in EntriesOf(d, f) : Part(d[i]) = u \div ExtCap
  BY <1>1, <1>3, NoUnit
<1> QED
  BY <1>2, <1>3

LEMMA SameFile ==
  ASSUME Aligned, NEW d \in [Slots -> Entry], Distinct(d), NEW e \in [Slots -> Entry],
         Distinct(e), NEW old, NEW new, NEW f \in Names,
         Alike(d, e, f), SameBlocks(d, old, new, f)
  PROVE  /\ EntriesOf(d, f) # {} => FileOf(e, new, f).data = FileOf(d, old, f).data
         /\ (\A i \in EntriesOf(d, f) : e[i].ro = d[i].ro) => FileOf(e, new, f) = FileOf(d, old, f)
<1>1. EntriesOf(e, f) = EntriesOf(d, f)
      /\ \A i \in EntriesOf(d, f) : e[i].extno = d[i].extno /\ End(e[i]) = End(d[i])
  BY DEF EntriesOf, Alike, End
<1>2. CASE EntriesOf(d, f) = {}
  BY <1>1, <1>2, NoFileShown
<1>3. CASE EntriesOf(d, f) # {}
  <2>1. PICK i : First(d, f, i)
    BY <1>3, Ends
  <2>2. PICK l : Last(d, f, l)
    BY <1>3, Ends
  <2>3. First(e, f, i) /\ Last(e, f, l) /\ End(e[l]) = End(d[l])
    BY <1>1, <2>1, <2>2 DEF First, Last
  <2> DEFINE F == [u \in 1..End(d[l]) |-> UnitAt(d, old, f, u - 1)]
             G == [u \in 1..End(d[l]) |-> UnitAt(e, new, f, u - 1)]
  <2>4. F = G
    <3>1. End(d[l]) \in Nat
      BY <2>2, EndType DEF Last, EntriesOf
    <3>2. ASSUME NEW u \in 1..End(d[l]) PROVE UnitAt(e, new, f, u - 1) = UnitAt(d, old, f, u - 1)
      <4>1. u - 1 \in Nat
        BY <3>1
      <4> QED
        BY <4>1, SameUnit
    <3> QED
      BY <3>2
  <2>5. FileOf(d, old, f) = [data |-> F, ro |-> d[i].ro]
    BY <2>1, <2>2, FileShown
  <2>6. FileOf(e, new, f) = [data |-> G, ro |-> e[i].ro]
    BY <2>3, FileShown
  <2> HIDE DEF F, G
  <2>7. FileOf(e, new, f).data = FileOf(d, old, f).data
    BY <2>4, <2>5, <2>6
  <2>8. i \in EntriesOf(d, f)
    BY <2>1 DEF First
  <2> QED
    BY <2>4, <2>5, <2>6, <2>7, <2>8
<1> QED
  BY <1>2, <1>3

\* The directory block of an entry.
LEMMA SlotBlock ==
  ASSUME NEW i \in Slots
  PROVE  i \div EntriesPerBlock \in Nat /\ i \div EntriesPerBlock < DirBlocks
<1> DEFINE E == EntriesPerBlock
           a == i \div E
           c == MaxDir + E - 1
<1>1. E \in Nat /\ E > 0 /\ MaxDir \in Nat /\ i \in Nat /\ i < MaxDir
  BY ConstantFacts, FormatAssumption DEF Slots
<1> HIDE DEF E
<1>2. a \in Nat /\ i % E \in 0..(E - 1) /\ i = (a * E) + (i % E)
  BY <1>1, Division
<1>3. c \in Nat /\ c \div E \in Nat /\ c % E \in 0..(E - 1) /\ c = ((c \div E) * E) + (c % E)
  <2>1. c \in Nat
    BY <1>1
  <2> HIDE DEF c
  <2> QED
    BY <1>1, <2>1, Division
<1>4. DirBlocks = c \div E
  BY DEF DirBlocks, E
<1>5. c = (MaxDir + E) - 1
  BY <1>1
<1> DEFINE D == c \div E
           s == c % E
           r == i % E
<1> HIDE DEF a, c, D, s, r
<1>6. a * E <= c - E
  <2>1. a * E \in Nat
    BY <1>1, <1>2
  <2> QED
    BY <1>1, <1>2, <1>5, <2>1 DEF r
<1>7. D \in Nat /\ c = (D * E) + s /\ s \in 0..(E - 1)
  BY <1>3 DEF D, s
<1>8. a < D
  <2> SUFFICES ASSUME D <= a PROVE FALSE
    BY <1>2, <1>7
  <2>1. D * E <= a * E
    BY <1>1, <1>2, <1>7, Monotone
  <2>2. D * E \in Int /\ a * E \in Int
    BY <1>1, <1>2, <1>7
  <2> QED
    BY <1>1, <1>6, <1>7, <2>1, <2>2
<1> QED
  BY <1>2, <1>4, <1>8 DEF a, D, E

LEMMA QuotientGrows ==
  ASSUME NEW x \in Nat, NEW y \in Nat, NEW z \in Nat, z > 0, x <= y
  PROVE  x \div z <= y \div z
<1> DEFINE a == x \div z
           b == y \div z
<1>1. a \in Nat /\ x % z \in 0..(z - 1) /\ x = (a * z) + (x % z)
  BY Division
<1>2. b \in Nat /\ y % z \in 0..(z - 1) /\ y = (b * z) + (y % z)
  BY Division
<1> DEFINE r == x % z
           s == y % z
<1> HIDE DEF a, b, r, s
<1>3. r \in 0..(z - 1) /\ s \in 0..(z - 1) /\ x = (a * z) + r /\ y = (b * z) + s
  BY <1>1, <1>2 DEF r, s
<1>4. a <= b
  <2> SUFFICES ASSUME b + 1 <= a PROVE FALSE
    BY <1>1, <1>2
  <2>1. (b + 1) * z <= a * z
    BY <1>1, <1>2, Monotone
  <2>2. (b + 1) * z = (b * z) + z /\ b * z \in Int /\ a * z \in Int
    BY <1>1, <1>2
  <2> QED
    BY <1>3, <2>1, <2>2
<1> QED
  BY <1>4 DEF a, b

LEMMA SameRemainder ==
  ASSUME NEW q \in Nat, NEW x \in Nat, NEW m \in Nat, NEW z \in Nat, z > 0,
         NEW u, u = (q * (m * z)) + x
  PROVE  u % z = x % z
<1> DEFINE a == x \div z
           r == x % z
<1>1. a \in Nat /\ r \in 0..(z - 1) /\ x = (a * z) + r
  BY Division
<1> HIDE DEF a, r
<1>2. q * (m * z) = (q * m) * z /\ q * m \in Nat
  OBVIOUS
<1>3. ((q * m) + a) * z = ((q * m) * z) + (a * z)
  BY <1>1, <1>2
<1>4. u = (((q * m) + a) * z) + r /\ (q * m) + a \in Int
  <2>1. (q * m) * z \in Int /\ a * z \in Int
    BY <1>1, <1>2
  <2> QED
    BY <1>1, <1>2, <1>3, <2>1
<1>5. u % z = r
  BY <1>1, <1>4, Unique
<1> QED
  BY <1>5 DEF r

LEMMA Before ==
  ASSUME NEW u \in Nat, NEW z \in Nat, z > 0, NEW y \in Nat, u \div z < y
  PROVE  u < y * z
<1> DEFINE a == u \div z
           r == u % z
<1>1. a \in Nat /\ r \in 0..(z - 1) /\ u = (a * z) + r
  BY Division
<1> HIDE DEF r
<1>2. a + 1 <= y
  <2> HIDE DEF a
  <2> QED
    BY <1>1 DEF a
<1> HIDE DEF a
<1>3. (a + 1) * z <= y * z
  BY <1>1, <1>2, Monotone
<1>4. (a + 1) * z = (a * z) + z /\ a * z \in Int /\ y * z \in Int
  BY <1>1
<1> QED
  BY <1>1, <1>3, <1>4
-------------------------------------------------------------------------------
\* The entries of a file are the same in two directories.
LEMMA GrownSame ==
  ASSUME NEW d, NEW e, NEW f,
         \A i \in Slots : d[i].name = f \/ e[i].name = f => e[i] = d[i], Grown(d, f)
  PROVE  Grown(e, f)
<1>1. EntriesOf(e, f) = EntriesOf(d, f) /\ \A i \in EntriesOf(d, f) : e[i] = d[i]
  BY DEF EntriesOf
<1> QED
  BY <1>1 DEF Grown

LEMMA InitStore == Init => StoreInv
BY DEF Init, StoreInv, FileAgreement, Synced, CopyInv

LEMMA IdleStore ==
  ASSUME Idle
  PROVE  StoreInv'
<1>1. tool' = "none" /\ file' = NoFile
  BY DEF Idle
<1> QED
  BY <1>1 DEF StoreInv, FileAgreement, Synced, CopyInv

LEMMA ReadSuperStore ==
  ASSUME IInv, NEW t \in {"cpmcp", "cpmrm", "cpmchattr", "fsck.cpm"}, ReadSuper(t)
  PROVE  StoreInv'
<1>1. dir' = diskDir /\ diskDir' = diskDir /\ file' = NoFile
  BY DEF ReadSuper, IInv, TypeOK, diskVars
<1>2. New(dir', diskDir', synced')
  BY <1>1 DEF New
<1> QED
  BY <1>1, <1>2 DEF StoreInv, FileAgreement, Synced, CopyInv

\* The entry that cpmCreat makes is a file of no length.
LEMMA CreatStore ==
  ASSUME Aligned, IInv, StoreInv, NEW f \in Names, NEW length \in Lengths, Creat(f, length)
  PROVE  StoreInv' /\ Copied(dir', diskData', f, length, 0)
<1>1. /\ tool = "cpmcp" /\ tool' = tool /\ synced = 0 /\ synced' = 0 /\ dirtyDirectory'
      /\ EntriesOf(dir, f) = {} /\ diskDir' = diskDir /\ f # Absent
      /\ dir \in [Slots -> Entry]
  BY ConstantFacts DEF Creat, Runs, diskVars, IInv, TypeOK
<1>2. PICK i \in Slots : /\ IsFirst(i, Free(dir)) /\ dir' = [dir EXCEPT ![i] = NewEntry(f)]
                         /\ file' = [NoFile EXCEPT !.name = f, !.ino = i, !.length = length]
  BY DEF Creat
<1>3. /\ dir'[i] = NewEntry(f) /\ \A j \in Slots \ {i} : dir'[j] = dir[j]
      /\ dir[i].name = Absent
  BY <1>1, <1>2 DEF IsFirst, Free
<1>4. file'.name = f /\ file'.length = length /\ file'.pos = 0
  BY <1>2 DEF NoFile
<1>5. /\ dir'[i].name = f /\ ~dir'[i].ro /\ Part(dir'[i]) = 0 /\ End(dir'[i]) = 0
      /\ EntriesOf(dir', f) = {i}
  <2>1. 0 \div Extents = 0
    <3>1. Extents \in Nat /\ Extents > 0
      BY AlignedSizes
    <3> QED
      BY <3>1
  <2>2. NewEntry(f).extno = 0 /\ NewEntry(f).blkcnt = 0 /\ ~NewEntry(f).ro /\ NewEntry(f).name = f
    BY DEF NewEntry
  <2>3. Part(dir'[i]) = 0 /\ End(dir'[i]) = 0
    BY <1>3, <2>1, <2>2, ConstantFacts DEF Part, End
  <2>4. EntriesOf(dir', f) = {i}
    BY <1>1, <1>3, <2>2 DEF EntriesOf
  <2> QED
    BY <1>3, <2>2, <2>3, <2>4
<1>6. New(dir', diskDir', synced')
  <2> SUFFICES ASSUME NEW k \in Slots, dir'[k].name # Absent, diskDir[k].name = Absent
               PROVE  /\ \A j \in Slots : j < k => dir'[j].name # Absent
                      /\ \A j \in Slots : diskDir[j].name = dir'[k].name =>
                                            j \div EntriesPerBlock < 0
                      /\ Grown(dir', dir'[k].name)
    BY <1>1 DEF New
  <2>1. New(dir, diskDir, 0)
    BY <1>1 DEF StoreInv, FileAgreement
  <2>2. CASE k = i
    <3>1. \A j \in Slots : j < i => dir[j].name # Absent
      BY <1>2 DEF IsFirst, Free, Slots
    <3>2. \A j \in Slots : diskDir[j].name # f
      BY <1>1 DEF IInv, Agreement, EntriesOf
    <3>3. Grown(dir', f)
      <4>1. ExtCap \in Nat /\ i \in Int
        BY ConstantFacts DEF Slots
      <4>2. 0 * ExtCap <= 0 /\ 0 <= (0 + 1) * ExtCap /\ ~ i < i
        BY <4>1
      <4> QED
        BY <1>5, <4>2 DEF Grown
    <3> QED
      BY <1>1, <1>3, <1>5, <2>2, <3>1, <3>2, <3>3
  <2>3. CASE k # i
    <3>1. dir'[k] = dir[k] /\ dir[k].name # Absent
      BY <1>3, <2>3
    <3>2. /\ \A j \in Slots : j < k => dir[j].name # Absent
          /\ \A j \in Slots : diskDir[j].name = dir[k].name => j \div EntriesPerBlock < 0
          /\ Grown(dir, dir[k].name)
      BY <2>1, <3>1 DEF New
    <3>3. Grown(dir', dir[k].name)
      <4>1. dir[k].name # f
        BY <1>1 DEF EntriesOf
      <4>2. \A j \in Slots : dir[j].name = dir[k].name \/ dir'[j].name = dir[k].name =>
                               dir'[j] = dir[j]
        BY <1>3, <1>5, <3>1, <4>1
      <4> QED
        BY <3>2, <4>2, GrownSame
    <3> QED
      BY <1>3, <1>5, <1>1, <3>1, <3>2, <3>3
  <2> QED
    BY <2>2, <2>3
<1>7. Synced'
  <2>1. \A j \in Slots : ~ j \div EntriesPerBlock < 0
    BY SlotBlock
  <2> QED
    BY <1>1, <1>4, <2>1 DEF Synced
<1>8. Copied(dir', diskData', f, length, 0)
  <2>1. 0 \div ExtCap = 0 /\ 0 % ExtCap = 0
    <3>1. ExtCap \in Nat /\ ExtCap > 0
      BY ConstantFacts
    <3> QED
      BY <3>1
  <2> QED
    BY <1>5, <2>1 DEF Copied
<1> QED
  BY <1>1, <1>4, <1>6, <1>7, <1>8 DEF StoreInv, FileAgreement, CopyInv

LEMMA CloseStore ==
  ASSUME StoreInv, Close
  PROVE  StoreInv'
<1>1. UNCHANGED << diskDir, dir, tool, dirtyDirectory, synced >> /\ file' = NoFile
  BY DEF Close, diskVars
<1>2. New(dir, diskDir, synced) => New(dir', diskDir', synced')
  BY <1>1 DEF New, Grown, EntriesOf
<1> QED
  BY <1>1, <1>2 DEF StoreInv, FileAgreement, Synced, CopyInv

\* cpmrm takes a file away as a whole.
LEMMA UnlinkStore ==
  ASSUME IInv, StoreInv, NEW f \in Names, Unlink(f)
  PROVE  StoreInv'
<1>1. /\ tool = "cpmrm" /\ tool' = tool /\ synced = 0 /\ synced' = 0 /\ dirtyDirectory'
      /\ file' = NoFile /\ diskDir' = diskDir /\ f # Absent
      /\ dir' = [i \in Slots |-> IF dir[i].name = f THEN FreeEntry ELSE dir[i]]
  BY ConstantFacts DEF Unlink, Runs, diskVars
<1>2. \A i \in Slots : dir'[i].name # f /\ dir'[i].name \in {dir[i].name, Absent}
  BY <1>1 DEF FreeEntry, NewEntry
<1>3. ASSUME NEW i \in Slots, NEW j \in Slots, diskDir[i].name # Absent, dir'[i].name = Absent
      PROVE  dir'[j].name # diskDir[i].name
  <2>1. CASE dir[i].name = Absent
    BY <1>1, <1>2, <1>3, <2>1 DEF StoreInv, FileAgreement
  <2>2. CASE dir[i].name # Absent
    <3>1. dir[i].name = f
      BY <1>1, <1>3, <2>2
    <3>2. diskDir[i] = dir[i]
      BY <1>1, <2>2 DEF IInv, Agreement
    <3> QED
      BY <1>2, <3>1, <3>2
  <2> QED
    BY <2>1, <2>2
<1>4. Synced'
  <2>1. \A j \in Slots : ~ j \div EntriesPerBlock < 0
    BY SlotBlock
  <2> QED
    BY <1>1, <2>1 DEF Synced
<1> QED
  BY <1>1, <1>3, <1>4 DEF StoreInv, FileAgreement, CopyInv

LEMMA AttrSetStore ==
  ASSUME IInv, StoreInv, NEW f \in Names, NEW ro \in BOOLEAN, AttrSet(f, ro)
  PROVE  StoreInv'
<1>1. /\ tool = "cpmchattr" /\ tool' = tool /\ synced = 0 /\ synced' = 0 /\ dirtyDirectory'
      /\ file' = NoFile /\ diskDir' = diskDir /\ dir \in [Slots -> Entry]
  BY DEF AttrSet, Runs, diskVars, IInv, TypeOK
<1>2. PICK i \in Slots :
        dir' = [j \in Slots |-> IF j >= i /\ dir[j].name = f THEN [dir[j] EXCEPT !.ro = ro]
                                ELSE dir[j]]
  BY DEF AttrSet, Listed
<1>3. \A j \in Slots : dir'[j].lrc = dir[j].lrc
  BY <1>1, <1>2 DEF Entry
<1>4. Synced'
  <2>1. \A j \in Slots : ~ j \div EntriesPerBlock < 0
    BY SlotBlock
  <2> QED
    BY <1>1, <2>1 DEF Synced
<1> QED
  BY <1>1, <1>3, <1>4 DEF StoreInv, FileAgreement, CopyInv

\* fsck.cpm has nothing to repair.
LEMMA FsckSame ==
  ASSUME Aligned, IInv, CleanInv, Fsck
  PROVE  dir' = dir
<1>1. dir \in [Slots -> Entry] /\ Sound(dir) /\ InRange(dir)
  BY DEF IInv, TypeOK, Ownership, CleanInv
<1>2. \A i \in Slots : Repaired(dir[i]) = dir[i]
  BY <1>1, NothingToRepair
<1>3. PICK agreed \in SUBSET Slots :
        dir' = [i \in Slots |-> IF i \in agreed THEN Repaired(dir[i]) ELSE dir[i]]
  BY DEF Fsck
<1> QED
  BY <1>1, <1>2, <1>3

LEMMA FsckStore ==
  ASSUME Aligned, IInv, CleanInv, StoreInv, Fsck
  PROVE  StoreInv'
<1>1. /\ dir' = dir /\ UNCHANGED << diskDir, dirtyDirectory, synced >> /\ file' = NoFile
      /\ tool = "fsck.cpm" /\ tool' = "exit"
  BY FsckSame DEF Fsck, Runs, diskVars
<1> QED
  BY <1>1 DEF StoreInv, FileAgreement, Synced, CopyInv

\* A block of the directory reaches the disk.
LEMMA SyncBlockStore ==
  ASSUME IInv, StoreInv, SyncBlock
  PROVE  StoreInv'
<1>1. /\ tool # "none" /\ tool' = tool /\ file' = NoFile /\ dirtyDirectory /\ dir' = dir
      /\ synced \in Nat /\ synced' = synced + 1
      /\ dirtyDirectory' = (synced + 1 < DirBlocks)
      /\ diskDir' = [i \in Slots |-> IF i \div EntriesPerBlock = synced THEN dir[i]
                                     ELSE diskDir[i]]
  BY ConstantFacts DEF SyncBlock, IInv, TypeOK
<1>2. \A i \in Slots : i \div EntriesPerBlock \in Nat /\ i \div EntriesPerBlock < DirBlocks
  BY SlotBlock
<1>3. \A i \in Slots : i \div EntriesPerBlock < synced => diskDir[i] = dir[i]
  BY <1>1 DEF StoreInv, Synced
<1>4. \A i \in Slots : i \div EntriesPerBlock < synced + 1 <=>
                         i \div EntriesPerBlock < synced \/ i \div EntriesPerBlock = synced
  BY <1>1, <1>2
<1>5. \A i \in Slots : i \div EntriesPerBlock < synced' => diskDir'[i] = dir'[i]
  BY <1>1, <1>3, <1>4
<1>6. Synced'
  <2>1. ~dirtyDirectory' => \A i \in Slots : i \div EntriesPerBlock < synced'
    <3>1. DirBlocks \in Nat
      BY ConstantFacts
    <3>2. ~dirtyDirectory' => ~ synced + 1 < DirBlocks
      BY <1>1, Zenon
    <3>3. ~ synced + 1 < DirBlocks => DirBlocks <= synced'
      BY <1>1, <3>1
    <3> QED
      BY <1>1, <1>2, <3>1, <3>2, <3>3
  <2> QED
    BY <1>1, <1>5, <2>1 DEF Synced
<1>7. CASE tool = "cpmcp"
  <2>1. New(dir, diskDir, synced)
    BY <1>7 DEF StoreInv, FileAgreement
  <2>2. ASSUME NEW i \in Slots, dir'[i].name # Absent, diskDir'[i].name = Absent
        PROVE  /\ \A j \in Slots : j < i => dir'[j].name # Absent
               /\ \A j \in Slots : diskDir'[j].name = dir'[i].name =>
                                     j \div EntriesPerBlock < synced'
               /\ Grown(dir', dir'[i].name)
    <3>1. dir[i].name # Absent /\ diskDir[i].name = Absent
      BY <1>1, <2>2
    <3>2. /\ \A j \in Slots : j < i => dir[j].name # Absent
          /\ \A j \in Slots : diskDir[j].name = dir[i].name => j \div EntriesPerBlock < synced
          /\ Grown(dir, dir[i].name)
      BY <2>1, <3>1 DEF New
    <3>3. \A j \in Slots : diskDir'[j].name = dir[i].name => j \div EntriesPerBlock < synced'
      BY <1>1, <1>4, <3>2
    <3>4. Grown(dir', dir'[i].name)
      BY <1>1, <3>2
    <3> QED
      BY <1>1, <3>2, <3>3, <3>4
  <2>3. New(dir', diskDir', synced')
    BY <2>2 DEF New
  <2> QED
    BY <1>1, <1>6, <1>7, <2>3 DEF StoreInv, FileAgreement, CopyInv
<1>8. CASE tool = "cpmrm"
  <2>1. ASSUME NEW i \in Slots, NEW j \in Slots, diskDir'[i].name # Absent,
               dir'[i].name = Absent
        PROVE  dir'[j].name # diskDir'[i].name
    <3>1. diskDir'[i] = diskDir[i]
      BY <1>1, <2>1
    <3> QED
      BY <1>1, <1>8, <2>1, <3>1 DEF StoreInv, FileAgreement
  <2> QED
    BY <1>1, <1>6, <1>8, <2>1 DEF StoreInv, FileAgreement, CopyInv
<1>9. CASE tool \notin {"cpmcp", "cpmrm"}
  <2>1. tool = "cpmchattr" => \A i \in Slots : dir'[i].lrc = diskDir'[i].lrc
    BY <1>1 DEF StoreInv, FileAgreement
  <2> QED
    BY <1>1, <1>6, <1>9, <2>1 DEF StoreInv, FileAgreement, CopyInv
<1> QED
  BY <1>7, <1>8, <1>9

LEMMA UnchangedStore ==
  ASSUME StoreInv, UNCHANGED fsVars
  PROVE  StoreInv'
<1>1. UNCHANGED << diskDir, diskData, dir, tool, dirtyDirectory, synced, file >>
  BY DEF fsVars, diskVars, coreVars
<1>2. New(dir, diskDir, synced) => New(dir', diskDir', synced')
  BY <1>1 DEF New, Grown, EntriesOf
<1>3. CopyInv'
  BY <1>1 DEF StoreInv, CopyInv, Copied, Full, Stored, EntriesOf
<1> QED
  BY <1>1, <1>2, <1>3 DEF StoreInv, FileAgreement, Synced
-------------------------------------------------------------------------------
\* An entry of the file that is being copied, for the part at file.pos, takes the place of
\* one that has been there, or of the first free one.
LEMMA PartGrows ==
  ASSUME Aligned, IInv, CleanInv, StoreInv, file # NoFile, ExtentNo = file.pos \div LogExt,
         NEW i \in Slots, IsFirst(i, ExtentSlots), NEW d \in [Slots -> Entry],
         \A j \in Slots \ {i} : d[j] = dir[j], d[i].name = file.name, d[i].ro = Extent(i).ro,
         NEW Y, Y = file.pos \div ExtCap, Part(d[i]) = Y,
         Y * ExtCap <= End(d[i]), End(d[i]) <= (Y + 1) * ExtCap
  PROVE  /\ New(d, diskDir, synced) /\ ~ d[i].ro
         /\ \A y \in 0..Y - 1 : Full(d, file.name, y)
         /\ \A j \in EntriesOf(dir, file.name) \ {i} : Part(dir[j]) < Y
         /\ dir[i].name # Absent => dir[i].name = file.name /\ Part(dir[i]) = Y
<1> DEFINE f == file.name
<1>1. /\ file \in Copy /\ file.pos \in Nat /\ f # Absent /\ tool = "cpmcp" /\ synced = 0
      /\ dir \in [Slots -> Entry] /\ file.ino \in EntriesOf(dir, f)
      /\ \A j \in Slots : diskDir[j].name # f
      /\ New(dir, diskDir, synced) /\ Copied(dir, diskData, f, file.length, file.pos)
  BY DEF IInv, TypeOK, Copy, Agreement, StoreInv, FileAgreement, Synced, CopyInv, EntriesOf
<1>2. Grown(dir, f)
  <2>1. file.ino \in Slots /\ dir[file.ino].name = f
    BY <1>1 DEF EntriesOf
  <2>2. diskDir[file.ino].name = Absent
    BY <1>1, <2>1 DEF IInv, Agreement
  <2> QED
    BY <1>1, <2>1, <2>2 DEF New
<1>3. /\ Y \in Nat /\ Part(Extent(i)) = Y
      /\ \A j \in EntriesOf(dir, f) \ {i} : Part(dir[j]) # Y
  <2>1. /\ Y = (file.pos \div BlkSiz) \div Pointers /\ Y \in Nat
    BY <1>1, PartOf
  <2> QED
    BY <2>1, PartFacts DEF EntriesOf
<1>4. \A j \in EntriesOf(dir, f) : Part(dir[j]) \in Int /\ Part(dir[j]) <= Y
  <2>1. \A j \in EntriesOf(dir, f) : Part(dir[j]) <= Y
    BY <1>1 DEF Copied
  <2>2. Extents \in Nat /\ Extents > 0
    BY AlignedSizes
  <2>3. \A j \in EntriesOf(dir, f) : dir[j].extno \in Nat
    BY <1>1 DEF EntriesOf, Entry
  <2>4. \A j \in EntriesOf(dir, f) : Part(dir[j]) \in Int
    BY <2>2, <2>3, Division DEF Part
  <2> QED
    BY <2>1, <2>4
<1>5. \A j \in EntriesOf(dir, f) \ {i} : Part(dir[j]) < Y
  BY <1>3, <1>4
<1>6. CASE dir[i].name # Absent
  <2>1. Extent(i) = dir[i] /\ dir[i].name = f
    BY <1>6, ExtentFacts
  <2>2. i \in EntriesOf(dir, f) /\ Part(dir[i]) = Y
    BY <1>3, <2>1 DEF EntriesOf
  <2>3. ~ d[i].ro
    BY <1>2, <2>1, <2>2 DEF Grown
  <2>4. EntriesOf(d, f) = EntriesOf(dir, f) /\ \A j \in EntriesOf(dir, f) : Part(d[j]) = Part(dir[j])
    BY <2>1, <2>2 DEF EntriesOf
  <2>5. Grown(d, f)
    BY <1>2, <2>3, <2>4 DEF Grown, EntriesOf
  <2>6. \A j \in Slots : d[j].name = dir[j].name
    BY <2>1
  <2>7. ASSUME NEW k \in Slots, d[k].name # Absent, diskDir[k].name = Absent
        PROVE  /\ \A j \in Slots : j < k => d[j].name # Absent
               /\ \A j \in Slots : diskDir[j].name = d[k].name => j \div EntriesPerBlock < synced
               /\ Grown(d, d[k].name)
    <3>1. /\ \A j \in Slots : j < k => dir[j].name # Absent
          /\ \A j \in Slots : diskDir[j].name = dir[k].name => j \div EntriesPerBlock < synced
          /\ Grown(dir, dir[k].name)
      BY <1>1, <2>6, <2>7 DEF New
    <3>2. d[k].name # f => Grown(d, d[k].name)
      <4>1. d[k].name # f => \A j \in Slots : dir[j].name = d[k].name \/ d[j].name = d[k].name =>
                                                d[j] = dir[j]
        BY <2>1
      <4> QED
        BY <2>6, <3>1, <4>1, GrownSame
    <3> QED
      BY <2>5, <2>6, <3>1, <3>2
  <2>8. New(d, diskDir, synced)
    BY <2>7 DEF New
  <2>9. ASSUME NEW y \in 0..Y - 1 PROVE Full(d, f, y)
    <3>1. PICK k \in EntriesOf(dir, f) : Part(dir[k]) = y /\ End(dir[k]) = (y + 1) * ExtCap
      BY <1>1 DEF Copied, Full
    <3>2. k # i
      BY <1>3, <2>2, <3>1
    <3>3. k \in EntriesOf(d, f) /\ d[k] = dir[k]
      BY <2>4, <3>2 DEF EntriesOf
    <3> QED
      BY <3>1, <3>3 DEF Full
  <2> QED
    BY <1>5, <2>1, <2>2, <2>3, <2>8, <2>9
<1>7. CASE dir[i].name = Absent
  <2>1. i \notin EntriesOf(dir, f) /\ \A j \in Slots : j < i => dir[j].name # Absent
    <3>1. ExtentSlots = Free(dir)
      BY <1>1, <1>7 DEF IsFirst, ExtentSlots, ExtentsAt, EntriesOf
    <3>2. \A j \in Free(dir) : i <= j
      BY <3>1 DEF IsFirst
    <3>3. \A j \in Slots : j < i => j \notin Free(dir)
      BY <3>2 DEF Slots
    <3> QED
      BY <1>1, <1>7, <3>3 DEF EntriesOf, Free
  <2>2. Extent(i).ro = dir[file.ino].ro
    BY <1>1, <1>7 DEF Extent, Free, Entry, EntriesOf
  <2>3. ~ d[i].ro
    BY <1>1, <1>2, <2>2 DEF Grown
  <2>4. /\ \A j \in EntriesOf(dir, f) : j \in Slots /\ j # i /\ d[j] = dir[j]
        /\ EntriesOf(d, f) = EntriesOf(dir, f) \cup {i}
    BY <2>1 DEF EntriesOf
  <2>5. Grown(d, f)
    <3>1. ASSUME NEW j \in EntriesOf(d, f), NEW k \in EntriesOf(d, f), j < k
          PROVE  Part(d[j]) < Part(d[k])
      <4>1. \A m \in EntriesOf(dir, f) : m < i
        <5>1. ASSUME NEW m \in EntriesOf(dir, f) PROVE m < i
          <6>1. m \in Slots /\ m # i /\ dir[m].name = f
            BY <2>4 DEF EntriesOf
          <6>2. diskDir[m].name = Absent
            BY <1>1, <6>1 DEF IInv, Agreement
          <6>3. \A l \in Slots : l < m => dir[l].name # Absent
            BY <1>1, <6>1, <6>2 DEF New
          <6>4. ~ i < m
            BY <1>7, <6>3
          <6> QED
            BY <6>1, <6>4 DEF Slots
        <5> QED
          BY <5>1
      <4>2. j # i
        <5>1. i \in Int /\ k \in Int /\ j \in Int
          BY DEF EntriesOf, Slots
        <5>2. ~ i < k
          BY <2>4, <4>1, <5>1
        <5> QED
          BY <3>1, <5>2
      <4>3. CASE k = i
        BY <1>5, <2>4, <4>2, <4>3
      <4>4. CASE k # i
        <5>1. j \in EntriesOf(dir, f) /\ k \in EntriesOf(dir, f)
          BY <2>4, <4>2, <4>4
        <5>2. Part(dir[j]) < Part(dir[k])
          BY <1>2, <3>1, <5>1 DEF Grown
        <5> QED
          BY <2>4, <5>1, <5>2
      <4> QED
        BY <4>3, <4>4
    <3>2. ASSUME NEW j \in EntriesOf(d, f)
          PROVE  /\ ~d[j].ro
                 /\ Part(d[j]) * ExtCap <= End(d[j]) /\ End(d[j]) <= (Part(d[j]) + 1) * ExtCap
      <4>1. CASE j = i
        BY <2>3, <4>1
      <4>2. CASE j # i
        <5>1. j \in EntriesOf(dir, f) /\ d[j] = dir[j]
          BY <2>4, <4>2
        <5> QED
          BY <1>2, <5>1 DEF Grown
      <4> QED
        BY <4>1, <4>2
    <3> QED
      BY <3>1, <3>2 DEF Grown
  <2>6. ASSUME NEW k \in Slots, d[k].name # Absent, diskDir[k].name = Absent
        PROVE  /\ \A j \in Slots : j < k => d[j].name # Absent
               /\ \A j \in Slots : diskDir[j].name = d[k].name => j \div EntriesPerBlock < synced
               /\ Grown(d, d[k].name)
    <3>1. CASE k = i
      <4>1. \A j \in Slots : j < i => j # i
        BY DEF Slots
      <4>2. \A j \in Slots : j < k => d[j].name # Absent
        BY <2>1, <3>1, <4>1
      <4> QED
        BY <1>1, <2>5, <3>1, <4>2
    <3>2. CASE k # i
      <4>1. /\ \A j \in Slots : j < k => dir[j].name # Absent
            /\ \A j \in Slots : diskDir[j].name = dir[k].name => j \div EntriesPerBlock < synced
            /\ Grown(dir, dir[k].name)
        BY <1>1, <2>6, <3>2 DEF New
      <4>2. \A j \in Slots : j < k => d[j].name # Absent
        BY <1>1, <4>1
      <4>3. d[k].name # f => Grown(d, d[k].name)
        <5>1. d[k].name # f => \A j \in Slots :
                dir[j].name = d[k].name \/ d[j].name = d[k].name => d[j] = dir[j]
          BY <1>7, <2>6
        <5>2. d[k].name = dir[k].name
          BY <3>2
        <5> QED
          BY <4>1, <5>1, <5>2, GrownSame
      <4> QED
        BY <2>5, <3>2, <4>1, <4>2, <4>3
    <3> QED
      BY <3>1, <3>2
  <2>7. New(d, diskDir, synced)
    BY <2>6 DEF New
  <2>8. ASSUME NEW y \in 0..Y - 1 PROVE Full(d, f, y)
    <3>1. PICK k \in EntriesOf(dir, f) : Part(dir[k]) = y /\ End(dir[k]) = (y + 1) * ExtCap
      BY <1>1 DEF Copied, Full
    <3>2. k \in EntriesOf(d, f) /\ d[k] = dir[k]
      BY <2>4
    <3> QED
      BY <3>1, <3>2 DEF Full
  <2> QED
    BY <1>5, <1>7, <2>3, <2>7, <2>8
<1> QED
  BY <1>6, <1>7

\* What a pass leaves in a block: the units that are copied, and those before them.
LEMMA NewDataFacts ==
  ASSUME Readable, file.pos \in Nat, NEW n \in Nat, n > 0, NEW old, NEW new \in BOOLEAN,
         NEW u \in Nat, u \div BlkSiz = file.pos \div BlkSiz
  PROVE  /\ u >= file.pos /\ u < Stop(n) =>
              NewData(old, new, n, Stop(n))[u % BlkSiz] = << file.name, file.length, u >>
         /\ u < file.pos /\ ~new =>
              NewData(old, new, n, Stop(n))[u % BlkSiz] = old[u % BlkSiz]
<1> DEFINE pos == file.pos
           stop == Stop(n)
           q == pos \div BlkSiz
           at == pos % BlkSiz
           base == pos - at
           start == IF new THEN 0 ELSE at \div SecLen
           last == IF new \/ at + n > BlkSiz THEN BlkSiz - 1 ELSE at + n - 1
           end == last \div SecLen
           read(s) == \/ s = start /\ pos % SecLen # 0
                      \/ s = end /\ end # start /\ pos + n - 1 < BlkSiz
           v == u % BlkSiz
           s == v \div SecLen
<1>1. BlkSiz \in Nat /\ BlkSiz > 0 /\ SecLen \in Nat /\ SecLen > 0 /\ pos \in Nat
  BY ConstantFacts, FormatAssumption
<1>2. /\ q \in Nat /\ at \in 0..(BlkSiz - 1) /\ pos = (q * BlkSiz) + at
      /\ v \in 0..(BlkSiz - 1) /\ u = (q * BlkSiz) + v
  <2>1. q \in Nat /\ at \in 0..(BlkSiz - 1) /\ pos = (q * BlkSiz) + at
    <3> HIDE DEF pos
    <3>1. pos \in Int /\ pos >= 0
      BY <1>1
    <3> QED
      BY <1>1, <3>1, Division
  <2>2. v \in 0..(BlkSiz - 1) /\ u = ((u \div BlkSiz) * BlkSiz) + v
    BY <1>1, Division
  <2>3. u \div BlkSiz = q
    OBVIOUS
  <2> HIDE DEF q, at, v
  <2> QED
    BY <2>1, <2>2, <2>3
<1>3. NewData(old, new, n, stop)[v]
      = IF s \notin start..end THEN old[v]
        ELSE IF base + v \in pos..stop - 1
        THEN << file.name, file.length, base + v >>
        ELSE IF new THEN Zero ELSE IF read(s) THEN old[v] ELSE Junk
  <2> DEFINE D == [w \in 0..BlkSiz - 1 |->
                     LET t == w \div SecLen
                     IN IF t \notin start..end THEN old[w]
                        ELSE IF base + w \in pos..stop - 1
                        THEN << file.name, file.length, base + w >>
                        ELSE IF new THEN Zero ELSE IF read(t) THEN old[w] ELSE Junk]
  <2>1. NewData(old, new, n, stop) = D
    BY Zenon DEF NewData
  <2>2. D[v] = IF s \notin start..end THEN old[v]
               ELSE IF base + v \in pos..stop - 1
               THEN << file.name, file.length, base + v >>
               ELSE IF new THEN Zero ELSE IF read(s) THEN old[v] ELSE Junk
    <3>1. v \in 0..BlkSiz - 1
      BY <1>2
    <3> QED
      BY <3>1, Zenon
  <2> QED
    BY <2>1, <2>2, Zenon
<1>4. base + v = u /\ q * BlkSiz \in Nat
  <2>1. q * BlkSiz \in Nat
    BY <1>1, <1>2, SMTT(30)
  <2> HIDE DEF q, at, v
  <2>2. base = q * BlkSiz
    BY <1>1, <1>2, <2>1
  <2> HIDE DEF base
  <2> QED
    BY <1>1, <1>2, <2>1, <2>2
<1>5. stop \in Int /\ stop <= pos + n
  <2> DEFINE blockEnd == (q + 1) * BlkSiz
  <2>1. stop = IF pos + n < blockEnd THEN pos + n ELSE blockEnd
    BY DEF Stop
  <2> HIDE DEF q, stop
  <2>2. blockEnd \in Nat
    BY <1>1, <1>2
  <2> HIDE DEF blockEnd
  <2> QED
    BY <1>1, <2>1, <2>2
<1>6. s \in Nat /\ start \in Nat /\ end \in Nat /\ at \div SecLen \in Nat
  <2>1. last \in Nat
    <3> HIDE DEF at
    <3> QED
      BY <1>1, <1>2
  <2> HIDE DEF last, at, v
  <2> QED
    BY <1>1, <1>2, <2>1, Division
<1>7. ASSUME u >= pos, u < stop
      PROVE  NewData(old, new, n, stop)[v] = << file.name, file.length, u >>
  <2>1. at <= v /\ v <= last
    <3>1. at <= v
      <4> HIDE DEF q, at, v
      <4> QED
        BY <1>1, <1>2, <1>4, <1>7
    <3>2. u < pos + n
      <4> HIDE DEF stop
      <4> QED
        BY <1>1, <1>5, <1>7
    <3>3. v <= at + n - 1
      <4> HIDE DEF q, at, v
      <4> QED
        BY <1>1, <1>2, <1>4, <3>2
    <3> HIDE DEF at, v
    <3> QED
      BY <1>1, <1>2, <3>1, <3>3
  <2>2. at \div SecLen <= s /\ s <= end
    <3>1. last \in Nat
      <4> HIDE DEF at
      <4> QED
        BY <1>1, <1>2
    <3>2. at \in Nat /\ v \in Nat
      <4> HIDE DEF at, v
      <4> QED
        BY <1>1, <1>2
    <3> HIDE DEF last, at, v
    <3>3. at \div SecLen <= v \div SecLen
      BY <1>1, <2>1, <3>2, QuotientGrows
    <3>4. v \div SecLen <= last \div SecLen
      BY <1>1, <2>1, <3>1, <3>2, QuotientGrows
    <3> QED
      BY <3>3, <3>4
  <2>3. s \in start..end
    <3> HIDE DEF end, s, at
    <3> QED
      BY <1>6, <2>2
  <2>4. base + v \in pos..stop - 1
    <3> HIDE DEF base, v, stop
    <3> QED
      BY <1>1, <1>4, <1>5, <1>7
  <2> HIDE DEF s, start, end, base, v, stop
  <2> QED
    BY <1>3, <1>4, <2>3, <2>4, Zenon
<1>8. ASSUME u < pos, ~new
      PROVE  NewData(old, new, n, stop)[v] = old[v]
  <2>1. base + v \notin pos..stop - 1
    <3> HIDE DEF base, v, stop
    <3> QED
      BY <1>1, <1>4, <1>5, <1>8
  <2>2. CASE s \notin start..end
    <3> HIDE DEF s, start, end, base, v, stop
    <3> QED
      BY <1>3, <2>2, Zenon
  <2>3. CASE s \in start..end
    <3>1. start = at \div SecLen
      BY <1>8
    <3>2. v < at
      <4> HIDE DEF q, at, v
      <4> QED
        BY <1>1, <1>2, <1>4, <1>8
    <3>3. s <= start
      <4>1. at \in Nat /\ v \in Nat /\ v <= at
        <5> HIDE DEF at, v
        <5> QED
          BY <1>1, <1>2, <3>2
      <4> HIDE DEF at, v
      <4>2. v \div SecLen <= at \div SecLen
        BY <1>1, <4>1, QuotientGrows
      <4> HIDE DEF start
      <4> QED
        BY <3>1, <4>2
    <3>4. s = start
      <4> HIDE DEF s, start, end
      <4> QED
        BY <1>6, <2>3, <3>3
    <3>5. at % SecLen # 0
      <4> HIDE DEF at, v
      <4>1. /\ at = (start * SecLen) + (at % SecLen) /\ v = (start * SecLen) + (v % SecLen)
            /\ v % SecLen \in 0..(SecLen - 1) /\ at % SecLen \in Int
        BY <1>1, <1>2, <3>1, <3>4, Division
      <4> HIDE DEF start
      <4>2. start * SecLen \in Int
        BY <1>1, <1>6
      <4> QED
        BY <1>1, <1>2, <3>2, <4>1, <4>2
    <3>6. pos % SecLen = at % SecLen
      <4>1. /\ BlkSiz \div SecLen \in Nat /\ BlkSiz \div SecLen > 0
            /\ BlkSiz = (BlkSiz \div SecLen) * SecLen
        BY <1>1, Exactly DEF Readable
      <4> DEFINE m == BlkSiz \div SecLen
      <4>2. m \in Nat /\ at \in Nat /\ pos = (q * (m * SecLen)) + at
        <5> HIDE DEF q, at, m
        <5>1. at \in Nat
          BY <1>1, <1>2
        <5> QED
          BY <1>2, <4>1, <5>1 DEF m
      <4>3. q \in Nat
        BY <1>2
      <4> HIDE DEF q, at, m
      <4> QED
        BY <1>1, <4>2, <4>3, SameRemainder
    <3>7. read(s)
      BY <3>4, <3>5, <3>6
    <3> HIDE DEF s, start, end, base, v, stop, read
    <3> QED
      BY <1>3, <1>8, <2>1, <2>3, <3>7, Zenon
  <2> QED
    BY <2>2, <2>3
<1> QED
  BY <1>7, <1>8
-------------------------------------------------------------------------------
\* A pass of cpmWrite writes to no other block of the directory in core.
LEMMA WriteElsewhere ==
  ASSUME IInv, file # NoFile, NEW n, NEW i \in Slots, NEW b \in Blocks, WriteBlock(n, i, b),
         NEW j \in Slots, dir[j].name # Absent, NEW p \in Ptr, dir[j].pointers[p] # 0,
         j # i \/ p # Pointer
  PROVE  diskData'[dir[j].pointers[p]] = diskData[dir[j].pointers[p]]
<1> DEFINE c == dir[j].pointers[p]
<1>1. /\ tool = "cpmcp" /\ NoSharedBlock(dir) /\ alv = AlvOf(dir) /\ dir \in [Slots -> Entry]
      /\ DOMAIN diskData = DirBlocks..Size - 1 /\ BlocksInRange(dir[j])
  BY DEF IInv, TypeOK, Ownership, BlocksOwned, InRange
<1>2. c \in DirBlocks..Size - 1 /\ c \in Blocks
  <2>1. c \in DirBlocks..Size - 1
    BY <1>1 DEF BlocksInRange, Ptr
  <2> QED
    BY <1>1, <2>1 DEF Entry, Ptr
<1>3. /\ IsFirst(i, ExtentSlots)
      /\ IF Extent(i).pointers[Pointer] = 0 THEN IsFirst(b, Blocks \ alv)
         ELSE b = Extent(i).pointers[Pointer]
  BY DEF WriteBlock
<1>4. c # b
  <2>1. CASE Extent(i).pointers[Pointer] = 0
    <3>1. c \in alv
      BY <1>1, <1>2, TakenBlocks
    <3> QED
      BY <1>3, <2>1, <3>1 DEF IsFirst
  <2>2. CASE Extent(i).pointers[Pointer] # 0
    <3>1. Pointer \in Ptr
      BY <1>1, <1>3, BlockFacts
    <3>2. dir[i].name # Absent
      <4>1. NoBlocks[Pointer] = 0
        BY <3>1 DEF NoBlocks, Ptr
      <4> QED
        BY <1>3, <2>2, <4>1, ExtentFacts
    <3>3. b = dir[i].pointers[Pointer] /\ b # 0
      BY <1>3, <2>2, <3>2, ExtentFacts
    <3> QED
      BY <1>1, <3>1, <3>2, <3>3 DEF NoSharedBlock, Ptr
  <2> QED
    BY <2>1, <2>2
<1>5. PICK D : diskData' = [diskData EXCEPT ![b] = D]
  BY DEF WriteBlock
<1> QED
  BY <1>1, <1>2, <1>4, <1>5

\* Where a pass ends.
LEMMA PassParts ==
  ASSUME Aligned, NEW pos \in Nat, NEW stop \in Nat, stop - 1 \in Nat,
         (stop - 1) \div BlkSiz = pos \div BlkSiz, NEW Y, Y = pos \div ExtCap
  PROVE  /\ Y \in Nat /\ Y = (pos \div BlkSiz) \div Pointers
         /\ Y * ExtCap <= stop /\ stop <= (Y + 1) * ExtCap /\ Y * ExtCap <= pos
         /\ \/ stop \div ExtCap = Y
            \/ stop \div ExtCap = Y + 1 /\ stop = (Y + 1) * ExtCap /\ stop % ExtCap = 0
<1>1. ExtCap \in Nat /\ ExtCap > 0
  BY ConstantFacts
<1>2. Y \in Nat /\ Y = (pos \div BlkSiz) \div Pointers /\ (stop - 1) \div ExtCap = Y
  <2>1. (stop - 1) \div ExtCap = ((stop - 1) \div BlkSiz) \div Pointers
    BY PartOf
  <2>2. Y \in Nat /\ Y = (pos \div BlkSiz) \div Pointers
    BY PartOf
  <2> QED
    BY <2>1, <2>2
<1> DEFINE v == stop - 1
           r == v % ExtCap
           s == pos % ExtCap
<1>3. r \in 0..(ExtCap - 1) /\ v = (Y * ExtCap) + r
  <2>1. v \in Int
    OBVIOUS
  <2>2. v \div ExtCap = Y
    BY <1>2
  <2> HIDE DEF v
  <2> QED
    BY <1>1, <2>1, <2>2, Division
<1>4. s \in 0..(ExtCap - 1) /\ pos = (Y * ExtCap) + s
  BY <1>1, Division
<1>5. (Y + 1) * ExtCap = (Y * ExtCap) + ExtCap /\ Y * ExtCap \in Int
  BY <1>1, <1>2
<1>6. stop = (Y * ExtCap) + (r + 1)
  <2> HIDE DEF r
  <2> QED
    BY <1>1, <1>3, <1>5
<1> HIDE DEF v, r, s
<1>7. Y * ExtCap <= stop /\ stop <= (Y + 1) * ExtCap /\ Y * ExtCap <= pos
  BY <1>1, <1>3, <1>4, <1>5, <1>6
<1>8. CASE r + 1 < ExtCap
  <2>1. r + 1 \in 0..(ExtCap - 1)
    BY <1>1, <1>3, <1>8
  <2>2. ((Y * ExtCap) + (r + 1)) \div ExtCap = Y
    BY ONLY <1>1, <1>2, <2>1, Unique
  <2>3. stop \div ExtCap = Y
    BY <1>6, <2>2
  <2> QED
    BY <1>2, <1>7, <2>3
<1>9. CASE r + 1 = ExtCap
  <2>1. stop = (Y + 1) * ExtCap
    BY <1>5, <1>6, <1>9
  <2>2. Y + 1 \in Int /\ 0 \in 0..(ExtCap - 1)
    BY <1>1, <1>2
  <2>3. ((Y + 1) * ExtCap) + 0 = (Y + 1) * ExtCap
    BY <1>1, <1>2
  <2>4. (((Y + 1) * ExtCap) + 0) \div ExtCap = Y + 1 /\ (((Y + 1) * ExtCap) + 0) % ExtCap = 0
    BY ONLY <1>1, <2>2, Unique
  <2>5. stop \div ExtCap = Y + 1 /\ stop % ExtCap = 0
    BY <2>1, <2>3, <2>4
  <2> QED
    BY <1>2, <1>7, <2>1, <2>5
<1> QED
  BY <1>1, <1>3, <1>8, <1>9

\* The units of the entry that a pass works on: those that it writes, and those before.
LEMMA WriteUnit ==
  ASSUME Readable, IInv, CleanInv, StoreInv, file # NoFile, file.pos < file.length,
         NEW n \in Counts, NEW i \in Slots, NEW b \in Blocks, WriteBlock(n, i, b),
         NEW u \in Nat, u < Stop(n), u \div ExtCap = file.pos \div ExtCap
  PROVE  Stored(dir'[i], diskData', file.name, file.length, u)
<1> DEFINE pos == file.pos
           q == pos \div BlkSiz
           Y == q \div Pointers
           p == (u % ExtCap) \div BlkSiz
           old == Extent(i)
           B == BlocksBefore(pos)
<1>1. /\ Aligned /\ file \in Copy /\ pos \in Nat /\ Copying /\ tool = "cpmcp"
      /\ dir \in [Slots -> Entry] /\ DOMAIN diskData = DirBlocks..Size - 1
      /\ Copied(dir, diskData, file.name, file.length, pos)
  BY DEF Readable, IInv, TypeOK, Copy, CleanInv, StoreInv, CopyInv
<1>2. /\ Stop(n) - 1 \in Nat /\ (Stop(n) - 1) \div BlkSiz = q /\ ExtentNo = pos \div LogExt
      /\ IsFirst(i, ExtentSlots) /\ Pointer = q % Pointers
      /\ dir'[i].pointers = [old.pointers EXCEPT ![Pointer] = b]
      /\ Stop(n) \in Int
  BY <1>1, WriteEffect
<1>3. n \in Nat /\ n > 0
  BY <1>1, Pass
<1>4. /\ Points(old, Y, B) /\ Part(old) = Y
      /\ old \in Entry /\ old.name = file.name
      /\ (dir[i].name = Absent => old.pointers = NoBlocks)
      /\ (dir[i].name # Absent => old = dir[i])
  <2>1. Points(old, Y, B) /\ Part(old) = Y
    BY <1>1, <1>2, PartFacts
  <2> QED
    BY <1>2, <2>1, ExtentFacts
<1>5. /\ Pointer \in Ptr /\ b # 0 /\ b \in DirBlocks..Size - 1
      /\ old.pointers[Pointer] \in {0, b}
  BY <1>1, BlockFacts DEF WriteBlock
<1>6. /\ p \in Ptr /\ p = (u \div BlkSiz) % Pointers /\ u \div BlkSiz \in Nat /\ q \in Nat
      /\ u \div BlkSiz = (Y * Pointers) + p /\ q = (Y * Pointers) + Pointer /\ Y \in Nat
      /\ u \div ExtCap = Y
  <2>1. p \in Ptr
    BY PointerInEntry
  <2>2. p = (u \div BlkSiz) % Pointers /\ u \div BlkSiz \in Nat /\ q \in Nat
    BY <1>1, Position
  <2>3. (u \div BlkSiz) \div Pointers = Y /\ Y \in Nat /\ u \div ExtCap = Y
    BY <1>1, PartOf
  <2>4. Pointers \in Nat /\ Pointers > 0
    BY ConstantFacts
  <2>5. u \div BlkSiz = (Y * Pointers) + p
    <3> DEFINE c == u \div BlkSiz
    <3>1. c \div Pointers = Y /\ c \in Nat /\ p = c % Pointers
      BY <2>2, <2>3
    <3> HIDE DEF c, Y, p
    <3>2. c = ((c \div Pointers) * Pointers) + (c % Pointers)
      BY <2>4, <3>1, Division
    <3> QED
      BY <3>1, <3>2 DEF c
  <2>6. q = (Y * Pointers) + Pointer
    <3> HIDE DEF q
    <3> QED
      BY <1>2, <2>2, <2>4, Division
  <2> QED
    BY <2>1, <2>2, <2>3, <2>5, <2>6
<1>7. (u \div BlkSiz = q <=> p = Pointer) /\ u \div BlkSiz <= q
  <2>1. u \div BlkSiz = q <=> p = Pointer
    <3>1. Y * Pointers \in Int /\ p \in Int /\ Pointer \in Int
      BY <1>5, <1>6, ConstantFacts DEF Ptr
    <3> HIDE DEF Y, q, p
    <3> QED
      BY <1>6, <3>1
  <2>2. u \div BlkSiz <= (Stop(n) - 1) \div BlkSiz
    <3>1. u <= Stop(n) - 1
      BY <1>2
    <3> QED
      BY <1>2, <3>1, ConstantFacts, QuotientGrows
  <2> QED
    BY <1>2, <2>1, <2>2
\* A unit before pos was there.
<1>8. ASSUME u < pos, old.pointers[p] # 0
      PROVE  /\ dir[i].name # Absent /\ old = dir[i]
             /\ Stored(dir[i], diskData, file.name, file.length, u)
  <2>1. dir[i].name # Absent
    <3>1. NoBlocks[p] = 0
      BY <1>6 DEF NoBlocks, Ptr
    <3> QED
      BY <1>4, <1>8, <3>1
  <2>2. i \in EntriesOf(dir, file.name) /\ Part(dir[i]) = Y /\ old = dir[i]
    BY <1>4, <2>1 DEF EntriesOf
  <2>3. u \in 0..pos - 1
    BY <1>1, <1>8
  <2> HIDE DEF Y, pos, old
  <2>4. Stored(dir[i], diskData, file.name, file.length, u)
    BY <1>1, <1>6, <2>2, <2>3 DEF Copied, pos
  <2> QED
    BY <2>1, <2>2, <2>4
<1>9. B \in {q, q + 1} /\ (pos % BlkSiz # 0 => B = q + 1)
  BY <1>1, Ceiling
<1>10. CASE u \div BlkSiz = q
  <2> DEFINE new == old.pointers[Pointer] = 0
             N == NewData(diskData[b], new, n, Stop(n))
  <2>1. p = Pointer
    BY <1>7, <1>10
  <2>2. dir'[i].pointers[p] = b
    BY <1>2, <1>4, <1>5, <2>1 DEF Entry, Ptr
  <2>3. diskData'[b] = N
    <3>1. diskData' = [diskData EXCEPT ![b] = NewData(@, new, n, Stop(n))]
      BY Zenon DEF WriteBlock, Stop
    <3> HIDE DEF new
    <3> QED
      BY <1>1, <1>5, <3>1
  <2>4. N[u % BlkSiz] = << file.name, file.length, u >>
    <3>1. CASE u >= pos
      <4>1. new \in BOOLEAN /\ u \div BlkSiz = file.pos \div BlkSiz
        BY <1>10
      <4> HIDE DEF new
      <4> QED
        BY <1>1, <1>3, <3>1, <4>1, NewDataFacts
    <3>2. CASE u < pos
      <4>1. ~ new
        <5>1. pos % BlkSiz # 0
          <6>1. BlkSiz \in Nat /\ BlkSiz > 0
            BY ConstantFacts
          <6>2. pos = (q * BlkSiz) + (pos % BlkSiz) /\ pos % BlkSiz \in Int
            <7>1. pos \in Int
              BY <1>1
            <7> HIDE DEF pos
            <7> QED
              BY <6>1, <7>1, Division
          <6>3. u = ((u \div BlkSiz) * BlkSiz) + (u % BlkSiz) /\ u % BlkSiz \in Nat
            BY <6>1, Division
          <6> DEFINE s == pos % BlkSiz
                     t == u % BlkSiz
          <6>4. q * BlkSiz \in Int
            <7> HIDE DEF q
            <7> QED
              BY <1>6, <6>1
          <6>5. u = (q * BlkSiz) + t /\ t \in Nat /\ s \in Int /\ pos = (q * BlkSiz) + s
            BY <1>10, <6>2, <6>3
          <6> HIDE DEF q, s, t, pos
          <6>6. s # 0
            BY <1>1, <3>2, <6>4, <6>5
          <6> QED
            BY <6>6 DEF s
        <5>2. (Y * Pointers) + p < B
          <6>1. (Y * Pointers) + p = q /\ B = q + 1 /\ q \in Int
            BY <1>6, <1>9, <1>10, <5>1
          <6> HIDE DEF Y, p, B, q
          <6> QED
            BY <6>1
        <5> HIDE DEF Y, p, B, old
        <5> QED
          BY <1>4, <1>6, <2>1, <5>2 DEF Points
      <4>2. N[u % BlkSiz] = diskData[b][u % BlkSiz]
        <5>1. new \in BOOLEAN /\ u \div BlkSiz = file.pos \div BlkSiz
          BY <1>10
        <5> HIDE DEF new
        <5> QED
          BY <1>1, <1>3, <3>2, <4>1, <5>1, NewDataFacts
      <4>3. Stored(dir[i], diskData, file.name, file.length, u) /\ dir[i].pointers[p] = b
        <5> HIDE DEF p, old
        <5> QED
          BY <1>5, <1>8, <2>1, <3>2, <4>1 DEF old
      <4> HIDE DEF N
      <4> QED
        BY <4>2, <4>3 DEF Stored
    <3> QED
      BY <1>1, <3>1, <3>2
  <2> HIDE DEF N
  <2> QED
    BY <1>5, <2>2, <2>3, <2>4 DEF Stored
<1>11. CASE u \div BlkSiz # q
  <2>1. p # Pointer /\ u \div BlkSiz < q
    <3> DEFINE c == u \div BlkSiz
    <3>1. c # q /\ c <= q /\ c \in Nat /\ q \in Nat
      BY <1>6, <1>7, <1>11
    <3>2. c < q
      <4> HIDE DEF c, q
      <4> QED
        BY <3>1
    <3> QED
      BY <1>7, <1>11, <3>2
  <2>2. old.pointers[p] # 0
    <3>1. (Y * Pointers) + p = u \div BlkSiz
      BY <1>6
    <3>2. u \div BlkSiz < B
      <4> DEFINE c == u \div BlkSiz
      <4>1. c < q /\ c \in Nat /\ q \in Nat /\ B \in {q, q + 1}
        BY <1>6, <1>9, <2>1
      <4>2. c < B
        <5> HIDE DEF c, q, B
        <5> QED
          BY <4>1
      <4> QED
        BY <4>2
    <3>3. (Y * Pointers) + p < B
      BY <3>1, <3>2
    <3> HIDE DEF Y, p, B, old
    <3> QED
      BY <1>4, <1>6, <3>3 DEF Points
  <2>3. u < pos
    <3>1. BlkSiz \in Nat /\ BlkSiz > 0
      BY ConstantFacts
    <3>2. u < q * BlkSiz
      <4> HIDE DEF q
      <4> QED
        BY <1>6, <2>1, <3>1, Before
    <3>3. pos = (q * BlkSiz) + (pos % BlkSiz) /\ pos % BlkSiz \in Nat
      <4>1. pos \in Int
        BY <1>1
      <4> HIDE DEF pos
      <4> QED
        BY <3>1, <4>1, Division
    <3>4. q * BlkSiz \in Int
      <4> HIDE DEF q
      <4> QED
        BY <1>6, <3>1
    <3> DEFINE s == pos % BlkSiz
    <3>5. s \in Nat /\ pos = (q * BlkSiz) + s
      BY <3>3
    <3> HIDE DEF q, s, pos
    <3> QED
      BY <1>1, <3>2, <3>4, <3>5
  <2>4. /\ dir[i].name # Absent /\ old = dir[i]
        /\ Stored(dir[i], diskData, file.name, file.length, u)
    BY <1>8, <2>2, <2>3
  <2>5. dir'[i].pointers[p] = dir[i].pointers[p] /\ dir[i].pointers[p] # 0
    <3> HIDE DEF p, old
    <3>1. old.pointers \in [Ptr -> Blocks]
      BY <1>4 DEF Entry, Ptr
    <3> QED
      BY <1>2, <1>6, <2>1, <2>2, <2>4, <3>1
  <2>6. diskData'[dir[i].pointers[p]] = diskData[dir[i].pointers[p]]
    <3> HIDE DEF p
    <3> QED
      BY <1>6, <2>1, <2>4, <2>5, WriteElsewhere
  <2> QED
    BY <2>4, <2>5, <2>6 DEF Stored
<1> QED
  BY <1>10, <1>11

\* After a pass of cpmWrite, one more piece of the file has been copied.
LEMMA WritePass ==
  ASSUME Readable, IInv, CleanInv, StoreInv, file # NoFile, file.pos < file.length,
         NEW n \in Counts, NEW i \in Slots, NEW b \in Blocks, WriteBlock(n, i, b), IInv'
  PROVE  /\ New(dir', diskDir, synced)
         /\ Copied(dir', diskData', file.name, file.length, Stop(n))
<1> DEFINE f == file.name
           pos == file.pos
           stop == Stop(n)
           Y == pos \div ExtCap
           Z == stop \div ExtCap
           d == dir'
<1>1. /\ Aligned /\ file \in Copy /\ pos \in Nat /\ Copying /\ tool = "cpmcp" /\ f # Absent
      /\ dir \in [Slots -> Entry] /\ d \in [Slots -> Entry]
      /\ Copied(dir, diskData, f, file.length, pos)
  BY DEF Readable, IInv, TypeOK, Copy, CleanInv, StoreInv, CopyInv
<1>2. /\ stop \in (pos + 1)..(pos + n) /\ stop - 1 \in Nat
      /\ (stop - 1) \div BlkSiz = pos \div BlkSiz
      /\ ExtentNo = pos \div LogExt /\ (stop - 1) \div LogExt = ExtentNo
      /\ IsFirst(i, ExtentSlots)
      /\ d[i].name = f /\ d[i].ro = Extent(i).ro /\ d[i].extno = ExtentNo
      /\ d[i].blkcnt = (((stop - 1) % LogExt) \div RecLen) + 1 /\ d[i].lrc = stop % RecLen
      /\ \A j \in Slots \ {i} : d[j] = dir[j]
  BY <1>1, WriteEffect
<1>3. stop \in Nat /\ (stop - 1) + 1 = stop
  <2> HIDE DEF stop
  <2> QED
    BY <1>2
<1>4. /\ Y \in Nat /\ Y * ExtCap <= stop /\ stop <= (Y + 1) * ExtCap /\ Y * ExtCap <= pos
      /\ \/ Z = Y
         \/ Z = Y + 1 /\ stop = (Y + 1) * ExtCap /\ stop % ExtCap = 0
  <2> DEFINE y == Y
  <2>1. y = pos \div ExtCap
    OBVIOUS
  <2> HIDE DEF y, stop
  <2>2. /\ y \in Nat /\ y * ExtCap <= stop /\ stop <= (y + 1) * ExtCap /\ y * ExtCap <= pos
        /\ \/ stop \div ExtCap = y
           \/ stop \div ExtCap = y + 1 /\ stop = (y + 1) * ExtCap /\ stop % ExtCap = 0
    BY <1>1, <1>2, <1>3, <2>1, PassParts
  <2> QED
    BY <2>2 DEF y
<1>5. Part(d[i]) = Y /\ End(d[i]) = stop
  <2>1. Part(d[i]) = Y
    BY <1>1, <1>2, PartOf DEF Part
  <2> DEFINE v == stop - 1
  <2>2. /\ v \in Nat /\ d[i].extno = v \div LogExt
        /\ d[i].blkcnt = ((v % LogExt) \div RecLen) + 1 /\ d[i].lrc = (v + 1) % RecLen
        /\ v + 1 = stop
    BY <1>2, <1>3
  <2> HIDE DEF v, d, stop
  <2>3. End(d[i]) = v + 1
    BY <1>1, <2>2, EndAfter
  <2> QED
    BY <2>1, <2>2, <2>3
<1>6. /\ New(d, diskDir, synced)
      /\ \A y \in 0..Y - 1 : Full(d, f, y)
      /\ \A j \in EntriesOf(dir, f) \ {i} : Part(dir[j]) < Y
  <2> DEFINE y == Y
  <2>1. y = pos \div ExtCap /\ Part(d[i]) = y /\ y * ExtCap <= End(d[i])
        /\ End(d[i]) <= (y + 1) * ExtCap
    BY <1>4, <1>5
  <2> HIDE DEF y
  <2>2. /\ New(d, diskDir, synced)
        /\ \A z \in 0..y - 1 : Full(d, f, z)
        /\ \A j \in EntriesOf(dir, f) \ {i} : Part(dir[j]) < y
    BY <1>1, <1>2, <2>1, PartGrows
  <2> QED
    BY <2>2 DEF y
<1>7. i \in EntriesOf(d, f) /\ \A j \in EntriesOf(d, f) \ {i} : j \in EntriesOf(dir, f) \ {i} /\ d[j] = dir[j]
  BY <1>2 DEF EntriesOf
<1>8. Z \in Nat /\ Y <= Z
  <2> HIDE DEF Y, Z
  <2> QED
    BY <1>4
<1>9. ASSUME NEW y \in 0..Z - 1 PROVE Full(d, f, y)
  <2>1. CASE y = Y
    <3>1. stop = (y + 1) * ExtCap
      <4> HIDE DEF Y, Z, stop
      <4> QED
        BY <1>4, <1>8, <1>9, <2>1
    <3> QED
      BY <1>5, <1>7, <2>1, <3>1 DEF Full
  <2>2. CASE y # Y
    <3>1. y \in 0..Y - 1
      <4> HIDE DEF Y, Z
      <4> QED
        BY <1>4, <1>8, <1>9, <2>2
    <3> QED
      BY <1>6, <3>1
  <2> QED
    BY <2>1, <2>2
<1>10. ASSUME NEW j \in EntriesOf(d, f)
       PROVE  /\ Part(d[j]) <= Z /\ (Part(d[j]) = Z => End(d[j]) = stop)
              /\ \A u \in 0..stop - 1 : u \div ExtCap = Part(d[j]) =>
                                          Stored(d[j], diskData', f, file.length, u)
  <2>1. CASE j = i
    <3>1. Part(d[j]) <= Z /\ (Part(d[j]) = Z => End(d[j]) = stop)
      BY <1>5, <1>8, <2>1
    <3>2. ASSUME NEW u \in 0..stop - 1, u \div ExtCap = Part(d[j])
          PROVE  Stored(d[j], diskData', f, file.length, u)
      <4>1. u \in Nat /\ u < stop /\ u \div ExtCap = pos \div ExtCap
        <5>1. u \in Nat /\ u < stop
          <6> HIDE DEF stop
          <6> QED
            BY <1>3
        <5> QED
          BY <1>5, <2>1, <3>2, <5>1
      <4> QED
        BY <2>1, <4>1, WriteUnit
    <3> QED
      BY <3>1, <3>2
  <2>2. CASE j # i
    <3>1. j \in EntriesOf(dir, f) /\ d[j] = dir[j] /\ Part(dir[j]) < Y
      BY <1>6, <1>7, <2>2
    <3>2. Part(d[j]) \in Nat
      <4>1. d[j].extno \in Nat /\ Extents \in Nat /\ Extents > 0
        BY <1>1, AlignedSizes DEF EntriesOf, Entry
      <4> QED
        BY <4>1, Division DEF Part
    <3>3. Part(d[j]) < Z
      <4> DEFINE x == Part(d[j])
      <4>1. x < Y /\ x \in Nat
        BY <3>1, <3>2
      <4>2. x < Z
        <5> HIDE DEF Y, Z, x
        <5> QED
          BY <1>4, <1>8, <4>1
      <4> QED
        BY <4>2
    <3>4. Part(d[j]) <= Z /\ Part(d[j]) # Z
      <4> DEFINE x == Part(d[j])
      <4>1. x <= Z /\ x # Z
        <5>1. x < Z /\ x \in Nat
          BY <3>2, <3>3
        <5> HIDE DEF Z, x
        <5> QED
          BY <1>8, <5>1
      <4> QED
        BY <4>1
    <3>5. ASSUME NEW u \in 0..stop - 1, u \div ExtCap = Part(d[j])
          PROVE  Stored(d[j], diskData', f, file.length, u)
      <4>1. u \in Nat /\ u < pos
        <5>1. u \in Nat
          <6> HIDE DEF stop
          <6> QED
            BY <1>3
        <5>2. u \div ExtCap < Y /\ ExtCap \in Nat /\ ExtCap > 0
          BY <3>1, <3>5, ConstantFacts
        <5>3. u < Y * ExtCap
          <6> HIDE DEF Y
          <6> QED
            BY <1>4, <5>1, <5>2, Before
        <5>4. Y * ExtCap \in Int
          <6> HIDE DEF Y
          <6> QED
            BY <1>4, <5>2
        <5> DEFINE c == Y * ExtCap
        <5>5. u < c /\ c <= pos /\ c \in Int
          BY <1>4, <5>3, <5>4
        <5> HIDE DEF c, pos
        <5> QED
          BY <1>1, <5>1, <5>5
      <4>2. u \in 0..pos - 1
        <5> HIDE DEF pos
        <5> QED
          BY <1>1, <4>1
      <4>3. Stored(dir[j], diskData, f, file.length, u)
        <5>1. u \div ExtCap = Part(dir[j])
          BY <3>1, <3>5
        <5> HIDE DEF pos
        <5> QED
          BY <1>1, <3>1, <4>2, <5>1 DEF Copied
      <4> DEFINE p == (u % ExtCap) \div BlkSiz
      <4>4. p \in Ptr
        BY <4>1, PointerInEntry
      <4>5. dir[j].pointers[p] # 0
            /\ diskData[dir[j].pointers[p]][u % BlkSiz] = << f, file.length, u >>
        BY <4>3 DEF Stored
      <4>6. diskData'[dir[j].pointers[p]] = diskData[dir[j].pointers[p]]
        <5>1. j \in Slots /\ dir[j].name # Absent
          BY <1>1, <3>1 DEF EntriesOf
        <5> HIDE DEF p
        <5> QED
          BY <2>2, <4>4, <4>5, <5>1, WriteElsewhere
      <4> QED
        BY <3>1, <4>5, <4>6 DEF Stored
    <3> QED
      BY <3>4, <3>5
  <2> QED
    BY <2>1, <2>2
<1>11. stop % ExtCap # 0 => \E j \in EntriesOf(d, f) : Part(d[j]) = Z
  BY <1>4, <1>5, <1>7
<1>12. Copied(d, diskData', f, file.length, stop)
  <2> HIDE DEF d, stop, f
  <2> QED
    BY <1>9, <1>10, <1>11 DEF Copied
<1> QED
  BY <1>6, <1>12

LEMMA WriteStore ==
  ASSUME Readable, IInv, CleanInv, StoreInv, Write
  PROVE  StoreInv'
<1>1. /\ file # NoFile /\ file.pos < file.length /\ tool = "cpmcp" /\ Aligned
      /\ UNCHANGED << diskDir, tool, dirtyDirectory, synced >>
      /\ dirtyDirectory /\ synced = 0 /\ file.length \in Lengths
  BY DEF Write, WriteBlock, IInv, TypeOK, StoreInv, Synced, Readable
<1>2. PICK n \in Counts, i \in Slots, b \in Blocks : WriteBlock(n, i, b)
  BY DEF Write
<1>3. IInv'
  BY WriteInv
<1>4. New(dir', diskDir, synced) /\ Copied(dir', diskData', file.name, file.length, Stop(n))
  BY <1>1, <1>2, <1>3, WritePass
<1>5. file'.pos = Stop(n) /\ file'.name = file.name /\ file'.length = file.length
  BY <1>1, <1>2, WriteEffect
<1>6. FileAgreement'
  BY <1>1, <1>4 DEF FileAgreement
<1>7. Synced'
  <2>1. \A j \in Slots : ~ j \div EntriesPerBlock < 0
    BY SlotBlock
  <2> QED
    BY <1>1, <1>5, <2>1 DEF Synced
<1>8. CopyInv'
  BY <1>4, <1>5 DEF CopyInv
<1> QED
  BY <1>6, <1>7, <1>8 DEF StoreInv

\* The entry that is left when the disk is full ends where the file does.
LEMMA WriteFailsPart ==
  ASSUME Aligned, IInv, CleanInv, StoreInv, WriteFails, IInv'
  PROVE  /\ New(dir', diskDir, synced)
         /\ Copied(dir', diskData, file.name, file.length, file.pos)
         /\ \A j \in Slots : dir'[j].name # file.name => dir'[j] = dir[j]
         /\ \A j \in Slots : dir[j].name # file.name /\ dir[j].name # Absent => dir'[j] = dir[j]
<1> DEFINE f == file.name
           pos == file.pos
           Y == pos \div ExtCap
<1>1. /\ file # NoFile /\ file \in Copy /\ pos \in Nat /\ Copying /\ tool = "cpmcp"
      /\ f # Absent /\ dir \in [Slots -> Entry] /\ dir' \in [Slots -> Entry]
      /\ pos < file.length
      /\ New(dir, diskDir, synced) /\ Copied(dir, diskData, f, file.length, pos)
  BY DEF WriteFails, IInv, TypeOK, Copy, CleanInv, StoreInv, FileAgreement, CopyInv
<1>2. CASE dir' = dir
  BY <1>1, <1>2
<1>3. CASE dir' # dir
  <2>1. PICK i \in Slots : IsFirst(i, ExtentSlots) /\ dir' = [dir EXCEPT ![i] = Extent(i)]
    BY <1>3 DEF WriteFails
  <2>2. /\ Extent(i) \in Entry /\ Extent(i).name = f
        /\ (dir[i].name # Absent => Extent(i) = dir[i])
    BY <1>1, <2>1, ExtentFacts
  <2>3. dir'[i] = Extent(i) /\ \A j \in Slots \ {i} : dir'[j] = dir[j]
    BY <1>1, <2>1
  <2>4. dir[i].name = Absent
    BY <1>1, <1>3, <2>1, <2>2
  <2>5. ExtentNo = pos \div LogExt
    BY <1>1 DEF ExtentNo, Copying, Copy
  <2>6. Extent(i).extno = ExtentNo /\ Extent(i).blkcnt = 0
    <3>1. dir[file.ino] \in Entry
      BY <1>1 DEF Copy
    <3> QED
      BY <2>4, <3>1 DEF Extent, Free, Entry
  <2>7. Y \in Nat /\ Part(Extent(i)) = Y /\ ((ExtentNo % Extents) * PerExtent) = 0
        /\ \A j \in EntriesOf(dir, f) : Part(dir[j]) # Y
    <3>1. Y = (pos \div BlkSiz) \div Pointers /\ Y \in Nat
      BY <1>1, PartOf
    <3>2. /\ Part(Extent(i)) = Y /\ ((ExtentNo % Extents) * PerExtent) = 0
          /\ \A j \in Slots \ {i} : dir[j].name = f => Part(dir[j]) # Y
      BY <1>1, <2>1, <2>4, <2>5, <3>1, PartFacts
    <3> QED
      BY <1>1, <2>4, <3>1, <3>2 DEF EntriesOf
  <2>8. pos % ExtCap = 0 /\ pos = Y * ExtCap
    <3>1. pos % ExtCap = 0
      <4> HIDE DEF pos
      <4> QED
        BY <1>1, <2>7 DEF Copied, pos
    <3>2. pos \in Int /\ ExtCap \in Nat /\ ExtCap > 0
      BY <1>1, ConstantFacts
    <3> HIDE DEF pos
    <3>3. pos = (Y * ExtCap) + (pos % ExtCap)
      BY <3>2, Division
    <3>4. Y * ExtCap \in Int
      <4> HIDE DEF Y
      <4> QED
        BY <2>7, <3>2
    <3> DEFINE c == Y * ExtCap
    <3> HIDE DEF c
    <3> QED
      BY <3>1, <3>3, <3>4 DEF c
  <2>9. End(dir'[i]) = pos
    <3>1. ExtentNo \in Nat /\ Extents \in Nat /\ Extents > 0 /\ PerExtent \in Nat /\ PerExtent > 0
          /\ LogExt \in Nat /\ ExtCap = Extents * LogExt
      BY <1>1, <2>1, ExtentFacts, AlignedSizes, ConstantFacts
    <3> DEFINE x == ExtentNo
               r == x % Extents
               a == x \div Extents
    <3>2. a = Y /\ x \in Nat
      BY <2>6, <2>7, <3>1 DEF Part
    <3>3. r \in Nat /\ x = (a * Extents) + r
      <4> HIDE DEF x
      <4> QED
        BY <3>1, <3>2, Division
    <3>4. r * PerExtent = 0
      BY <2>7
    <3>5. r = 0
      <4> HIDE DEF r
      <4>1. r > 0 => r * PerExtent > 0
        BY <3>1, <3>3, Product
      <4> QED
        BY <3>3, <3>4, <4>1
    <3>6. x = Y * Extents
      <4> HIDE DEF r, a, x
      <4>1. a * Extents \in Int
        BY <2>7, <3>1, <3>2
      <4> HIDE DEF Y
      <4> QED
        BY <3>2, <3>3, <3>5, <4>1
    <3>7. x * LogExt = Y * ExtCap
      <4> HIDE DEF x, Y
      <4>1. (Y * Extents) * LogExt = Y * (Extents * LogExt)
        BY <2>7, <3>1
      <4> QED
        BY <3>1, <3>6, <4>1
    <3>8. End(dir'[i]) = (x * LogExt) + 0
      BY <2>3, <2>6 DEF End
    <3> DEFINE c == x * LogExt
    <3>9. c = pos /\ End(dir'[i]) = c + 0
      BY <2>8, <3>7, <3>8
    <3> HIDE DEF c, pos
    <3> QED
      BY <1>1, <3>9
  <2>10. /\ New(dir', diskDir, synced)
         /\ \A y \in 0..Y - 1 : Full(dir', f, y)
         /\ \A j \in EntriesOf(dir, f) \ {i} : Part(dir[j]) < Y
    <3> DEFINE y == Y
               d == dir'
    <3>1. Y * ExtCap <= End(d[i]) /\ End(d[i]) <= (Y + 1) * ExtCap
      <4> HIDE DEF Y, pos
      <4>1. ExtCap \in Nat /\ Y * ExtCap \in Int /\ (Y + 1) * ExtCap = (Y * ExtCap) + ExtCap
        BY <2>7, ConstantFacts
      <4> QED
        BY <2>8, <2>9, <4>1
    <3>2. y = pos \div ExtCap /\ Part(d[i]) = y /\ y * ExtCap <= End(d[i])
          /\ End(d[i]) <= (y + 1) * ExtCap
      BY <2>3, <2>7, <3>1
    <3>3. d \in [Slots -> Entry] /\ d[i].name = f /\ d[i].ro = Extent(i).ro
          /\ \A j \in Slots \ {i} : d[j] = dir[j]
      BY <1>1, <2>2, <2>3
    <3> HIDE DEF y, d
    <3>4. /\ New(d, diskDir, synced)
          /\ \A z \in 0..y - 1 : Full(d, f, z)
          /\ \A j \in EntriesOf(dir, f) \ {i} : Part(dir[j]) < y
      BY <1>1, <2>1, <2>5, <3>2, <3>3, PartGrows
    <3> QED
      BY <3>4 DEF y, d
  <2>11. EntriesOf(dir', f) = EntriesOf(dir, f) \cup {i}
         /\ \A j \in EntriesOf(dir, f) : j # i /\ dir'[j] = dir[j]
    BY <1>1, <2>2, <2>3, <2>4 DEF EntriesOf
  <2>12. ASSUME NEW j \in EntriesOf(dir', f)
         PROVE  /\ Part(dir'[j]) <= Y /\ (Part(dir'[j]) = Y => End(dir'[j]) = pos)
                /\ \A u \in 0..pos - 1 : u \div ExtCap = Part(dir'[j]) =>
                                           Stored(dir'[j], diskData, f, file.length, u)
    <3>1. CASE j = i
      <4>1. Part(dir'[j]) = Y /\ End(dir'[j]) = pos
        BY <2>3, <2>7, <2>9, <3>1
      <4>2. ASSUME NEW u \in 0..pos - 1 PROVE u \div ExtCap # Y
        <5>1. ExtCap \in Nat /\ ExtCap > 0
          BY ConstantFacts
        <5>2. u \in Nat /\ u < pos
          <6> HIDE DEF pos
          <6> QED
            BY <1>1
        <5>3. u = ((u \div ExtCap) * ExtCap) + (u % ExtCap) /\ u % ExtCap \in Nat
          BY <5>1, <5>2, Division
        <5> DEFINE a == u \div ExtCap
                   s == u % ExtCap
        <5>4. u = (a * ExtCap) + s /\ s \in Nat
          BY <5>3
        <5>5. a # Y
          <6> SUFFICES ASSUME a = Y PROVE FALSE
            OBVIOUS
          <6> DEFINE c == Y * ExtCap
          <6>1. c \in Int
            <7> HIDE DEF Y
            <7> QED
              BY <2>7, <5>1
          <6>2. u = c + s /\ pos = c
            BY <2>8, <5>4
          <6> HIDE DEF c, s, pos
          <6> QED
            BY <5>2, <5>4, <6>1, <6>2
        <5> QED
          BY <5>5
      <4>3. Part(dir'[j]) <= Y
        <5> HIDE DEF Y
        <5> QED
          BY <2>7, <4>1
      <4> QED
        BY <4>1, <4>2, <4>3
    <3>2. CASE j # i
      <4>1. j \in EntriesOf(dir, f) /\ dir'[j] = dir[j]
        BY <2>11, <3>2
      <4> HIDE DEF pos
      <4> QED
        BY <1>1, <4>1 DEF Copied
    <3> QED
      BY <3>1, <3>2
  <2>13. Copied(dir', diskData, f, file.length, pos)
    <3> HIDE DEF f, pos
    <3> QED
      BY <2>8, <2>10, <2>12 DEF Copied
  <2> QED
    BY <1>1, <2>2, <2>3, <2>4, <2>10, <2>13
<1> QED
  BY <1>2, <1>3

LEMMA WriteFailsStore ==
  ASSUME Aligned, IInv, CleanInv, StoreInv, WriteFails
  PROVE  StoreInv'
<1>1. /\ file # NoFile /\ file' = NoFile /\ tool = "cpmcp"
      /\ UNCHANGED << diskDir, tool, dirtyDirectory, synced >>
      /\ dirtyDirectory /\ synced = 0
  BY DEF WriteFails, diskVars, IInv, TypeOK, StoreInv, Synced
<1>2. New(dir', diskDir, synced)
  BY WriteFailsInv, WriteFailsPart
<1>3. FileAgreement'
  BY <1>1, <1>2 DEF FileAgreement
<1>4. Synced'
  <2>1. \A j \in Slots : ~ j \div EntriesPerBlock < 0
    BY SlotBlock
  <2> QED
    BY <1>1, <2>1 DEF Synced
<1> QED
  BY <1>1, <1>3, <1>4 DEF StoreInv, CopyInv

LEMMA NextStore == Readable /\ IInv /\ CleanInv /\ StoreInv /\ [Next]_fsVars => StoreInv'
<1> SUFFICES ASSUME Readable, IInv, CleanInv, StoreInv, [Next]_fsVars PROVE StoreInv'
  OBVIOUS
<1>1. Aligned
  BY DEF Readable
<1>2. ASSUME NEW t \in {"cpmcp", "cpmrm", "cpmchattr", "fsck.cpm"}, ReadSuper(t)
      PROVE  StoreInv'
  BY <1>2, ReadSuperStore
<1>3. ASSUME NEW f \in Names, NEW length \in Lengths, Creat(f, length) PROVE StoreInv'
  BY <1>1, <1>3, CreatStore
<1>4. ASSUME NEW f \in Names, Unlink(f) PROVE StoreInv'
  BY <1>4, UnlinkStore
<1>5. ASSUME NEW f \in Names, NEW ro \in BOOLEAN, AttrSet(f, ro) PROVE StoreInv'
  BY <1>5, AttrSetStore
<1>6. CASE Write
  BY <1>6, WriteStore
<1>7. CASE WriteFails
  BY <1>1, <1>7, WriteFailsStore
<1>8. CASE Close
  BY <1>8, CloseStore
<1>9. CASE Fsck
  BY <1>1, <1>9, FsckStore
<1>10. CASE SyncBlock
  BY <1>10, SyncBlockStore
<1>11. CASE Umount \/ Crash
  <2>1. Idle
    BY <1>11 DEF Umount, Crash
  <2> QED
    BY <2>1, IdleStore
<1>12. CASE UNCHANGED fsVars
  BY <1>12, UnchangedStore
<1> QED
  BY <1>2, <1>3, <1>4, <1>5, <1>6, <1>7, <1>8, <1>9, <1>10, <1>11, <1>12 DEF Next
-------------------------------------------------------------------------------
\* What FileStore says of a step, in terms of the two directories.
Shown(d, data) == [f \in Names |-> FileOf(d, data, f)]
InCore == IF tool = "none" THEN diskDir ELSE dir

LEMMA ChangeStep ==
  ASSUME NEW f \in Names, NEW old, old = FileOf(InCore, diskData, f),
         NEW new, new = FileOf(InCore', diskData', f),
         \/ Store!Create(old, new) \/ Store!Write(f, old, new)
         \/ Store!Erase(old, new) \/ Store!Protect(old, new),
         \A g \in Names \ {f} : FileOf(InCore', diskData', g) = FileOf(InCore, diskData, g),
         \A g \in Names : FileOf(diskDir', diskData', g) = FileOf(diskDir, diskData, g),
         crashes' = crashes
  PROVE  Store!Next
<1>1. Store!Change(f)
  BY DEF Store!Change, InCore
<1> QED
  BY <1>1 DEF Store!Next

LEMMA FlushStep ==
  ASSUME \A f \in Names : Store!Settle(FileOf(InCore, diskData, f), FileOf(diskDir, diskData, f),
                                       FileOf(diskDir', diskData', f)),
         \A f \in Names : FileOf(InCore', diskData', f) = FileOf(InCore, diskData, f),
         crashes' = crashes
  PROVE  Store!Next
BY DEF Store!Next, Store!Flush, InCore

LEMMA CrashStep ==
  ASSUME \A f \in Names : FileOf(InCore', diskData', f) = FileOf(diskDir, diskData, f),
         \A f \in Names : FileOf(diskDir', diskData', f) = FileOf(diskDir, diskData, f),
         crashes' = crashes + 1
  PROVE  Store!Next
BY DEF Store!Next, Store!Crash, InCore

LEMMA StutterStep ==
  ASSUME \A f \in Names : FileOf(InCore', diskData', f) = FileOf(InCore, diskData, f),
         \A f \in Names : FileOf(diskDir', diskData', f) = FileOf(diskDir, diskData, f),
         crashes' = crashes
  PROVE  UNCHANGED Store!storeVars
BY DEF Store!storeVars, InCore

\* A file that has been copied up to pos is found as that beginning of its source.
LEMMA CopyShown ==
  ASSUME Aligned, NEW d \in [Slots -> Entry], Distinct(d), NEW data, NEW f \in Names,
         NEW length, NEW pos \in Nat, EntriesOf(d, f) # {}, Grown(d, f),
         Copied(d, data, f, length, pos)
  PROVE  FileOf(d, data, f) = [data |-> Store!Source(f, length, pos), ro |-> FALSE]
<1> DEFINE Y == pos \div ExtCap
<1>1. PICK i : First(d, f, i)
  BY Ends
<1>2. PICK l : Last(d, f, l)
  BY Ends
<1>3. /\ i \in EntriesOf(d, f) /\ l \in EntriesOf(d, f) /\ f # Absent /\ d[i].ro = FALSE
      /\ l \in Slots /\ d[l].name = f
  BY <1>1, <1>2, ConstantFacts DEF First, Last, Grown, EntriesOf, Entry
<1>4. Y \in Nat /\ ExtCap \in Nat /\ ExtCap > 0 /\ Extents \in Nat /\ Extents > 0
  BY PartOf, ConstantFacts, AlignedSizes
<1>5. ASSUME NEW k \in EntriesOf(d, f)
      PROVE  Part(d[k]) \in Nat /\ Part(d[l]) \in Nat /\ Part(d[k]) <= Part(d[l])
  <2>1. d[k].extno \in Nat /\ d[l].extno \in Nat /\ d[k].extno <= d[l].extno
    BY <1>2, <1>3 DEF Last, EntriesOf, Entry
  <2> QED
    BY <1>4, <2>1, QuotientGrows, Division DEF Part
<1>6. End(d[l]) = pos
  <2>1. CASE Part(d[l]) = Y
    BY <1>3, <2>1 DEF Copied
  <2>2. CASE Part(d[l]) # Y
    <3>1. Part(d[l]) \in Nat /\ Part(d[l]) <= Y
      BY <1>3, <1>5 DEF Copied
    <3>2. pos % ExtCap = 0
      <4> SUFFICES ASSUME pos % ExtCap # 0 PROVE FALSE
        OBVIOUS
      <4>1. PICK k \in EntriesOf(d, f) : Part(d[k]) = Y
        BY DEF Copied
      <4>2. Y <= Part(d[l])
        BY <1>5, <4>1
      <4> HIDE DEF Y
      <4> QED
        BY <1>4, <2>2, <3>1, <4>2
    <3>3. Y - 1 \in 0..Y - 1
      <4> HIDE DEF Y
      <4> QED
        BY <1>4, <2>2, <3>1
    <3>4. PICK k \in EntriesOf(d, f) :
            Part(d[k]) = Y - 1 /\ End(d[k]) = ((Y - 1) + 1) * ExtCap
      BY <3>3 DEF Copied, Full
    <3>5. Y - 1 <= Part(d[l])
      BY <1>5, <3>4
    <3>6. Part(d[l]) = Y - 1
      <4> HIDE DEF Y
      <4> QED
        BY <1>4, <2>2, <3>1, <3>5
    <3>7. k = l
      BY <1>3, <3>4, <3>6 DEF Distinct, EntriesOf
    <3>8. pos = Y * ExtCap
      <4>1. pos = (Y * ExtCap) + (pos % ExtCap)
        BY <1>4, Division
      <4> DEFINE c == Y * ExtCap
      <4>2. c \in Int
        <5> HIDE DEF Y
        <5> QED
          BY <1>4
      <4> HIDE DEF c
      <4> QED
        BY <3>2, <4>1, <4>2 DEF c
    <3>9. ((Y - 1) + 1) * ExtCap = Y * ExtCap
      <4> HIDE DEF Y
      <4>1. (Y - 1) + 1 = Y
        BY <1>4
      <4> QED
        BY <4>1
    <3> QED
      BY <3>4, <3>7, <3>8, <3>9
  <2> QED
    BY <2>1, <2>2
<1>7. ASSUME NEW u \in 1..pos PROVE UnitAt(d, data, f, u - 1) = << f, length, u - 1 >>
  <2> DEFINE v == u - 1
             y == v \div ExtCap
             p == (v % ExtCap) \div BlkSiz
  <2>1. v \in Nat /\ v \in 0..pos - 1 /\ v < pos
    OBVIOUS
  <2>2. PICK k \in EntriesOf(d, f) : Part(d[k]) = y
    <3>1. y \in Nat /\ y <= Y
      <4> HIDE DEF v
      <4>1. v \div ExtCap <= pos \div ExtCap
        BY <1>4, <2>1, QuotientGrows
      <4> QED
        BY <2>1, <4>1, PartOf
    <3>2. CASE y < Y
      <4>1. y \in 0..Y - 1
        <5> HIDE DEF y, Y
        <5> QED
          BY <1>4, <3>1, <3>2
      <4> HIDE DEF y
      <4> QED
        BY <4>1 DEF Copied, Full
    <3>3. CASE y = Y
      <4>1. pos % ExtCap # 0
        <5> SUFFICES ASSUME pos % ExtCap = 0 PROVE FALSE
          OBVIOUS
        <5>1. pos = (Y * ExtCap) + (pos % ExtCap)
          BY <1>4, Division
        <5>2. v = (y * ExtCap) + (v % ExtCap) /\ v % ExtCap \in Nat
          <6> HIDE DEF v
          <6> QED
            BY <1>4, <2>1, Division
        <5> DEFINE c == Y * ExtCap
                   s == v % ExtCap
        <5>3. c \in Int
          <6> HIDE DEF Y
          <6> QED
            BY <1>4
        <5>4. v = c + s /\ s \in Nat
          BY <3>3, <5>2
        <5>5. pos = c + 0
          BY <5>1
        <5> HIDE DEF c, s, v
        <5> QED
          BY <2>1, <5>3, <5>4, <5>5
      <4> QED
        BY <3>3, <4>1 DEF Copied
    <3> QED
      <4> HIDE DEF y, Y
      <4> QED
        BY <1>4, <3>1, <3>2, <3>3
  <2>3. Stored(d[k], data, f, length, v)
    <3> HIDE DEF v
    <3> QED
      BY <2>1, <2>2 DEF Copied
  <2>4. UnitAt(d, data, f, v)
        = IF d[k].pointers[p] = 0 THEN Zero ELSE data[d[k].pointers[p]][v % BlkSiz]
    <3> HIDE DEF v
    <3> QED
      BY <1>3, <2>1, <2>2, UnitShown
  <2> HIDE DEF v
  <2>5. UnitAt(d, data, f, v) = << f, length, v >>
    BY <2>3, <2>4 DEF Stored
  <2> QED
    BY <2>5 DEF v
<1> DEFINE F == [u \in 1..pos |-> UnitAt(d, data, f, u - 1)]
<1>8. FileOf(d, data, f) = [data |-> F, ro |-> FALSE]
  BY <1>1, <1>2, <1>3, <1>6, FileShown
<1>9. F = [u \in 1..pos |-> << f, length, u - 1 >>]
  BY <1>7
<1>10. F = Store!Source(f, length, pos)
  BY <1>9 DEF Store!Source
<1> HIDE DEF F
<1> QED
  BY <1>8, <1>10

\* The entries of a file that is being copied.
LEMMA CopyEntries ==
  ASSUME IInv, file # NoFile, NEW d, New(d, diskDir, synced), NEW i \in Slots,
         d[i].name = file.name, diskDir[i].name = Absent
  PROVE  EntriesOf(d, file.name) # {} /\ Grown(d, file.name)
<1>1. file.name # Absent
  BY DEF IInv, TypeOK
<1> QED
  BY <1>1 DEF New, EntriesOf

LEMMA CopyNow ==
  ASSUME Aligned, IInv, CleanInv, StoreInv, file # NoFile
  PROVE  /\ file.name \in Names
         /\ FileOf(dir, diskData, file.name)
            = [data |-> Store!Source(file.name, file.length, file.pos), ro |-> FALSE]
<1>1. /\ file \in Copy /\ file.pos \in Nat /\ file.name \in Names /\ tool = "cpmcp"
      /\ file.ino \in Slots /\ dir[file.ino].name = file.name /\ dir \in [Slots -> Entry]
      /\ Distinct(dir) /\ New(dir, diskDir, synced)
      /\ Copied(dir, diskData, file.name, file.length, file.pos)
  BY DEF IInv, TypeOK, Copy, CleanInv, Sound, StoreInv, FileAgreement, CopyInv
<1>2. diskDir[file.ino].name = Absent
  BY <1>1 DEF IInv, Agreement
<1>3. EntriesOf(dir, file.name) # {} /\ Grown(dir, file.name)
  BY <1>1, <1>2, CopyEntries
<1> QED
  BY <1>1, <1>3, CopyShown, ZenonT(40)

\* What is on the disk is as it was.
LEMMA SavedSame ==
  ASSUME Aligned, IInv, CleanInv, [Next]_fsVars, diskDir' = diskDir, NEW g \in Names
  PROVE  FileOf(diskDir', diskData', g) = FileOf(diskDir, diskData, g)
<1>1. diskDir \in [Slots -> Entry] /\ Distinct(diskDir) /\ g # Absent
      /\ InRange(diskDir)
  BY ConstantFacts DEF IInv, TypeOK, CleanInv, Sound, Ownership
<1>2. Alike(diskDir, diskDir, g)
  BY DEF Alike
<1>3. SameBlocks(diskDir, diskData, diskData', g)
  <2> SUFFICES ASSUME NEW i \in EntriesOf(diskDir, g), NEW p \in Ptr,
                      diskDir[i].pointers[p] # 0
               PROVE  diskData'[diskDir[i].pointers[p]] = diskData[diskDir[i].pointers[p]]
    BY DEF SameBlocks
  <2>1. i \in Slots \ Free(diskDir) /\ diskDir[i].pointers[p] \in BlocksOf(diskDir[i])
    BY <1>1 DEF EntriesOf, Free, BlocksOf, Entry, Ptr
  <2> QED
    BY <2>1, StepKeeps
<1> QED
  BY <1>1, <1>2, <1>3, SameFile

\* Other entries in the same blocks.
LEMMA OtherFile ==
  ASSUME Aligned, NEW d \in [Slots -> Entry], Distinct(d), NEW e \in [Slots -> Entry],
         Distinct(e), NEW data, NEW g \in Names,
         \A i \in Slots : d[i].name = g \/ e[i].name = g => e[i] = d[i]
  PROVE  FileOf(e, data, g) = FileOf(d, data, g)
<1>1. Alike(d, e, g) /\ SameBlocks(d, data, data, g) /\ \A i \in EntriesOf(d, g) : e[i].ro = d[i].ro
  BY DEF Alike, SameBlocks, EntriesOf
<1> QED
  BY <1>1, SameFile
-------------------------------------------------------------------------------
\* Each step of the file system is one of FileStore, or changes nothing there.
Maps == Store!Next \/ UNCHANGED Store!storeVars

LEMMA ReadSuperMaps ==
  ASSUME NEW t \in {"cpmcp", "cpmrm", "cpmchattr", "fsck.cpm"}, ReadSuper(t)
  PROVE  Maps
<1>1. InCore = diskDir /\ InCore' = diskDir /\ UNCHANGED << diskDir, diskData, crashes >>
  BY DEF ReadSuper, InCore, diskVars
<1>2. \A g \in Names : FileOf(InCore', diskData', g) = FileOf(InCore, diskData, g)
  BY <1>1
<1>3. \A g \in Names : FileOf(diskDir', diskData', g) = FileOf(diskDir, diskData, g)
  BY <1>1
<1> QED
  BY <1>1, <1>2, <1>3, StutterStep DEF Maps

LEMMA CreatMaps ==
  ASSUME Readable, IInv, CleanInv, StoreInv, NEW f \in Names, NEW length \in Lengths,
         Creat(f, length), IInv', CleanInv', StoreInv'
  PROVE  Maps
<1>1. /\ Aligned /\ tool = "cpmcp" /\ tool' = tool /\ f # Absent /\ EntriesOf(dir, f) = {}
      /\ dir \in [Slots -> Entry] /\ Distinct(dir) /\ dir' \in [Slots -> Entry]
      /\ Distinct(dir') /\ UNCHANGED << diskDir, diskData, crashes, synced >>
  BY ConstantFacts DEF Creat, Runs, diskVars, Readable, IInv, TypeOK, CleanInv, Sound
<1>2. PICK i \in Slots : /\ IsFirst(i, Free(dir)) /\ dir' = [dir EXCEPT ![i] = NewEntry(f)]
                         /\ file' = [NoFile EXCEPT !.name = f, !.ino = i, !.length = length]
  BY DEF Creat
<1>3. /\ dir'[i].name = f /\ dir[i].name = Absent /\ \A j \in Slots \ {i} : dir'[j] = dir[j]
  BY <1>1, <1>2 DEF IsFirst, Free, NewEntry
<1>4. InCore = dir /\ InCore' = dir'
  BY <1>1 DEF InCore
<1> DEFINE old == FileOf(dir, diskData, f)
           new == FileOf(dir', diskData', f)
<1>5. old = Absent
  BY <1>1, NoFileShown
<1>6. new = [data |-> << >>, ro |-> FALSE]
  <2>1. diskDir[i].name = Absent
    BY <1>1, <1>3 DEF IInv, Agreement
  <2>2. EntriesOf(dir', f) # {} /\ Grown(dir', f)
    <3>1. New(dir', diskDir, synced)
      BY <1>1 DEF StoreInv, FileAgreement
    <3> QED
      BY <1>1, <1>3, <2>1, <3>1 DEF New, EntriesOf
  <2>3. Copied(dir', diskData', f, length, 0)
    BY <1>1, CreatStore
  <2>4. new = [data |-> Store!Source(f, length, 0), ro |-> FALSE]
    <3> DEFINE z == 0
    <3>1. z \in Nat /\ Copied(dir', diskData', f, length, z)
      BY <2>3
    <3> HIDE DEF z
    <3>2. new = [data |-> Store!Source(f, length, z), ro |-> FALSE]
      BY <1>1, <2>2, <3>1, CopyShown
    <3> QED
      BY <3>2 DEF z
  <2>5. Store!Source(f, length, 0) = << >>
    BY DEF Store!Source
  <2> QED
    BY <2>4, <2>5
<1>7. ASSUME NEW g \in Names \ {f} PROVE FileOf(dir', diskData', g) = FileOf(dir, diskData, g)
  <2>1. \A j \in Slots : dir[j].name = g \/ dir'[j].name = g => dir'[j] = dir[j]
    BY <1>1, <1>3, ConstantFacts
  <2>2. FileOf(dir', diskData, g) = FileOf(dir, diskData, g)
    BY <1>1, <2>1, OtherFile
  <2> QED
    BY <1>1, <2>2
<1>8. Store!Create(old, new)
  BY <1>5, <1>6 DEF Store!Create
<1>9. \A g \in Names : FileOf(diskDir', diskData', g) = FileOf(diskDir, diskData, g)
  BY <1>1
<1> HIDE DEF old, new
<1>10. old = FileOf(InCore, diskData, f) /\ new = FileOf(InCore', diskData', f)
  BY <1>4 DEF old, new
<1>11. \A g \in Names \ {f} : FileOf(InCore', diskData', g) = FileOf(InCore, diskData, g)
  BY <1>4, <1>7
<1> QED
  BY <1>1, <1>8, <1>9, <1>10, <1>11, ChangeStep DEF Maps

LEMMA WriteMaps ==
  ASSUME Readable, RecordsDiffer, IInv, CleanInv, StoreInv, Write, IInv', CleanInv', StoreInv'
  PROVE  Maps
<1> DEFINE f == file.name
           length == file.length
<1>1. /\ Aligned /\ file # NoFile /\ file.pos < file.length /\ tool = "cpmcp" /\ tool' = tool
      /\ file \in Copy /\ file.pos \in Nat /\ f \in Names /\ f # Absent /\ Copying
      /\ dir \in [Slots -> Entry] /\ Distinct(dir) /\ dir' \in [Slots -> Entry]
      /\ Distinct(dir') /\ UNCHANGED << diskDir, crashes, synced >> /\ length \in Lengths
      /\ length \in Nat
  BY ConstantFacts DEF Write, WriteBlock, Readable, IInv, TypeOK, Copy, CleanInv, Sound,
                       StoreInv, Synced
<1>2. PICK n \in Counts, i \in Slots, b \in Blocks : WriteBlock(n, i, b)
  BY DEF Write
<1>3. /\ Stop(n) \in (file.pos + 1)..(file.pos + n) /\ IsFirst(i, ExtentSlots)
      /\ dir'[i].name = f /\ \A j \in Slots \ {i} : dir'[j] = dir[j]
  BY <1>1, <1>2, WriteEffect
<1>4. Stop(n) \in Nat /\ file.pos < Stop(n) /\ Stop(n) <= length
  <2>1. n \in Nat /\ file.pos + n <= length
    BY <1>1, Pass
  <2> QED
    BY <1>1, <1>3, <2>1
<1>5. InCore = dir /\ InCore' = dir'
  BY <1>1 DEF InCore
<1> DEFINE old == FileOf(dir, diskData, f)
           new == FileOf(dir', diskData', f)
           s == Store!Source(f, length, file.pos)
           t == Store!Source(f, length, Stop(n))
<1>6. old = [data |-> s, ro |-> FALSE]
  BY <1>1, CopyNow
<1>7. new = [data |-> t, ro |-> FALSE]
  <2>1. New(dir', diskDir, synced) /\ Copied(dir', diskData', f, length, Stop(n))
    BY <1>1, <1>2, WritePass
  <2>2. diskDir[i].name = Absent
    BY <1>1, <1>3, ExtentFacts
  <2>3. EntriesOf(dir', f) # {} /\ Grown(dir', f)
    BY <1>1, <1>3, <2>1, <2>2, CopyEntries
  <2> DEFINE stop == Stop(n)
             d == dir'
  <2>4. /\ stop \in Nat /\ Copied(d, diskData', f, length, stop)
        /\ EntriesOf(d, f) # {} /\ Grown(d, f) /\ d \in [Slots -> Entry] /\ Distinct(d)
    BY <1>1, <1>4, <2>1, <2>3
  <2> HIDE DEF stop, d, f, length
  <2>5. FileOf(d, diskData', f) = [data |-> Store!Source(f, length, stop), ro |-> FALSE]
    BY <1>1, <2>4, CopyShown
  <2> QED
    BY <2>5 DEF stop, d
<1>8. ASSUME NEW g \in Names \ {f} PROVE FileOf(dir', diskData', g) = FileOf(dir, diskData, g)
  <2>1. dir[i].name \in {f, Absent}
    BY <1>1, <1>3, ExtentFacts
  <2>2. g # Absent
    BY ConstantFacts
  <2>3. \A j \in Slots : dir[j].name = g \/ dir'[j].name = g => j # i /\ dir'[j] = dir[j]
    BY <1>3, <2>1, <2>2
  <2>4. Alike(dir, dir', g) /\ \A j \in EntriesOf(dir, g) : dir'[j].ro = dir[j].ro
    BY <2>3 DEF Alike, EntriesOf
  <2>5. SameBlocks(dir, diskData, diskData', g)
    <3> SUFFICES ASSUME NEW j \in EntriesOf(dir, g), NEW p \in Ptr, dir[j].pointers[p] # 0
                 PROVE  diskData'[dir[j].pointers[p]] = diskData[dir[j].pointers[p]]
      BY DEF SameBlocks
    <3>1. j \in Slots /\ dir[j].name # Absent /\ j # i
      BY <2>2, <2>3 DEF EntriesOf
    <3> QED
      BY <1>1, <1>2, <3>1, WriteElsewhere
  <2> QED
    BY <1>1, <2>4, <2>5, SameFile
<1>9. Store!Write(f, old, new)
  <2>1. Len(s) = file.pos /\ Len(t) = Stop(n)
    BY <1>1, <1>4 DEF Store!Source
  <2>2. old # Absent /\ new # Absent
    BY <1>6, <1>7 DEF RecordsDiffer
  <2>3. old.data = s /\ new.data = t /\ old.ro = FALSE /\ new.ro = FALSE
    BY <1>6, <1>7
  <2>4. Len(old.data) = file.pos /\ Len(new.data) = Stop(n)
    BY <2>1, <2>3
  <2>5. Len(new.data) <= length /\ Len(old.data) < Len(new.data)
        /\ old.data = Store!Source(f, length, Len(old.data))
        /\ new.data = Store!Source(f, length, Len(new.data))
    BY <1>4, <2>3, <2>4
  <2> HIDE DEF old, new, s, t, f, length
  <2> QED
    BY <1>1, <2>2, <2>3, <2>5 DEF Store!Write
<1>10. \A g \in Names : FileOf(diskDir', diskData', g) = FileOf(diskDir, diskData, g)
  BY <1>1, SavedSame DEF Next
<1> HIDE DEF old, new, f
<1>11. old = FileOf(InCore, diskData, f) /\ new = FileOf(InCore', diskData', f)
  BY <1>5 DEF old, new
<1>12. \A g \in Names \ {f} : FileOf(InCore', diskData', g) = FileOf(InCore, diskData, g)
  BY <1>5, <1>8
<1> QED
  BY <1>1, <1>9, <1>10, <1>11, <1>12, ChangeStep DEF Maps

LEMMA WriteFailsMaps ==
  ASSUME Readable, IInv, CleanInv, StoreInv, WriteFails, IInv', CleanInv'
  PROVE  Maps
<1> DEFINE f == file.name
<1>1. /\ Aligned /\ file # NoFile /\ tool = "cpmcp" /\ tool' = tool
      /\ file \in Copy /\ file.pos \in Nat /\ f \in Names /\ f # Absent
      /\ file.ino \in Slots /\ dir[file.ino].name = f
      /\ dir \in [Slots -> Entry] /\ Distinct(dir) /\ dir' \in [Slots -> Entry]
      /\ Distinct(dir') /\ UNCHANGED << diskDir, diskData, crashes >>
  BY DEF WriteFails, diskVars, Readable, IInv, TypeOK, Copy, CleanInv, Sound
<1>2. /\ New(dir', diskDir, synced) /\ Copied(dir', diskData, f, file.length, file.pos)
      /\ \A j \in Slots : dir'[j].name # f => dir'[j] = dir[j]
      /\ \A j \in Slots : dir[j].name # f /\ dir[j].name # Absent => dir'[j] = dir[j]
  BY <1>1, WriteFailsPart
<1>3. FileOf(dir', diskData, f) = FileOf(dir, diskData, f)
  <2>1. FileOf(dir, diskData, f) = [data |-> Store!Source(f, file.length, file.pos), ro |-> FALSE]
    BY <1>1, CopyNow
  <2>2. dir'[file.ino].name = f /\ diskDir[file.ino].name = Absent
    BY <1>1, <1>2 DEF IInv, Agreement
  <2>3. EntriesOf(dir', f) # {} /\ Grown(dir', f)
    BY <1>1, <1>2, <2>2, CopyEntries
  <2>4. FileOf(dir', diskData, f)
        = [data |-> Store!Source(f, file.length, file.pos), ro |-> FALSE]
    BY <1>1, <1>2, <2>3, CopyShown, ZenonT(40)
  <2> QED
    BY <2>1, <2>4
<1>4. ASSUME NEW g \in Names, g # f PROVE FileOf(dir', diskData, g) = FileOf(dir, diskData, g)
  <2>1. \A j \in Slots : dir[j].name = g \/ dir'[j].name = g => dir'[j] = dir[j]
    BY <1>2, <1>4, ConstantFacts
  <2> QED
    BY <1>1, <2>1, OtherFile
<1>5. InCore = dir /\ InCore' = dir'
  BY <1>1 DEF InCore
<1>6. \A g \in Names : FileOf(InCore', diskData', g) = FileOf(InCore, diskData, g)
  BY <1>1, <1>3, <1>4, <1>5
<1>7. \A g \in Names : FileOf(diskDir', diskData', g) = FileOf(diskDir, diskData, g)
  BY <1>1
<1> QED
  BY <1>1, <1>6, <1>7, StutterStep DEF Maps

LEMMA UnlinkMaps ==
  ASSUME Readable, RecordsDiffer, IInv, CleanInv, NEW f \in Names, Unlink(f), IInv', CleanInv'
  PROVE  Maps
<1>1. /\ Aligned /\ tool = "cpmrm" /\ tool' = tool /\ f # Absent /\ EntriesOf(dir, f) # {}
      /\ dir \in [Slots -> Entry] /\ Distinct(dir) /\ dir' \in [Slots -> Entry]
      /\ Distinct(dir') /\ UNCHANGED << diskDir, diskData, crashes >>
      /\ dir' = [i \in Slots |-> IF dir[i].name = f THEN FreeEntry ELSE dir[i]]
  BY ConstantFacts DEF Unlink, Runs, diskVars, Readable, IInv, TypeOK, CleanInv, Sound
<1>2. \A i \in Slots : dir'[i].name # f /\ dir'[i].name \in {dir[i].name, Absent}
                       /\ (dir[i].name # f => dir'[i] = dir[i])
  BY <1>1 DEF FreeEntry, NewEntry
<1>3. InCore = dir /\ InCore' = dir'
  BY <1>1 DEF InCore
<1> DEFINE old == FileOf(dir, diskData, f)
           new == FileOf(dir', diskData', f)
<1>4. old # Absent
  <2>1. PICK i : First(dir, f, i)
    BY <1>1, Ends
  <2>2. PICK l : Last(dir, f, l)
    BY <1>1, Ends
  <2> QED
    BY <1>1, <2>1, <2>2, FileShown DEF RecordsDiffer
<1>5. new = Absent
  <2>1. EntriesOf(dir', f) = {}
    BY <1>2 DEF EntriesOf
  <2> QED
    BY <2>1, NoFileShown
<1>6. ASSUME NEW g \in Names \ {f} PROVE FileOf(dir', diskData', g) = FileOf(dir, diskData, g)
  <2>1. \A j \in Slots : dir[j].name = g \/ dir'[j].name = g => dir'[j] = dir[j]
    BY <1>1, <1>2, ConstantFacts
  <2>2. FileOf(dir', diskData, g) = FileOf(dir, diskData, g)
    BY <1>1, <2>1, OtherFile
  <2> QED
    BY <1>1, <2>2
<1>7. Store!Erase(old, new)
  BY <1>4, <1>5 DEF Store!Erase
<1>8. \A g \in Names : FileOf(diskDir', diskData', g) = FileOf(diskDir, diskData, g)
  BY <1>1
<1> HIDE DEF old, new
<1>9. old = FileOf(InCore, diskData, f) /\ new = FileOf(InCore', diskData', f)
  BY <1>3 DEF old, new
<1>10. \A g \in Names \ {f} : FileOf(InCore', diskData', g) = FileOf(InCore, diskData, g)
  BY <1>3, <1>6
<1> QED
  BY <1>1, <1>7, <1>8, <1>9, <1>10, ChangeStep DEF Maps

LEMMA AttrSetMaps ==
  ASSUME Readable, RecordsDiffer, IInv, CleanInv, NEW f \in Names, NEW ro \in BOOLEAN,
         AttrSet(f, ro), IInv', CleanInv'
  PROVE  Maps
<1>1. /\ Aligned /\ tool = "cpmchattr" /\ tool' = tool /\ f # Absent
      /\ dir \in [Slots -> Entry] /\ Distinct(dir) /\ dir' \in [Slots -> Entry]
      /\ Distinct(dir') /\ UNCHANGED << diskDir, diskData, crashes >>
  BY ConstantFacts DEF AttrSet, Runs, diskVars, Readable, IInv, TypeOK, CleanInv, Sound
<1>2. PICK i \in Slots :
        /\ dir[i].name = f
        /\ dir' = [j \in Slots |-> IF j >= i /\ dir[j].name = f THEN [dir[j] EXCEPT !.ro = ro]
                                   ELSE dir[j]]
  BY DEF AttrSet, Listed
<1>3. /\ Alike(dir, dir', f) /\ SameBlocks(dir, diskData, diskData', f)
      /\ EntriesOf(dir, f) # {} /\ EntriesOf(dir', f) # {}
      /\ \A j \in Slots : dir'[j].name = dir[j].name /\ (dir[j].name # f => dir'[j] = dir[j])
  <2>1. \A j \in Slots :
          /\ dir'[j].name = dir[j].name /\ dir'[j].extno = dir[j].extno
          /\ dir'[j].blkcnt = dir[j].blkcnt /\ dir'[j].lrc = dir[j].lrc
          /\ dir'[j].pointers = dir[j].pointers
          /\ (dir[j].name # f => dir'[j] = dir[j])
    BY <1>1, <1>2 DEF Entry
  <2> QED
    BY <1>1, <1>2, <2>1 DEF Alike, SameBlocks, EntriesOf
<1>4. InCore = dir /\ InCore' = dir'
  BY <1>1 DEF InCore
<1> DEFINE old == FileOf(dir, diskData, f)
           new == FileOf(dir', diskData', f)
<1>5. old # Absent /\ new # Absent
  <2>1. ASSUME NEW d \in [Slots -> Entry], Distinct(d), EntriesOf(d, f) # {}, NEW data
        PROVE  FileOf(d, data, f) # Absent
    <3>1. PICK k : First(d, f, k)
      BY <2>1, Ends
    <3>2. PICK l : Last(d, f, l)
      BY <2>1, Ends
    <3> QED
      BY <2>1, <3>1, <3>2, FileShown DEF RecordsDiffer
  <2> QED
    BY <1>1, <1>3, <2>1
<1>6. new.data = old.data
  BY <1>1, <1>3, SameFile
<1>7. ASSUME NEW g \in Names \ {f} PROVE FileOf(dir', diskData', g) = FileOf(dir, diskData, g)
  <2>1. \A j \in Slots : dir[j].name = g \/ dir'[j].name = g => dir'[j] = dir[j]
    BY <1>3
  <2>2. FileOf(dir', diskData, g) = FileOf(dir, diskData, g)
    BY <1>1, <2>1, OtherFile
  <2> QED
    BY <1>1, <2>2
<1>8. \A g \in Names : FileOf(diskDir', diskData', g) = FileOf(diskDir, diskData, g)
  BY <1>1
<1> HIDE DEF old, new
<1>9. Store!Protect(old, new)
  BY <1>5, <1>6 DEF Store!Protect
<1>10. old = FileOf(InCore, diskData, f) /\ new = FileOf(InCore', diskData', f)
  BY <1>4 DEF old, new
<1>11. \A g \in Names \ {f} : FileOf(InCore', diskData', g) = FileOf(InCore, diskData, g)
  BY <1>4, <1>7
<1> QED
  BY <1>1, <1>8, <1>9, <1>10, <1>11, ChangeStep DEF Maps

\* One file is a beginning of another.
Begins(x, y) ==
  \E m, n \in Nat : \E s :
    /\ m <= n /\ s = [u \in 1..n |-> s[u]]
    /\ x = [data |-> [u \in 1..m |-> s[u]], ro |-> FALSE]
    /\ y = [data |-> s, ro |-> FALSE]

LEMMA BeginsPrefix ==
  ASSUME RecordsDiffer, NEW x, NEW y, Begins(x, y)
  PROVE  /\ x # Absent /\ y # Absent
         /\ Len(x.data) <= Len(y.data) /\ Store!IsPrefix(x.data, y.data)
<1>1. PICK m, n \in Nat : \E s :
        /\ m <= n /\ s = [u \in 1..n |-> s[u]]
        /\ x = [data |-> [u \in 1..m |-> s[u]], ro |-> FALSE]
        /\ y = [data |-> s, ro |-> FALSE]
  BY DEF Begins
<1>2. PICK s :
        /\ m <= n /\ s = [u \in 1..n |-> s[u]]
        /\ x = [data |-> [u \in 1..m |-> s[u]], ro |-> FALSE]
        /\ y = [data |-> s, ro |-> FALSE]
  BY <1>1
<1> DEFINE t == [u \in 1..m |-> s[u]]
<1>3. x.data = t /\ y.data = s
  BY <1>2
<1>4. Len(t) = m /\ Len(s) = n
  BY <1>2
<1>5. SubSeq(t, 1, m) = SubSeq(s, 1, m)
  BY <1>2
<1> HIDE DEF t
<1>6. x # Absent /\ y # Absent
  BY <1>2 DEF RecordsDiffer
<1> QED
  BY <1>2, <1>3, <1>4, <1>5, <1>6 DEF Store!IsPrefix

\* A file between two that are the same is the same, too.
LEMMA BeginsBetween ==
  ASSUME NEW x, NEW y, Begins(x, y), Begins(y, x)
  PROVE  y = x
<1>1. PICK m, n \in Nat : \E s :
        /\ m <= n /\ s = [u \in 1..n |-> s[u]]
        /\ x = [data |-> [u \in 1..m |-> s[u]], ro |-> FALSE]
        /\ y = [data |-> s, ro |-> FALSE]
  BY DEF Begins
<1>2. PICK s :
        /\ m <= n /\ s = [u \in 1..n |-> s[u]]
        /\ x = [data |-> [u \in 1..m |-> s[u]], ro |-> FALSE]
        /\ y = [data |-> s, ro |-> FALSE]
  BY <1>1
<1>3. PICK p, q \in Nat : \E t :
        /\ p <= q /\ t = [u \in 1..q |-> t[u]]
        /\ y = [data |-> [u \in 1..p |-> t[u]], ro |-> FALSE]
        /\ x = [data |-> t, ro |-> FALSE]
  BY DEF Begins
<1>4. PICK t :
        /\ p <= q /\ t = [u \in 1..q |-> t[u]]
        /\ y = [data |-> [u \in 1..p |-> t[u]], ro |-> FALSE]
        /\ x = [data |-> t, ro |-> FALSE]
  BY <1>3
<1>5. t = [u \in 1..m |-> s[u]] /\ s = [u \in 1..p |-> t[u]]
  <2> DEFINE S == [u \in 1..m |-> s[u]]
             T == [u \in 1..p |-> t[u]]
  <2>1. x = [data |-> S, ro |-> FALSE] /\ y = [data |-> s, ro |-> FALSE]
    BY <1>2
  <2>2. y = [data |-> T, ro |-> FALSE] /\ x = [data |-> t, ro |-> FALSE]
    BY <1>4
  <2> HIDE DEF S, T
  <2>3. x.data = S /\ y.data = s
    BY ONLY <2>1
  <2>4. x.data = t /\ y.data = T
    BY ONLY <2>2
  <2> QED
    BY <2>3, <2>4 DEF S, T
<1>6. 1..m = 1..q /\ 1..n = 1..p
  <2>1. DOMAIN t = 1..q /\ DOMAIN t = 1..m /\ DOMAIN s = 1..n /\ DOMAIN s = 1..p
    BY <1>2, <1>4, <1>5
  <2> QED
    BY <2>1
<1>7. m = q /\ n = p
  <2>1. ASSUME NEW a \in Nat, NEW b \in Nat, 1..a = 1..b PROVE a <= b
    BY <2>1
  <2> QED
    BY <1>6, <2>1
<1>8. m = n
  BY <1>2, <1>4, <1>7
<1> QED
  BY <1>2, <1>8

\* A part of the entries of a file, those that come first, make a beginning of it.
LEMMA Beginning ==
  ASSUME Aligned, NEW d \in [Slots -> Entry], Distinct(d), NEW e \in [Slots -> Entry],
         Distinct(e), NEW data, NEW f \in Names, EntriesOf(d, f) # {}, Grown(e, f),
         \A i \in EntriesOf(d, f) : i \in EntriesOf(e, f) /\ e[i] = d[i],
         \A i \in EntriesOf(d, f), j \in EntriesOf(e, f) : j < i => j \in EntriesOf(d, f)
  PROVE  Begins(FileOf(d, data, f), FileOf(e, data, f))
<1>1. PICK i : First(d, f, i)
  BY Ends
<1>2. PICK l : Last(d, f, l)
  BY Ends
<1>3. EntriesOf(e, f) # {}
  BY <1>1 DEF First
<1>4. PICK j : First(e, f, j)
  BY <1>3, Ends
<1>5. PICK k : Last(e, f, k)
  BY <1>3, Ends
<1>6. /\ i \in EntriesOf(d, f) /\ l \in EntriesOf(d, f) /\ l \in EntriesOf(e, f)
      /\ j \in EntriesOf(e, f) /\ k \in EntriesOf(e, f) /\ f # Absent
      /\ l \in Slots /\ k \in Slots /\ e[l] = d[l]
  BY <1>1, <1>2, <1>4, <1>5, ConstantFacts DEF First, Last, EntriesOf
<1>7. d[i].ro = FALSE /\ e[j].ro = FALSE
  BY <1>6 DEF Grown, EntriesOf, Entry
<1>8. ExtCap \in Nat /\ ExtCap > 0 /\ Extents \in Nat /\ Extents > 0
  BY ConstantFacts, AlignedSizes
<1> DEFINE m == End(d[l])
           n == End(e[k])
<1>9. m \in Nat /\ n \in Nat
  BY <1>6, EndType
<1>10. \A x \in EntriesOf(e, f) : Part(e[x]) \in Nat
  <2>1. \A x \in EntriesOf(e, f) : e[x].extno \in Nat
    BY DEF EntriesOf, Entry
  <2> QED
    BY <1>8, <2>1, Division DEF Part
\* An entry that is missing comes after the end of what is there.
<1>11. ASSUME NEW x \in EntriesOf(e, f), x \notin EntriesOf(d, f)
       PROVE  m <= Part(e[x]) * ExtCap
  <2>1. x \in Slots /\ l < x
    <3>1. x \in Int /\ l \in Int /\ ~ x < l /\ x # l
      BY <1>6, <1>11 DEF EntriesOf, Slots
    <3> QED
      BY <3>1 DEF EntriesOf
  <2>2. Part(e[l]) < Part(e[x]) /\ End(e[l]) <= (Part(e[l]) + 1) * ExtCap
    BY <1>6, <2>1 DEF Grown
  <2> DEFINE a == Part(e[l])
             b == Part(e[x])
  <2>3. a \in Nat /\ b \in Nat /\ a < b
    BY <1>6, <1>10, <2>2
  <2>4. m <= (a + 1) * ExtCap
    BY <1>6, <2>2
  <2> HIDE DEF a, b, m
  <2>5. a + 1 <= b /\ a + 1 \in Int
    BY <2>3
  <2>6. (a + 1) * ExtCap <= b * ExtCap
    BY <1>8, <2>3, <2>5, Monotone
  <2>7. (a + 1) * ExtCap \in Int /\ b * ExtCap \in Int
    BY <1>8, <2>3
  <2>8. m <= b * ExtCap
    BY <1>9, <2>4, <2>6, <2>7
  <2> QED
    BY <2>8 DEF b
<1>12. m <= n
  <2>1. CASE k \in EntriesOf(d, f)
    <3>1. d[k].extno = d[l].extno
      <4>1. d[k] = e[k] /\ d[k].extno <= d[l].extno /\ e[l].extno <= e[k].extno
        BY <1>2, <1>5, <1>6, <2>1 DEF Last
      <4>2. d[k].extno \in Nat /\ d[l].extno \in Nat
        BY <1>6 DEF Entry
      <4> QED
        BY <1>6, <4>1, <4>2
    <3>2. k = l
      BY <1>6, <2>1, <3>1, OneExtent
    <3>3. m = n
      BY <1>6, <3>2
    <3> HIDE DEF m, n
    <3> QED
      BY <1>9, <3>3
  <2>2. CASE k \notin EntriesOf(d, f)
    <3>1. m <= Part(e[k]) * ExtCap
      BY <1>6, <1>11, <2>2
    <3>2. Part(e[k]) * ExtCap <= n
      BY <1>6 DEF Grown
    <3>3. Part(e[k]) * ExtCap \in Int
      <4>1. Part(e[k]) \in Nat
        BY <1>6, <1>10
      <4> QED
        BY <1>8, <4>1
    <3> DEFINE c == Part(e[k]) * ExtCap
    <3> HIDE DEF m, n, c
    <3> QED
      BY <1>9, <3>1, <3>2, <3>3 DEF c
  <2> QED
    BY <2>1, <2>2
<1>13. ASSUME NEW u \in Nat, u < m PROVE UnitAt(d, data, f, u) = UnitAt(e, data, f, u)
  <2>1. CASE \E x \in EntriesOf(d, f) : Part(d[x]) = u \div ExtCap
    <3>1. PICK x \in EntriesOf(d, f) : Part(d[x]) = u \div ExtCap
      BY <2>1
    <3>2. x \in EntriesOf(e, f) /\ e[x] = d[x] /\ Part(e[x]) = u \div ExtCap
      BY <3>1
    <3> DEFINE b == d[x].pointers[(u % ExtCap) \div BlkSiz]
    <3>3. UnitAt(d, data, f, u) = IF b = 0 THEN Zero ELSE data[b][u % BlkSiz]
      BY <1>6, <3>1, UnitShown
    <3>4. UnitAt(e, data, f, u)
          = IF e[x].pointers[(u % ExtCap) \div BlkSiz] = 0 THEN Zero
            ELSE data[e[x].pointers[(u % ExtCap) \div BlkSiz]][u % BlkSiz]
      BY <1>6, <3>2, UnitShown
    <3> QED
      BY <3>2, <3>3, <3>4
  <2>2. CASE ~ \E x \in EntriesOf(d, f) : Part(d[x]) = u \div ExtCap
    <3>1. ASSUME NEW x \in EntriesOf(e, f), Part(e[x]) = u \div ExtCap PROVE FALSE
      <4>1. x \notin EntriesOf(d, f)
        BY <2>2, <3>1
      <4>2. m <= (u \div ExtCap) * ExtCap
        BY <1>11, <3>1, <4>1
      <4>3. u = ((u \div ExtCap) * ExtCap) + (u % ExtCap) /\ u % ExtCap \in Nat
            /\ u \div ExtCap \in Nat
        BY <1>8, Division
      <4>4. (u \div ExtCap) * ExtCap \in Int
        <5> DEFINE a == u \div ExtCap
        <5>1. a \in Nat
          BY <4>3
        <5> HIDE DEF a
        <5>2. a * ExtCap \in Int
          BY <1>8, <5>1
        <5> QED
          BY <5>2 DEF a
      <4> DEFINE c == (u \div ExtCap) * ExtCap
                 r == u % ExtCap
      <4>5. m <= c /\ u = c + r /\ r \in Nat /\ c \in Int
        BY <4>2, <4>3, <4>4
      <4> HIDE DEF c, r, m
      <4> QED
        BY <1>9, <1>13, <4>5
    <3>2. \A x \in EntriesOf(e, f) : Part(e[x]) # u \div ExtCap
      BY <3>1
    <3>3. \A x \in EntriesOf(d, f) : Part(d[x]) # u \div ExtCap
      BY <2>2
    <3>4. UnitAt(e, data, f, u) = Zero
      BY <3>2, NoUnit
    <3>5. UnitAt(d, data, f, u) = Zero
      BY <3>3, NoUnit
    <3> QED
      BY <3>4, <3>5
  <2> QED
    BY <2>1, <2>2
<1> DEFINE S == [u \in 1..n |-> UnitAt(e, data, f, u - 1)]
           D == [u \in 1..m |-> UnitAt(d, data, f, u - 1)]
<1>14. FileOf(e, data, f) = [data |-> S, ro |-> FALSE]
  BY <1>4, <1>5, <1>7, FileShown
<1>15. FileOf(d, data, f) = [data |-> D, ro |-> FALSE]
  BY <1>1, <1>2, <1>7, FileShown
<1>16. D = [u \in 1..m |-> S[u]]
  <2> HIDE DEF m, n
  <2>1. \A u \in 1..m : u \in 1..n /\ u - 1 \in Nat /\ u - 1 < m
    BY <1>9, <1>12
  <2>2. \A u \in 1..m : S[u] = UnitAt(e, data, f, u - 1)
    BY <2>1
  <2>3. \A u \in 1..m : UnitAt(d, data, f, u - 1) = UnitAt(e, data, f, u - 1)
    BY <1>13, <2>1
  <2> QED
    BY <2>2, <2>3
<1>17. S = [u \in 1..n |-> S[u]]
  OBVIOUS
<1> HIDE DEF S, D, m, n
<1>18. FileOf(d, data, f) = [data |-> [u \in 1..m |-> S[u]], ro |-> FALSE]
  BY <1>15, <1>16
<1> QED
  BY <1>9, <1>12, <1>14, <1>17, <1>18, Zenon DEF Begins

\* Entries that are taken from a file that is new.
LEMMA GrownPart ==
  ASSUME NEW d, NEW e, NEW f, Grown(e, f),
         \A i \in EntriesOf(d, f) : i \in EntriesOf(e, f) /\ e[i] = d[i]
  PROVE  Grown(d, f)
BY DEF Grown

LEMMA IsFile ==
  ASSUME RecordsDiffer, NEW d \in [Slots -> Entry], Distinct(d), NEW data, NEW f \in Names,
         EntriesOf(d, f) # {}
  PROVE  FileOf(d, data, f) # Absent
<1>1. PICK i : First(d, f, i)
  BY Ends
<1>2. PICK l : Last(d, f, l)
  BY Ends
<1> QED
  BY <1>1, <1>2, FileShown DEF RecordsDiffer

\* cpmSync after cpmchattr: the files keep their data.
LEMMA SyncAttributes ==
  ASSUME Aligned, RecordsDiffer, NEW data, NEW f \in Names,
         NEW d \in [Slots -> Entry], Distinct(d), NEW c \in [Slots -> Entry], Distinct(c),
         NEW e \in [Slots -> Entry], Distinct(e), Alike(d, c, f), Alike(d, e, f),
         \A i \in Slots : c[i].ro \in {d[i].ro, e[i].ro}
  PROVE  Store!Settle(FileOf(e, data, f), FileOf(d, data, f), FileOf(c, data, f))
<1>1. EntriesOf(c, f) = EntriesOf(d, f) /\ EntriesOf(e, f) = EntriesOf(d, f)
  BY DEF EntriesOf, Alike
<1>2. CASE EntriesOf(d, f) = {}
  BY <1>1, <1>2, NoFileShown DEF Store!Settle
<1>3. CASE EntriesOf(d, f) # {}
  <2>1. PICK i : First(d, f, i)
    BY <1>3, Ends
  <2>2. PICK l : Last(d, f, l)
    BY <1>3, Ends
  <2>3. /\ First(c, f, i) /\ Last(c, f, l) /\ First(e, f, i) /\ Last(e, f, l)
    BY <1>1, <2>1, <2>2 DEF First, Last, EntriesOf, Alike
  <2>4. i \in Slots /\ End(d[l]) \in Nat
    BY <2>1, <2>2, EndType DEF First, Last, EntriesOf
  <2> DEFINE D == [u \in 1..End(d[l]) |-> UnitAt(d, data, f, u - 1)]
  <2>5. FileOf(d, data, f) = [data |-> D, ro |-> d[i].ro]
    BY <2>1, <2>2, FileShown
  <2>6. Len(D) = End(d[l]) /\ D = [u \in 1..Len(D) |-> D[u]]
    BY <2>4
  <2>7. SameBlocks(d, data, data, f)
    BY DEF SameBlocks
  <2>8. FileOf(c, data, f) = [data |-> D, ro |-> c[i].ro]
    <3> DEFINE C == [u \in 1..End(c[l]) |-> UnitAt(c, data, f, u - 1)]
    <3>1. FileOf(c, data, f) = [data |-> C, ro |-> c[i].ro]
      BY <2>3, FileShown
    <3>2. FileOf(c, data, f).data = FileOf(d, data, f).data
      BY <1>3, <2>7, SameFile
    <3> HIDE DEF C, D
    <3>3. C = D
      BY <2>5, <3>1, <3>2
    <3> QED
      BY <3>1, <3>3
  <2>9. FileOf(e, data, f) = [data |-> D, ro |-> e[i].ro]
    <3> DEFINE E == [u \in 1..End(e[l]) |-> UnitAt(e, data, f, u - 1)]
    <3>1. FileOf(e, data, f) = [data |-> E, ro |-> e[i].ro]
      BY <2>3, FileShown
    <3>2. FileOf(e, data, f).data = FileOf(d, data, f).data
      BY <1>3, <2>7, SameFile
    <3> HIDE DEF D, E
    <3>3. E = D
      BY <2>5, <3>1, <3>2
    <3> QED
      BY <3>1, <3>3
  <2> DEFINE goal == FileOf(e, data, f)
             old == FileOf(d, data, f)
             new == FileOf(c, data, f)
  <2>10. Len(D) \in Nat
    BY <2>4, <2>6
  <2> HIDE DEF D
  <2>11. goal = old => new = old
    <3> SUFFICES ASSUME goal = old PROVE new = old
      OBVIOUS
    <3>1. goal.ro = e[i].ro /\ old.ro = d[i].ro
      BY <2>5, <2>9
    <3>2. c[i].ro = d[i].ro
      BY <2>4, <3>1
    <3> QED
      BY <2>5, <2>8, <3>2
  <2>12. new # Absent /\ new.data = D /\ goal.data = D /\ old.data = D
    <3>1. new # Absent
      BY <2>8 DEF RecordsDiffer
    <3>2. new.data = D
      BY <2>8
    <3>3. goal.data = D
      BY <2>9
    <3>4. old.data = D
      BY <2>5
    <3> QED
      BY <3>1, <3>2, <3>3, <3>4
  <2> HIDE DEF goal, old, new
  <2>13. Store!IsPrefix(new.data, goal.data) /\ Len(old.data) <= Len(new.data)
    BY <2>10, <2>12 DEF Store!IsPrefix
  <2>14. Store!Settle(goal, old, new)
    BY <2>11, <2>12, <2>13 DEF Store!Settle
  <2> QED
    BY <2>14 DEF goal, old, new
<1> QED
  BY <1>2, <1>3

\* cpmSync after cpmcp: a file that is new has its first entries on the disk.
LEMMA SyncGrown ==
  ASSUME Aligned, RecordsDiffer, NEW data, NEW f \in Names,
         NEW d \in [Slots -> Entry], Distinct(d), NEW c \in [Slots -> Entry], Distinct(c),
         NEW e \in [Slots -> Entry], Distinct(e), Grown(e, f), EntriesOf(e, f) # {},
         NEW n \in Nat,
         \A i \in Slots : d[i].name = f => i \div EntriesPerBlock < n,
         \A i \in Slots : i \div EntriesPerBlock < n => d[i] = e[i],
         \A i \in Slots : c[i] = IF i \div EntriesPerBlock = n THEN e[i] ELSE d[i]
  PROVE  Store!Settle(FileOf(e, data, f), FileOf(d, data, f), FileOf(c, data, f))
<1> DEFINE B(i) == i \div EntriesPerBlock
           goal == FileOf(e, data, f)
           old == FileOf(d, data, f)
           new == FileOf(c, data, f)
<1>1. \A i \in Slots : B(i) \in Nat
  BY SlotBlock
<1>2. \A i, j \in Slots : j < i => B(j) <= B(i)
  <2> SUFFICES ASSUME NEW i \in Slots, NEW j \in Slots, j < i PROVE B(j) <= B(i)
    OBVIOUS
  <2>1. i \in Nat /\ j \in Nat /\ j <= i /\ EntriesPerBlock \in Nat /\ EntriesPerBlock > 0
    BY FormatAssumption, ConstantFacts DEF Slots
  <2> QED
    BY <2>1, QuotientGrows
<1>3. ASSUME NEW i \in EntriesOf(d, f)
      PROVE  /\ i \in Slots /\ B(i) < n /\ d[i] = e[i] /\ i \in EntriesOf(e, f)
             /\ c[i] = d[i] /\ i \in EntriesOf(c, f)
  <2>1. i \in Slots /\ d[i].name = f
    BY DEF EntriesOf
  <2>2. B(i) < n /\ B(i) # n
    BY <1>1, <2>1
  <2> QED
    BY <2>1, <2>2 DEF EntriesOf
<1>4. ASSUME NEW i \in EntriesOf(c, f)
      PROVE  i \in Slots /\ B(i) <= n /\ c[i] = e[i] /\ i \in EntriesOf(e, f)
  <2>1. i \in Slots /\ c[i].name = f
    BY DEF EntriesOf
  <2>2. CASE B(i) = n
    <3>1. c[i] = e[i]
      BY <2>1, <2>2
    <3> QED
      BY <1>1, <2>1, <2>2, <3>1 DEF EntriesOf
  <2>3. CASE B(i) # n
    <3>1. i \in EntriesOf(d, f) /\ c[i] = d[i]
      BY <2>1, <2>3 DEF EntriesOf
    <3>2. B(i) < n
      BY <1>3, <3>1
    <3>3. B(i) <= n
      BY <1>1, <2>1, <3>2
    <3> QED
      BY <1>3, <3>1, <3>3
  <2> QED
    BY <2>2, <2>3
<1>5. \A i \in EntriesOf(d, f), j \in EntriesOf(e, f) : j < i => j \in EntriesOf(d, f)
  <2> SUFFICES ASSUME NEW i \in EntriesOf(d, f), NEW j \in EntriesOf(e, f), j < i
               PROVE  j \in EntriesOf(d, f)
    OBVIOUS
  <2>1. j \in Slots /\ e[j].name = f
    BY DEF EntriesOf
  <2>2. B(j) < n
    <3>1. i \in Slots /\ B(i) < n /\ B(j) <= B(i) /\ B(i) \in Nat /\ B(j) \in Nat
      BY <1>1, <1>2, <1>3, <2>1
    <3> HIDE DEF B
    <3> QED
      BY <3>1
  <2>3. d[j] = e[j]
    BY <2>1, <2>2
  <2> QED
    BY <2>1, <2>3 DEF EntriesOf
<1>6. \A i \in EntriesOf(c, f), j \in EntriesOf(e, f) : j < i => j \in EntriesOf(c, f)
  <2> SUFFICES ASSUME NEW i \in EntriesOf(c, f), NEW j \in EntriesOf(e, f), j < i
               PROVE  j \in EntriesOf(c, f)
    OBVIOUS
  <2>1. j \in Slots /\ e[j].name = f
    BY DEF EntriesOf
  <2>2. B(j) < n \/ B(j) = n
    <3>1. i \in Slots /\ B(i) <= n /\ B(j) <= B(i) /\ B(i) \in Nat /\ B(j) \in Nat
      BY <1>1, <1>2, <1>4, <2>1
    <3> HIDE DEF B
    <3> QED
      BY <3>1
  <2>3. c[j] = e[j]
    BY <2>1, <2>2
  <2> QED
    BY <2>1, <2>3 DEF EntriesOf
<1>7. CASE EntriesOf(c, f) = {}
  <2>1. EntriesOf(d, f) = {}
    BY <1>3, <1>7
  <2>2. old = Absent /\ new = Absent
    BY <1>7, <2>1, NoFileShown
  <2> HIDE DEF goal, old, new
  <2>3. Store!Settle(goal, old, new)
    BY <2>2 DEF Store!Settle
  <2> QED
    BY <2>3 DEF goal, old, new
<1>8. CASE EntriesOf(c, f) # {}
  <2>1. Begins(new, goal)
    <3>1. \A i \in EntriesOf(c, f) : i \in EntriesOf(e, f) /\ e[i] = c[i]
      BY <1>4
    <3> QED
      BY <1>6, <1>8, <3>1, Beginning
  <2>2. CASE EntriesOf(d, f) = {}
    <3>1. old = Absent /\ goal # Absent
      BY <2>2, NoFileShown, IsFile
    <3> HIDE DEF goal, old, new
    <3>2. new # Absent /\ Store!IsPrefix(new.data, goal.data)
      BY <2>1, BeginsPrefix
    <3>3. Store!Settle(goal, old, new)
      BY <3>1, <3>2 DEF Store!Settle
    <3> QED
      BY <3>3 DEF goal, old, new
  <2>3. CASE EntriesOf(d, f) # {}
    <3>1. Begins(old, new)
      <4>1. Grown(c, f)
        <5>1. \A i \in EntriesOf(c, f) : i \in EntriesOf(e, f) /\ e[i] = c[i]
          BY <1>4
        <5> QED
          BY <5>1, GrownPart
      <4>2. \A i \in EntriesOf(d, f) : i \in EntriesOf(c, f) /\ c[i] = d[i]
        BY <1>3
      <4>3. \A i \in EntriesOf(d, f), j \in EntriesOf(c, f) : j < i => j \in EntriesOf(d, f)
        BY <1>4, <1>5
      <4> QED
        BY <2>3, <4>1, <4>2, <4>3, Beginning
    <3> HIDE DEF goal, old, new
    <3>2. old = goal => new = old
      BY <2>1, <3>1, BeginsBetween
    <3>3. new # Absent /\ Store!IsPrefix(new.data, goal.data) /\ Len(old.data) <= Len(new.data)
      BY <2>1, <3>1, BeginsPrefix
    <3>4. Store!Settle(goal, old, new)
      BY <3>2, <3>3 DEF Store!Settle
    <3> QED
      BY <3>4 DEF goal, old, new
  <2> QED
    BY <2>2, <2>3
<1> QED
  BY <1>7, <1>8

LEMMA SyncBlockMaps ==
  ASSUME Readable, RecordsDiffer, IInv, CleanInv, StoreInv, SyncBlock, IInv', CleanInv'
  PROVE  Maps
<1>1. /\ Aligned /\ tool' = tool /\ tool # "none" /\ dirtyDirectory /\ synced \in Nat
      /\ diskDir \in [Slots -> Entry] /\ Distinct(diskDir)
      /\ diskDir' \in [Slots -> Entry] /\ Distinct(diskDir')
      /\ dir \in [Slots -> Entry] /\ Distinct(dir)
      /\ UNCHANGED << dir, diskData, crashes >>
      /\ diskDir' = [i \in Slots |-> IF i \div EntriesPerBlock = synced THEN dir[i]
                                     ELSE diskDir[i]]
  BY ConstantFacts DEF SyncBlock, Readable, IInv, TypeOK, CleanInv, Sound
<1>2. \A i \in Slots : diskDir'[i] \in {dir[i], diskDir[i]}
  BY <1>1
<1>3. ASSUME NEW f \in Names
      PROVE  Store!Settle(FileOf(dir, diskData, f), FileOf(diskDir, diskData, f),
                          FileOf(diskDir', diskData, f))
  <2> DEFINE Settles == Store!Settle(FileOf(dir, diskData, f), FileOf(diskDir, diskData, f),
                                     FileOf(diskDir', diskData, f))
  <2>1. f # Absent
    BY ConstantFacts
  <2>2. ASSUME \A i \in Slots : dir[i].name = f \/ diskDir[i].name = f => dir[i] = diskDir[i]
        PROVE  Settles
    <3>1. FileOf(dir, diskData, f) = FileOf(diskDir, diskData, f)
      BY <1>1, <2>2, OtherFile
    <3> DEFINE c == diskDir'
    <3>2. \A i \in Slots : diskDir[i].name = f \/ c[i].name = f => c[i] = diskDir[i]
      BY <1>2, <2>2
    <3>3. c \in [Slots -> Entry] /\ Distinct(c)
      BY <1>1
    <3> HIDE DEF c
    <3>4. FileOf(c, diskData, f) = FileOf(diskDir, diskData, f)
      BY <1>1, <3>2, <3>3, OtherFile
    <3> QED
      BY <3>1, <3>4 DEF Store!Settle, c
  <2>3. CASE tool = "cpmchattr"
    <3> DEFINE c == diskDir'
    <3>1. \A i \in Slots :
            /\ dir[i].name = diskDir[i].name /\ dir[i].extno = diskDir[i].extno
            /\ dir[i].blkcnt = diskDir[i].blkcnt /\ dir[i].lrc = diskDir[i].lrc
            /\ dir[i].pointers = diskDir[i].pointers
      BY <2>3 DEF IInv, Agreement, CleanInv, StoreInv, FileAgreement
    <3>2. \A i \in Slots : c[i] \in {dir[i], diskDir[i]}
      BY <1>2
    <3>3. c \in [Slots -> Entry] /\ Distinct(c)
      BY <1>1
    <3> HIDE DEF c
    <3>4. Alike(diskDir, dir, f) /\ Alike(diskDir, c, f)
      BY <3>1, <3>2 DEF Alike
    <3>5. \A i \in Slots : c[i].ro \in {diskDir[i].ro, dir[i].ro}
      BY <3>2
    <3>6. Store!Settle(FileOf(dir, diskData, f), FileOf(diskDir, diskData, f),
                       FileOf(c, diskData, f))
      BY <1>1, <3>3, <3>4, <3>5, SyncAttributes
    <3> QED
      BY <3>6 DEF c
  <2>4. CASE tool = "cpmrm"
    <3>1. \A i \in Slots : dir[i].name # Absent => dir[i] = diskDir[i]
      BY <2>4 DEF IInv, Agreement
    <3>2. CASE \E i \in Slots : diskDir[i].name = f /\ dir[i].name = Absent
      <4>1. PICK i \in Slots : diskDir[i].name = f /\ dir[i].name = Absent
        BY <3>2
      <4>2. \A j \in Slots : dir[j].name # f
        BY <2>1, <2>4, <4>1 DEF StoreInv, FileAgreement
      <4>3. EntriesOf(dir, f) = {} /\ EntriesOf(diskDir, f) # {}
        BY <4>1, <4>2 DEF EntriesOf
      <4>4. FileOf(dir, diskData, f) = Absent /\ FileOf(diskDir, diskData, f) # Absent
        BY <1>1, <4>3, NoFileShown, IsFile
      <4> QED
        BY <4>4 DEF Store!Settle
    <3>3. CASE ~ \E i \in Slots : diskDir[i].name = f /\ dir[i].name = Absent
      <4>1. \A i \in Slots : dir[i].name = f \/ diskDir[i].name = f => dir[i] = diskDir[i]
        BY <2>1, <3>1, <3>3
      <4> QED
        BY <2>2, <4>1
    <3> QED
      BY <3>2, <3>3
  <2>5. CASE tool = "cpmcp"
    <3>1. /\ \A i \in Slots : diskDir[i].name # Absent => dir[i] = diskDir[i]
          /\ New(dir, diskDir, synced)
          /\ \A i \in Slots : i \div EntriesPerBlock < synced => diskDir[i] = dir[i]
      BY <1>1, <2>5 DEF IInv, Agreement, StoreInv, FileAgreement, Synced
    <3>2. CASE \E i \in Slots : dir[i].name = f /\ diskDir[i].name = Absent
      <4>1. PICK i \in Slots : dir[i].name = f /\ diskDir[i].name = Absent
        BY <3>2
      <4>2. /\ \A j \in Slots : diskDir[j].name = f => j \div EntriesPerBlock < synced
            /\ Grown(dir, f) /\ EntriesOf(dir, f) # {}
        BY <2>1, <3>1, <4>1 DEF New, EntriesOf
      <4> DEFINE c == diskDir'
      <4>3. /\ c \in [Slots -> Entry] /\ Distinct(c)
            /\ \A j \in Slots : c[j] = IF j \div EntriesPerBlock = synced THEN dir[j]
                                       ELSE diskDir[j]
        BY <1>1
      <4> HIDE DEF c
      <4>4. Store!Settle(FileOf(dir, diskData, f), FileOf(diskDir, diskData, f),
                         FileOf(c, diskData, f))
        BY <1>1, <3>1, <4>2, <4>3, SyncGrown
      <4> QED
        BY <4>4 DEF c
    <3>3. CASE ~ \E i \in Slots : dir[i].name = f /\ diskDir[i].name = Absent
      <4>1. \A i \in Slots : dir[i].name = f \/ diskDir[i].name = f => dir[i] = diskDir[i]
        BY <2>1, <3>1, <3>3
      <4> QED
        BY <2>2, <4>1
    <3> QED
      BY <3>2, <3>3
  <2>6. tool \in {"cpmcp", "cpmrm", "cpmchattr"}
    BY <1>1 DEF IInv, TypeOK, Agreement
  <2> QED
    BY <2>3, <2>4, <2>5, <2>6
<1>4. InCore = dir /\ InCore' = dir
  BY <1>1 DEF InCore
<1>5. \A f \in Names : Store!Settle(FileOf(InCore, diskData, f), FileOf(diskDir, diskData, f),
                                    FileOf(diskDir', diskData', f))
  BY <1>1, <1>3, <1>4
<1>6. \A f \in Names : FileOf(InCore', diskData', f) = FileOf(InCore, diskData, f)
  BY <1>1, <1>4
<1> QED
  BY <1>1, <1>5, <1>6, FlushStep DEF Maps

\* Steps that change neither what the tool sees nor what the disk holds.
LEMMA StillMaps ==
  ASSUME InCore' = InCore, UNCHANGED << diskDir, diskData, crashes >>
  PROVE  Maps
<1>1. \A g \in Names : FileOf(InCore', diskData', g) = FileOf(InCore, diskData, g)
  OBVIOUS
<1>2. \A g \in Names : FileOf(diskDir', diskData', g) = FileOf(diskDir, diskData, g)
  OBVIOUS
<1> QED
  BY <1>1, <1>2, StutterStep DEF Maps

LEMMA NextMaps ==
  ASSUME Readable, RecordsDiffer, IInv, CleanInv, StoreInv, [Next]_fsVars,
         IInv', CleanInv', StoreInv'
  PROVE  Maps
<1>1. Aligned
  BY DEF Readable
<1>2. ASSUME NEW t \in {"cpmcp", "cpmrm", "cpmchattr", "fsck.cpm"}, ReadSuper(t)
      PROVE  Maps
  BY <1>2, ReadSuperMaps
<1>3. ASSUME NEW f \in Names, NEW length \in Lengths, Creat(f, length) PROVE Maps
  BY <1>3, CreatMaps
<1>4. ASSUME NEW f \in Names, Unlink(f) PROVE Maps
  BY <1>4, UnlinkMaps
<1>5. ASSUME NEW f \in Names, NEW ro \in BOOLEAN, AttrSet(f, ro) PROVE Maps
  BY <1>5, AttrSetMaps
<1>6. CASE Write
  BY <1>6, WriteMaps
<1>7. CASE WriteFails
  BY <1>7, WriteFailsMaps
<1>8. CASE Close
  <2>1. UNCHANGED << tool, dir, diskDir, diskData, crashes >>
    BY <1>8 DEF Close, diskVars
  <2>2. InCore' = InCore
    BY <2>1 DEF InCore
  <2> QED
    BY <2>1, <2>2, StillMaps
<1>9. CASE Fsck
  <2>1. /\ dir' = dir /\ tool # "none" /\ tool' # "none"
        /\ UNCHANGED << diskDir, diskData, crashes >>
    BY <1>1, <1>9, FsckSame DEF Fsck, Runs, diskVars
  <2>2. InCore' = InCore
    BY <2>1 DEF InCore
  <2> QED
    BY <2>1, <2>2, StillMaps
<1>10. CASE SyncBlock
  BY <1>10, SyncBlockMaps
<1>11. CASE Umount
  <2>1. /\ tool # "none" /\ ~dirtyDirectory /\ tool' = "none"
        /\ UNCHANGED << diskDir, diskData, crashes >>
    BY <1>11 DEF Umount, Idle, diskVars
  <2>2. diskDir = dir
    <3>1. \A i \in Slots : diskDir[i] = dir[i]
      BY <2>1 DEF StoreInv, Synced
    <3> QED
      BY <3>1 DEF IInv, TypeOK
  <2>3. InCore' = InCore
    BY <2>1, <2>2 DEF InCore
  <2> QED
    BY <2>1, <2>3, StillMaps
<1>12. CASE Crash
  <2>1. InCore' = diskDir /\ UNCHANGED << diskDir, diskData >> /\ crashes' = crashes + 1
    BY <1>12 DEF Crash, Idle, InCore, diskVars
  <2>2. \A g \in Names : FileOf(InCore', diskData', g) = FileOf(diskDir, diskData, g)
    BY <2>1
  <2>3. \A g \in Names : FileOf(diskDir', diskData', g) = FileOf(diskDir, diskData, g)
    BY <2>1
  <2> QED
    BY <2>1, <2>2, <2>3, CrashStep DEF Maps
<1>13. CASE UNCHANGED fsVars
  <2>1. UNCHANGED << tool, dir, diskDir, diskData, crashes >>
    BY <1>13 DEF fsVars, diskVars, coreVars
  <2>2. InCore' = InCore
    BY <2>1 DEF InCore
  <2> QED
    BY <2>1, <2>2, StillMaps
<1> QED
  BY <1>2, <1>3, <1>4, <1>5, <1>6, <1>7, <1>8, <1>9, <1>10, <1>11, <1>12, <1>13 DEF Next

LEMMA InitMaps == Init => Store!Init
<1> SUFFICES ASSUME Init PROVE Store!Init
  OBVIOUS
<1>1. \A f \in Names : EntriesOf(diskDir, f) = {}
  BY ConstantFacts DEF Init, EntriesOf, FreeEntry, NewEntry
<1>2. \A f \in Names : FileOf(diskDir, diskData, f) = Absent
  BY <1>1, NoFileShown
<1>3. tool = "none" /\ crashes = 0
  BY DEF Init
<1> QED
  BY <1>2, <1>3 DEF Store!Init

\* cpmcp, cpmrm and cpmchattr do to the files what they promise, and nothing to any other
\* file, wherever they are killed: on every disk format whose sizes divide one another, if
\* cpmcp copies no text.
THEOREM KeepsPromises ==
  ASSUME Readable, RecordsDiffer
  PROVE  Spec => ImplementsStore
<1> DEFINE Inv == IInv /\ CleanInv /\ StoreInv
<1>1. Init => Inv
  BY InitInv, InitClean, InitStore
<1>2. Inv /\ [Next]_fsVars => Inv'
  <2>1. Aligned
    BY DEF Readable
  <2> QED
    BY <2>1, NextInv, NextClean, NextStore
<1>3. Init => Store!Init
  BY InitMaps
<1>4. Inv /\ Inv' /\ [Next]_fsVars => [Store!Next]_(Store!storeVars)
  BY NextMaps DEF Maps
<1> QED
  BY <1>1, <1>2, <1>3, <1>4, PTL DEF Spec, ImplementsStore, Store!Spec
===============================================================================
