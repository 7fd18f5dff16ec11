-------------------------------- MODULE CpmFs --------------------------------
(***************************************************************************)
(* The CP/M file system of cpmtools (cpmfs.c) under the tools that change   *)
(* it: cpmcp, cpmrm and cpmchattr.  A tool reads the directory into core,   *)
(* works on it there, writes data blocks as it goes and the directory at    *)
(* the end.  It may be killed between any two writes.                       *)
(*                                                                         *)
(* The unit of data stands for some bytes; RecLen, SecLen, BlkSiz, LogExt   *)
(* and Chunk are the 128 bytes of a record, the sector, the block, the      *)
(* 16384 bytes of a logical extent and what cpmcp reads at once, in units.  *)
(***************************************************************************)
EXTENDS Integers, FiniteSets

CONSTANTS
  Names, Absent,      \* file names; no file
  MaxDir,             \* directory entries
  EntriesPerBlock,
  Size,               \* blocks of the disk
  Pointers,           \* block pointers of an entry
  RecLen, SecLen, BlkSiz, LogExt, Chunk,
  Lengths,            \* of the files that are copied to the disk
  Text,               \* cpmcp -t
  MaxCrashes

DirBlocks == (MaxDir + EntriesPerBlock - 1) \div EntriesPerBlock
ExtCap == Pointers * BlkSiz
Extents == IF ExtCap < LogExt THEN 1 ELSE ExtCap \div LogExt

Slots == 0..MaxDir - 1
Blocks == 0..Size - 1

ASSUME FormatAssumption ==
  /\ MaxDir \in Nat \ {0} /\ EntriesPerBlock \in Nat \ {0} /\ Size \in Nat
  /\ Pointers \in Nat \ {0} /\ MaxCrashes \in Nat
  /\ RecLen \in Nat \ {0} /\ SecLen \in Nat \ {0} /\ BlkSiz \in Nat \ {0}
  /\ LogExt \in Nat \ {0} /\ Chunk \in Nat \ {0}
  /\ DirBlocks <= Size /\ Lengths \subseteq Nat /\ Text \in BOOLEAN
  /\ Absent \notin Names

VARIABLES
  diskDir, diskData,  \* the disk: its directory entries and its data blocks
  tool,               \* the tool that runs, or "none"
  dir, alv,           \* the directory in core and the blocks that are taken
  dirtyDirectory,
  synced,             \* directory blocks that cpmSync has written back
  file,               \* what cpmcp is copying
  crashes             \* how many tools were killed, up to MaxCrashes

diskVars == << diskDir, diskData >>
coreVars == << dir, alv, dirtyDirectory, synced, file >>
fsVars == << diskVars, tool, coreVars, crashes >>
-------------------------------------------------------------------------------
\* Directory entries.  A free one (status 0xe5) has the name Absent.
NoBlocks == [p \in 0..Pointers - 1 |-> 0]
NewEntry(f) ==
  [name |-> f, ro |-> FALSE, extno |-> 0, blkcnt |-> 0, lrc |-> 0, pointers |-> NoBlocks]
FreeEntry == NewEntry(Absent)

Free(d) == { i \in Slots : d[i].name = Absent }
EntriesOf(d, f) == { i \in Slots : d[i].name = f }

\* The lowest member of S, what a loop from 0 upwards comes to first.
IsFirst(i, S) == i \in S /\ \A j \in S : i <= j

\* The blocks that an entry points to.
BlocksOf(entry) == { b \in Blocks : b # 0 /\ \E p \in 0..Pointers - 1 : entry.pointers[p] = b }

\* Mutant: the last entry of the directory is left out.
AlvOfAllButLast(d) ==
  (0..DirBlocks - 1) \cup UNION { BlocksOf(d[i]) : i \in Slots \ (Free(d) \cup {MaxDir - 1}) }

\* alvInit: the directory blocks and those of every entry in use.
AlvOf(d) == (0..DirBlocks - 1) \cup UNION { BlocksOf(d[i]) : i \in Slots \ Free(d) }

\* cpmNamei: the highest extent gives the size.
SizeOf(d, f) ==
  LET last == CHOOSE i \in EntriesOf(d, f) : \A j \in EntriesOf(d, f) : d[j].extno <= d[i].extno
      e == d[last]
  IN e.extno * LogExt
     + IF e.blkcnt = 0 THEN 0
       ELSE (e.blkcnt - 1) * RecLen + (IF e.lrc = 0 THEN RecLen ELSE e.lrc)

\* The entries for the part of the file f that begins at position pos.
ExtentsAt(d, f, extno) ==
  { i \in EntriesOf(d, f) : d[i].extno \div Extents = extno \div Extents }

Zero == "zero"
Junk == "junk"   \* what an automatic buffer held

\* cpmRead: the unit at position pos.
UnitAt(d, data, f, pos) ==
  LET hits == ExtentsAt(d, f, pos \div LogExt)
      e == d[CHOOSE i \in hits : IsFirst(i, hits)]
      b == e.pointers[(pos % ExtCap) \div BlkSiz]
  IN IF hits = {} \/ b = 0 THEN Zero ELSE data[b][pos % BlkSiz]

\* cpmReaddir: the entries that are listed, the first extent of each file.
Listed(d) ==
  { i \in Slots \ Free(d) : \A j \in EntriesOf(d, d[i].name) : d[i].extno <= d[j].extno }

\* What cpmls and cpmcp find under the name f.
FileOf(d, data, f) ==
  IF \A i \in Listed(d) : d[i].name # f THEN Absent
  ELSE [data |-> [i \in 1..SizeOf(d, f) |-> UnitAt(d, data, f, i - 1)],
        ro |-> d[CHOOSE i \in Listed(d) : d[i].name = f].ro]
-------------------------------------------------------------------------------
NoFile == [name |-> Absent, ino |-> 0, length |-> 0, pos |-> 0, left |-> 0, extno |-> 0]

\* The core when no tool runs.
Idle ==
  /\ tool' = "none"
  /\ dir' = [i \in Slots |-> FreeEntry] /\ alv' = {} /\ dirtyDirectory' = FALSE
  /\ synced' = 0 /\ file' = NoFile

\* mkfs.cpm: an empty directory.
Init ==
  /\ diskDir = [i \in Slots |-> FreeEntry]
  /\ diskData = [b \in DirBlocks..Size - 1 |-> [u \in 0..BlkSiz - 1 |-> Zero]]
  /\ tool = "none"
  /\ dir = [i \in Slots |-> FreeEntry] /\ alv = {} /\ dirtyDirectory = FALSE
  /\ synced = 0 /\ file = NoFile
  /\ crashes = 0

\* cpmReadSuper.
ReadSuper(t) ==
  /\ tool = "none"
  /\ tool' = t
  /\ dir' = diskDir
  /\ alv' = AlvOf(diskDir)
  /\ UNCHANGED << diskVars, dirtyDirectory, synced, file, crashes >>

Runs(t) == tool = t /\ synced = 0 /\ file = NoFile

\* Mutant: the inode is not given its entry.
CreatForgetsInode(f, length) ==
  /\ Runs("cpmcp")
  /\ EntriesOf(dir, f) = {}
  /\ \E i \in Slots : IsFirst(i, Free(dir)) /\ dir' = [dir EXCEPT ![i] = NewEntry(f)]
  /\ file' = [NoFile EXCEPT !.name = f, !.length = length]
  /\ dirtyDirectory' = TRUE
  /\ UNCHANGED << diskVars, tool, alv, synced, crashes >>

Creat(f, length) ==
  /\ Runs("cpmcp")
  /\ EntriesOf(dir, f) = {}
  /\ \E i \in Slots :
       /\ IsFirst(i, Free(dir))
       /\ dir' = [dir EXCEPT ![i] = NewEntry(f)]
       /\ file' = [NoFile EXCEPT !.name = f, !.ino = i, !.length = length]
  /\ dirtyDirectory' = TRUE
  /\ UNCHANGED << diskVars, tool, alv, synced, crashes >>

\* How many units cpmcp hands to cpmWrite.  In text mode a line end is two of them and may
\* come last, so that one more than Chunk fit, and the mark of the end is kept for last.
Counts ==
  LET rest == file.length - file.pos
  IN IF file.left > 0 THEN {file.left}
     ELSE IF ~Text THEN { n \in {Chunk} : n <= rest } \cup { n \in {rest} : n < Chunk }
     ELSE { n \in {Chunk, Chunk + 1} : n < rest } \cup { n \in {rest} : n <= Chunk }

\* Mutant: computed once for each physical extent.
ExtentNoOncePerEntry == IF file.pos % ExtCap = 0 THEN file.pos \div LogExt ELSE file.extno

\* Mutant: extents are counted by what an entry holds.
ExtentNoByCapacity == file.pos \div ExtCap

\* The extent number that cpmWrite works with: computed anew by each call, and by each
\* extent of it.
ExtentNo ==
  IF file.left = 0 \/ file.pos % ExtCap = 0 THEN file.pos \div LogExt ELSE file.extno

\* The entry that cpmWrite works on: the extent at pos if there is one, or else the first
\* free entry, made from the first entry of the file.
ExtentSlots ==
  LET hits == ExtentsAt(dir, file.name, ExtentNo)
  IN IF hits # {} THEN hits ELSE Free(dir)

Extent(i) ==
  IF i \notin Free(dir) THEN dir[i]
  ELSE [dir[file.ino] EXCEPT !.pointers = NoBlocks, !.extno = ExtentNo, !.blkcnt = 0, !.lrc = 0]

Pointer == (file.pos % ExtCap) \div BlkSiz

\* What one pass leaves in a block: the units up to stop, what the sectors that are written
\* held when they were read first, and what was in the buffer.
NewData(old, new, n, stop) ==
  LET at == file.pos % BlkSiz
      base == file.pos - at
      start == IF new THEN 0 ELSE at \div SecLen
      end == (IF new \/ at + n > BlkSiz THEN BlkSiz - 1 ELSE at + n - 1) \div SecLen
      read(s) == \/ s = start /\ file.pos % SecLen # 0
                 \/ s = end /\ end # start /\ file.pos + n - 1 < BlkSiz
  IN [u \in 0..BlkSiz - 1 |->
        LET s == u \div SecLen
        IN IF s \notin start..end THEN old[u]
           ELSE IF base + u \in file.pos..stop - 1
           THEN << file.name, file.length, base + u >>
           ELSE IF new THEN Zero ELSE IF read(s) THEN old[u] ELSE Junk]

\* One pass of the loop in cpmWrite, up to the end of a block.
WriteBlock(n, i, b) ==
  LET blockEnd == (file.pos \div BlkSiz + 1) * BlkSiz
      stop == IF file.pos + n < blockEnd THEN file.pos + n ELSE blockEnd
      new == Extent(i).pointers[Pointer] = 0
  IN /\ IsFirst(i, ExtentSlots)
     /\ IF new THEN IsFirst(b, Blocks \ alv) ELSE b = Extent(i).pointers[Pointer]
     /\ diskData' = [diskData EXCEPT ![b] = NewData(@, new, n, stop)]
     /\ alv' = alv \cup {b}
     /\ dir' = [dir EXCEPT ![i] =
                  [Extent(i) EXCEPT !.pointers[Pointer] = b, !.extno = ExtentNo,
                                    !.blkcnt = ((stop - 1) % LogExt) \div RecLen + 1,
                                    !.lrc = stop % RecLen]]
     /\ file' = [file EXCEPT !.pos = stop, !.left = file.pos + n - stop, !.extno = ExtentNo]
     /\ UNCHANGED << diskDir, tool, dirtyDirectory, synced, crashes >>

Write ==
  /\ file # NoFile /\ file.pos < file.length
  /\ \E n \in Counts, i \in Slots, b \in Blocks : WriteBlock(n, i, b)

\* The directory or the disk is full.  The entry made for a new extent stays; cpmcp leaves
\* the file as it is and goes on.
WriteFails ==
  /\ file # NoFile /\ file.pos < file.length
  /\ \/ ExtentSlots = {} /\ dir' = dir
     \/ \E i \in Slots :
          /\ IsFirst(i, ExtentSlots)
          /\ Extent(i).pointers[Pointer] = 0 /\ Blocks \ alv = {}
          /\ dir' = [dir EXCEPT ![i] = Extent(i)]
  /\ file' = NoFile
  /\ UNCHANGED << diskVars, tool, alv, dirtyDirectory, synced, crashes >>

Close ==
  /\ file # NoFile /\ file.pos = file.length
  /\ file' = NoFile
  /\ UNCHANGED << diskVars, tool, dir, alv, dirtyDirectory, synced, crashes >>

\* Mutant: the blocks stay taken.
UnlinkKeepsAlv(f) ==
  /\ Runs("cpmrm")
  /\ EntriesOf(dir, f) # {}
  /\ dir' = [i \in Slots |-> IF dir[i].name = f THEN FreeEntry ELSE dir[i]]
  /\ dirtyDirectory' = TRUE
  /\ UNCHANGED << diskVars, tool, alv, synced, file, crashes >>

\* cpmUnlink of a file that cpmglob has found.
Unlink(f) ==
  /\ Runs("cpmrm")
  /\ EntriesOf(dir, f) # {}
  /\ dir' = [i \in Slots |-> IF dir[i].name = f THEN FreeEntry ELSE dir[i]]
  /\ alv' = AlvOf(dir')
  /\ dirtyDirectory' = TRUE
  /\ UNCHANGED << diskVars, tool, synced, file, crashes >>

\* cpmAttrSet: from the entry that cpmNamei found, the lowest extent, upwards.
AttrSet(f, ro) ==
  /\ Runs("cpmchattr")
  /\ \E i \in Listed(dir) :
       /\ dir[i].name = f
       /\ dir' = [j \in Slots |-> IF j >= i /\ dir[j].name = f
                                  THEN [dir[j] EXCEPT !.ro = ro] ELSE dir[j]]
  /\ dirtyDirectory' = TRUE
  /\ UNCHANGED << diskVars, tool, alv, synced, file, crashes >>

\* fsck.cpm, phase 1: what is wrong with an entry, and what becomes of it if the user agrees.
UsedHere(entry) ==
  LET part == (entry.extno % Extents) * Pointers
  IN { p \in part \div Extents .. (part + Pointers) \div Extents - 1 : entry.pointers[p] # 0 }

BlocksInRange(entry) ==
  \A p \in 0..Pointers - 1 : entry.pointers[p] \in {0} \cup (DirBlocks..Size - 1)

RecordCountOK(entry) ==
  Cardinality(UsedHere(entry)) = (entry.blkcnt * RecLen + BlkSiz - 1) \div BlkSiz

Repaired(entry) ==
  IF entry.name = Absent \/ (BlocksInRange(entry) /\ RecordCountOK(entry)) THEN entry
  ELSE FreeEntry

Fsck ==
  /\ Runs("fsck.cpm")
  /\ \E agreed \in SUBSET Slots :
       dir' = [i \in Slots |-> IF i \in agreed THEN Repaired(dir[i]) ELSE dir[i]]
  /\ tool' = "exit"
  /\ UNCHANGED << diskVars, alv, dirtyDirectory, synced, file, crashes >>

\* cpmSync, one directory block at a time.
SyncBlock ==
  /\ tool # "none" /\ file = NoFile /\ dirtyDirectory
  /\ diskDir' = [i \in Slots |-> IF i \div EntriesPerBlock = synced THEN dir[i] ELSE diskDir[i]]
  /\ synced' = synced + 1
  /\ dirtyDirectory' = (synced + 1 < DirBlocks)
  /\ UNCHANGED << diskData, tool, dir, alv, file, crashes >>

\* cpmUmount, after cpmSync.
Umount ==
  /\ tool # "none" /\ file = NoFile /\ ~dirtyDirectory
  /\ Idle
  /\ UNCHANGED << diskVars, crashes >>

Crash ==
  /\ tool # "none" /\ crashes < MaxCrashes
  /\ Idle
  /\ crashes' = crashes + 1
  /\ UNCHANGED diskVars

Next ==
  \/ \E t \in {"cpmcp", "cpmrm", "cpmchattr", "fsck.cpm"} : ReadSuper(t)
  \/ \E f \in Names :
       \/ \E length \in Lengths : Creat(f, length)
       \/ Unlink(f)
       \/ \E ro \in BOOLEAN : AttrSet(f, ro)
  \/ Write \/ WriteFails \/ Close \/ Fsck
  \/ SyncBlock \/ Umount \/ Crash

Spec == Init /\ [][Next]_fsVars
-------------------------------------------------------------------------------
\* The directory in core and the disk keep their shape, and a file is being copied only
\* by cpmcp, into an entry with its name (struct cpmSuperBlock, struct cpmFile).
Entry == [name : Names \cup {Absent}, ro : BOOLEAN, extno : Nat, blkcnt : Nat, lrc : Nat,
          pointers : [0..Pointers - 1 -> Blocks]]

Copy == [name : Names \cup {Absent}, ino : Slots, length : Nat, pos : Nat, left : Nat,
         extno : Nat]

TypeOK ==
  /\ diskDir \in [Slots -> Entry] /\ dir \in [Slots -> Entry]
  /\ DOMAIN diskData = DirBlocks..Size - 1
  /\ tool \in {"none", "cpmcp", "cpmrm", "cpmchattr", "fsck.cpm", "exit"}
  /\ alv \subseteq Blocks /\ dirtyDirectory \in BOOLEAN
  /\ synced \in 0..DirBlocks /\ crashes \in 0..MaxCrashes
  /\ file \in Copy
  /\ file # NoFile => tool = "cpmcp" /\ file.name # Absent /\ dir[file.ino].name = file.name

\* No block has two owners, on the disk or in core, not even between two writes of the
\* directory (fsck.cpm.c:453-477); and while a tool may allocate, the blocks that are taken
\* are those of the directory.
NoSharedBlock(d) ==
  \A i, j \in Slots : \A p, q \in 0..Pointers - 1 :
    /\ d[i].name # Absent /\ d[j].name # Absent
    /\ d[i].pointers[p] # 0 /\ d[i].pointers[p] = d[j].pointers[q]
    => i = j /\ p = q

BlocksOwned ==
  /\ NoSharedBlock(diskDir) /\ NoSharedBlock(dir)
  /\ tool \notin {"none", "exit"} => alv = AlvOf(dir)

\* Whatever the disk's directory points to stays as it is until the directory itself
\* changes: a tool that is killed while it copies has destroyed nothing.
DataKept ==
  [][ \A i \in Slots \ Free(diskDir) : \A b \in BlocksOf(diskDir[i]) :
        diskData'[b] = diskData[b] ]_fsVars

\* fsck.cpm finds nothing wrong with a disk, not even after a tool was killed.
FsckClean ==
  /\ \A i \in Slots : Repaired(diskDir[i]) = diskDir[i]
  /\ \A i, j \in Slots \ Free(diskDir) :
       diskDir[i].name = diskDir[j].name /\ diskDir[i].extno = diskDir[j].extno => i = j

\* The directory that a tool has in core when it ends is the one on the disk.  (That of
\* fsck.cpm is not: it repairs entries without setting dirtyDirectory, on which cpmSync
\* depends; fsck.cpm.c:617-627.  The damage it finds is done by cpmcp -t: cpmWrite counts
\* the extents of a call from its first position, cpmfs.c:1745.)
UmountSaves == [][Umount => diskDir = dir]_fsVars

\* A tool does to the files what it promises, and nothing to any other file, also when it
\* is killed.
Store == INSTANCE FileStore WITH
  files <- [f \in Names |-> FileOf(IF tool = "none" THEN diskDir ELSE dir, diskData, f)],
  saved <- [f \in Names |-> FileOf(diskDir, diskData, f)]

ImplementsStore == Store!Spec
===============================================================================
