SPECIFICATION Spec
CONSTANTS
  Names = {a, b}
  Absent = Absent
  MaxDir = 3
  EntriesPerBlock = 2
  Size = 7
  Pointers = 4
  RecLen = 2
  SecLen = 2
  BlkSiz = 4
  LogExt = 8
  Chunk = 4
  Lengths = {0, 9, 18}
  Text = FALSE
  MaxCrashes = 1
SYMMETRY Sym
INVARIANTS TypeOK BlocksOwned FsckClean
PROPERTIES DataKept ImplementsStore
