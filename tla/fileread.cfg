SPECIFICATION LiveSpec
CONSTANTS
  p1 = p1
  p2 = p2
  p3 = p3
  f1 = f1
  f2 = f2
  Readers = {p1, p2, p3}
  Files = {f1, f2}
  NoFile = NoFile
  FileOf <- MCFileOf
  Phys <- MCPhys
  SegEnd = 9
  Buffers <- MCBuffers
  Clusz = 2
  NR_BLOCK = 1
  Sizes = {0, 3, 4}
  Requests <- MCRequests
INVARIANTS
  TypeOK
  ReadDeliversFile
  BufferSafe
PROPERTY
  ReadEnds
