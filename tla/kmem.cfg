SPECIFICATION Spec
CONSTANTS
  memory_start = 10
  memory_end = 21
  NR_HOLE = 6
  KernelSize = 2
  Owners = {p1, p2, p3, p4}
  KERNEL = KERNEL
  Sizes = {0, 1, 2, 3}
INVARIANTS
  TypeOK
  HolesTile
  FreeHolesMerged
  SlotsConserved
  BusyIsOwned
  NodesBounded
PROPERTY
  ImplementsArena
