SPECIFICATION Spec
CONSTANTS
  NR_PAGES = 4
  PAGE_SIZE = 2
  Owners = {o1, o2, o3, o4, o5}
  Sizes = {1, 2}
INVARIANTS
  TypeOK
  TableDescribesPages
  FreePageIsFound
PROPERTY
  ImplementsArena
