SPECIFICATION Spec
CONSTANTS
  NULL = NULL
  MaxProc = 3
  EarlyChildren = {2}
  INODE_NR = 3
  FILP_NR = 1
  maxopen = 1
  NR_BLOCK = 1
  NAME_WORDS = 0
  NR_PAGES = 5
  BUF_SIZE = 2
  SCANNED = 4
  Disks <- MCDisks
  Names <- MCNames
INVARIANTS
  TypeOK
  OpenedIsNamed
  MountFindsRoot
  PagesAccounted
  DataIsAsked
PROPERTY
  OpenReturns
