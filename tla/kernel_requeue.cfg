SPECIFICATION Spec
CONSTANTS
  NR_TASK = 3
  Quantum = 1
  KB_BUF_SIZE = 2
  BUF_SIZE = 2
  KbReaders = {2}
  DiskReaders = {1}
  Forkers = {1}
  HdMayFail = FALSE
PROPERTY
  ReadyKeepsOthers
