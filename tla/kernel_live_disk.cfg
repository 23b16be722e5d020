SPECIFICATION LiveSpec
CONSTANTS
  NR_TASK = 4
  Quantum = 1
  KB_BUF_SIZE = 1
  BUF_SIZE = 3
  KbReaders = {}
  DiskReaders = {1, 2, 3}
  Forkers = {1}
  HdMayFail = FALSE
PROPERTIES
  ReadReturns
  ReadyKeepsOthers
