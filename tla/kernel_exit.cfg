SPECIFICATION ExitSpec
CONSTANTS
  NR_TASK = 3
  Quantum = 1
  KB_BUF_SIZE = 2
  BUF_SIZE = 2
  KbReaders = {}
  DiskReaders = {}
  Forkers = {1}
  HdMayFail = FALSE
  Exiters = {2}
INVARIANT
  RunsWithLDT
