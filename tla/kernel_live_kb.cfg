SPECIFICATION KeySpec
CONSTANTS
  NR_TASK = 3
  Quantum = 1
  KB_BUF_SIZE = 2
  BUF_SIZE = 2
  KbReaders = {2}
  DiskReaders = {}
  Forkers = {1}
  HdMayFail = FALSE
  MaxBytes = 2
INVARIANT
  KeyNotMissed
PROPERTIES
  KeyDelivered
  ReadyRuns
  KeysAsStruck
