SPECIFICATION Spec
CONSTANTS
  NR_TASK = 4
  Quantum = 1
  KB_BUF_SIZE = 1
  BUF_SIZE = 2
  KbReaders = {1, 2}
  DiskReaders = {1, 2, 3}
  Forkers = {1, 2}
  HdMayFail = TRUE
INVARIANTS
  TypeOK
  RunQueueOK
  CurrentIsHead
  SleepersQueued
  RequestsMatchSleepers
  DriveServesQueue
  ReadWaitsForData
  FreeSlotsInert
  KernelNotPreempted
