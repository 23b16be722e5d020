SPECIFICATION Spec
CONSTANTS
  LastCluster = 5
  sector_size = 4
  blk_size = 2
  Sizes = {0, 1, 4, 5}
  Marks = {0, 7}
INVARIANTS
  TypeOK
  MapFollowsChain
  MapCoversFile
  MapBounded
CHECK_DEADLOCK FALSE
