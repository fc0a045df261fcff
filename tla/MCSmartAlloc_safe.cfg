SPECIFICATION FairSpec
CONSTANTS
  Threads = {t1, t2}
  Nobody = Nobody
  Addrs = {1, 2, 3}
  Sizes = {1, 2}
  HASH_SIZE = 2
  FirstCallDone = TRUE
  Strays = {5}
  MaxCalls = 4
INVARIANTS
  TypeOK
  NodesAreSound
  LiveIsTracked
  SpaceAccounted
  ReportsAreTrue
PROPERTIES
  ImplementsBlocks
  EveryCallReturns
CHECK_DEADLOCK FALSE
