SPECIFICATION LifeFairSpec
CONSTANTS
  main = main
  handler = handler
  Threads = {main, handler}
  Nobody = Nobody
  Addrs = {1, 2, 3, 4, 5}
  Sizes = {1}
  HASH_SIZE = 2
  FirstCallDone = FALSE
  Strays = {}
  MaxCalls = 0
  Sockets = {4, 5}
INVARIANTS
  WalkStaysAllocated
  LeaksOnlyInterrupted
PROPERTY ShutdownEndsUnlessLocked
CHECK_DEADLOCK FALSE
