SPECIFICATION Spec
CONSTANTS
  Threads = {t1, t2}
  Nobody = Nobody
  Addrs = {1, 2, 3}
  Sizes = {1, 2}
  HASH_SIZE = 2
  FirstCallDone = TRUE
  Strays = {5}
  MaxCalls = 3
SYMMETRY Symmetry
INVARIANT BadFreeDoesNotCrash
CHECK_DEADLOCK FALSE
