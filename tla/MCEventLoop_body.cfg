SPECIFICATION Spec
CONSTANTS
  c1 = c1
  c2 = c2
  c3 = c3
  Conns = {c1, c2}
  MaxFds = 2
  MaxMsgs = 1
  MaxInAll = 2
SYMMETRY Symmetry
INVARIANT BodyReadFindsData
CHECK_DEADLOCK FALSE
