SPECIFICATION Spec
CONSTANTS
  c1 = c1
  c2 = c2
  c3 = c3
  Conns = {c1, c2, c3}
  MaxFds = 2
  MaxMsgs = 2
  MaxInAll = 2
SYMMETRY Symmetry
INVARIANTS
  TypeOK
  ReportedStaysReadable
  MessagesAreFramed
PROPERTY ImplementsService
CHECK_DEADLOCK FALSE
