SPECIFICATION Spec
CONSTANTS
  s1 = s1
  s2 = s2
  h1 = h1
  h2 = h2
  bcast = bcast
  Sockets = {s1, s2}
  Macs = {h1, h2, bcast}
  Broadcast = bcast
  Ports = {1, 2}
  EchoXids = {0, 3}
  XidMod = 11
  MaxRx = 3
SYMMETRY Symmetry
INVARIANTS
  TypeOK
  NoShadowedEntry
  RoutesAreFirstHeard
  SavedFlowIsFirstSent
  FlowPortWasHeard
  FlowsComeInPairs
  TableOutHasFlow
  ReplyXidsUnique
PROPERTIES
  RoutesAreWriteOnce
  SwitchIsolation
  BytesAreMessages
CHECK_DEADLOCK FALSE
