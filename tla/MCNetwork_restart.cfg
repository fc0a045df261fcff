SPECIFICATION NetFairSpec
CONSTANTS
  s1 = s1
  s2 = s2
  h1 = h1
  h2 = h2
  bcast = bcast
  Sockets = {s1}
  Macs = {h1, h2, bcast}
  Broadcast = bcast
  Ports = {1, 2}
  EchoXids = {0}
  XidMod = 4
  MaxRx = 20
  Home <- OneHome
  Link <- OneLink
  MaxFrames = 2
  MaxRestarts = 1
PROPERTY RequestsAnswered
CHECK_DEADLOCK FALSE
