SPECIFICATION NetSpec
CONSTANTS
  s1 = s1
  s2 = s2
  h1 = h1
  h2 = h2
  bcast = bcast
  Sockets = {s1, s2}
  Macs = {h1, h2, bcast}
  Broadcast = bcast
  Ports = {1, 2, 3}
  EchoXids = {0}
  XidMod = 4
  MaxRx = 6
  Home <- LineHome
  Link <- LoopLink
  MaxFrames = 1
  MaxRestarts = 0
PROPERTY KnownReturnAddressDropped
CHECK_DEADLOCK FALSE
