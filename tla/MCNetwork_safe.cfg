SPECIFICATION NetSpec
CONSTANTS
  s1 = s1
  s2 = s2
  h1 = h1
  h2 = h2
  bcast = bcast
  Sockets = {s1, s2}
  Macs = {h1, h2, bcast}
  Broadcast = bcast
  Ports = {1, 2}
  EchoXids = {0}
  XidMod = 4
  MaxRx = 20
  Home <- LineHome
  Link <- LineLink
  MaxFrames = 2
  MaxRestarts = 2
INVARIANTS
  AnswersTakeFlows
  FlowsLeadOn
  DeliveredOnce
CHECK_DEADLOCK FALSE
