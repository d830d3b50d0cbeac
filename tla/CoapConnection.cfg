SPECIFICATION Spec
CONSTANTS
  Packets = {p1, p2, p3}
  Unserialisable = {}
  Ping = Ping
  NStart = 1
  MaxRetransmit = 1
  AckTimeouts = {1, 2}
  PingInterval = 3
  IdSpace = 4
  SendCapacity = 2
  RecvCapacity = 1
  MaxLag = 1
SYMMETRY Symmetry
INVARIANTS TypeOK PingFlagExact Window QueueHasOpener SilenceBounded
PROPERTY ImplementsSendWindow
