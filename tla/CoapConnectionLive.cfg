SPECIFICATION FairSpec
CONSTANTS
  Packets = {p1, p2, bad}
  Unserialisable = {bad}
  Ping = Ping
  NStart = 1
  MaxRetransmit = 1
  AckTimeouts = {1}
  PingInterval = 2
  IdSpace = 4
  SendCapacity = 1
  RecvCapacity = 1
  MaxLag = 0
PROPERTIES EveryPacketSettled EveryPingSettled
