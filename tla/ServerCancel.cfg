SPECIFICATION ServerScheduledSpec
CONSTANTS
  s1 = s1
  s2 = s2
  a1 = a1
  a2 = a2
  None = None
  Session <- MCSession
  Addr <- MCAddr
  AddrOf <- SameAddr
  Packet <- MCPacket
  Frame <- MCFrame
  HelloMTU = {1}
  ServerMTU = 1
  MaxPeers = 1
  QueueCap = 1
  MaxPackets = 0
  MaxLen = 1
  Faults = {"signal"}
PROPERTIES
  CancelledEnds
  ShutdownReturns
