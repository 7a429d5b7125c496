SPECIFICATION ServerSpec
CONSTANTS
  s1 = s1
  s2 = s2
  a1 = a1
  a2 = a2
  None = None
  Session <- MCSession
  Addr <- MCAddr
  AddrOf <- SameAddr
  Packet <- MCPacket
  Frame <- MCFrame
  HelloMTU = {1, 2}
  ServerMTU = 1
  MaxPeers = 1
  QueueCap = 1
  MaxPackets = 2
  MaxLen = 1
  Faults = {"signal"}
SYMMETRY MCSymmetry
INVARIANTS
  ServerTypeOK
  DoneIsClean
  Delivery
  LosesOnlyTheLast
  AtMostOneLatePacket
