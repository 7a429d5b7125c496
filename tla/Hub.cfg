SPECIFICATION HubSpec
CONSTANTS
  s1 = s1
  s2 = s2
  s3 = s3
  a1 = a1
  a2 = a2
  None = None
  Session <- MCSession
  Addr <- MCAddr
  AddrOf <- MCAddrOf
  Packet <- MCPacket
  MaxPeers = 1
  QueueCap = 2
  MaxPackets = 3
SYMMETRY MCSymmetry
INVARIANTS
  HubTypeOK
  RegistryInv
  DispatchCorrect
  ReplacementSplitsStream
PROPERTIES
  ImplementsRegistry
