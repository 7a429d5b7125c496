SPECIFICATION FairSpec
CONSTANTS
  k1 = k1
  k2 = k2
  k3 = k3
  None = None
  Conn <- MCConn
  MaxPeers = 1
  MaxFaults = 4
INVARIANTS
  NoBlackHole
PROPERTIES
  BlackHoleEnds
  Converges
