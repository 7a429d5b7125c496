SPECIFICATION FairSpec
CONSTANTS
  p1 = p1
  p2 = p2
  NoParams = NoParams
  Params <- MCParams
  MaxConns = 2
  MaxPackets = 3
  OutCap = 1
  ErrCap = 2
INVARIANTS
  TypeOK
  FailClosed
  CleanReturn
  UplinkInOrder
  OneLossPerConnection
  OneLateDelivery
  SessionMatchesDevice
PROPERTIES
  SignalReturns
  GoroutinesEnd
