SPECIFICATION Spec
CONSTANTS
  ServerMTU = 1280
  ClientMTUs <- MCClientMTUs
  Assigned <- Own
  Packets <- MCPackets
  Controls <- MCControls
  Frames <- MCFrames
  Messages <- MCMessages
INVARIANTS
  OneEncoding
  EndsAgree
  OnlyOwnPackets
