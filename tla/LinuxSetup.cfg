SPECIFICATION FairSpec
CONSTANTS
  u1 = u1
  u2 = u2
  none = none
  NoUplink = none
  Uplinks <- MCUplinks
  HostEntries <- MCHostEntries
  BlockIPv6 = TRUE
  DNS = TRUE
  MaxRuns = 2
INVARIANTS
  NoLoop
  Transactional
  RepairsCrash
PROPERTIES
  SignalRestores
