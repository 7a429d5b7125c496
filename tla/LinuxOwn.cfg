SPECIFICATION Spec
CONSTANTS
  u1 = u1
  u2 = u2
  none = none
  NoUplink = none
  Uplinks <- MCUplinks
  HostEntries <- MCHostEntries
  BlockIPv6 = TRUE
  DNS = TRUE
  MaxRuns = 2
INVARIANT RemovesOnlyItsOwn
