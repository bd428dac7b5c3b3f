SPECIFICATION FairSpec
CONSTANTS
  Domains <- ObjectDomain
  KeepsSocket = FALSE
  OtherWindow = FALSE
  Replaceable = FALSE
  BufferSize = 2
  ChanCap = 1
  OutCap = 12
  MaxPending = 1
  MaxVer = 2
  MaxFaults = 1
  MaxOps = 2
PROPERTIES
  EveryChangeIsSignalled
CHECK_DEADLOCK FALSE
