SPECIFICATION Spec
CONSTANTS
  Domains <- CompleteDomains
  KeepsSocket = TRUE
  OtherWindow = TRUE
  Replaceable = TRUE
  BufferSize = 2
  ChanCap = 1
  OutCap = 3
  MaxPending = 1
  MaxVer = 2
  MaxFaults = 1
  MaxOps = 2
INVARIANTS
  TypeOK
  ConfirmedMeansSubscribed
  QuietMeansCurrent
CHECK_DEADLOCK FALSE
