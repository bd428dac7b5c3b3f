SPECIFICATION FairSpec
CONSTANTS
  Loops = {l1, l2}
  Requests = {r1}
  MaxAttempts = 2
  BackoffSchedule <- MCSchedule
  ConnectivityRetryInterval = 1
  SteadyRetryInterval = 1
  MaxRetries = 1
  MaxWorldChanges = 2
  NoLoop = NoLoop
INVARIANTS
  RecoveryOwned
  OneRecovery
  NoStrayRecovery
  ShutdownQuiescent
PROPERTIES
  StaleLoopsInert
  SettledByRejections
  Recovers
  ShutdownTerminates
CHECK_DEADLOCK FALSE
