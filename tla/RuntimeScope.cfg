SPECIFICATION Spec
CONSTANTS
  MaxVer = 2
  MaxReads = 2
  MaxHolds = 1
  MaxLeases = 1
  MaxOps = 4
INVARIANTS TypeOK QuietMeansFresh StreamFollowsDemand
PROPERTIES NeverOlder ImplementsFetchSlot
CHECK_DEADLOCK FALSE
