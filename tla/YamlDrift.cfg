SPECIFICATION Spec
CONSTANTS
  f1 = f1
  f2 = f2
  Fields = {f1, f2}
  Values = {0, 1, 2}
  Original = 0
  UserTypes = {2}
  OthersSet = {1}
  Nil = Nil
  MaxRv = 3
  MaxUid = 1
  MaxEdits = 2
  MaxCalls = 1
INVARIANT DriftShownRightAway
CHECK_DEADLOCK FALSE
