SPECIFICATION Spec
CONSTANTS
  f1 = f1
  f2 = f2
  Fields = {f1, f2}
  Values = {0, 1, 2}
  Original = 0
  UserTypes = {2}
  OthersSet = {1}
  Nil = Nil
  MaxRv = 3
  MaxUid = 2
  MaxEdits = 4
  MaxCalls = 2
INVARIANTS TypeOK SavingEnds ConflictNotOutdated
PROPERTIES SaveKeepsOthers MergeKeepsEdits
SYMMETRY FieldSymmetry
CHECK_DEADLOCK FALSE
