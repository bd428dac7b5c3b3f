SPECIFICATION FairSpec
CONSTANTS
  cq = cq
  a1 = a1
  b1 = b1
  k1 = k1
  p1 = p1
  p2 = p2
  p3 = p3
  l1 = l1
  ClusterQuery = cq
  NsQueries = {a1, b1}
  Checks = {k1}
  Permissions = {p1, p2, p3}
  Covers <- MCCovers
  ListOf <- MCListOf
  MaxItems = 1
  MaxVer = 2
  MaxOps = 2
CHECK_DEADLOCK FALSE
INVARIANTS
  TypeOK
  AskingIsReal
  NothingSurvivesReset
  ListenersFollow
  ReadyReplaysInterest
PROPERTIES
  GrantsConverge
