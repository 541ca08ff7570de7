SPECIFICATION FairSpec
CONSTANTS
  a = a
  b = b
  Instances = {a, b}
  Enabled = {a, b}
  First = a
  MustKeepInterval = 0
  RemoveOldInstancesInterval = 1
  InOrder = TRUE
  MaxSnapshots = 3
  MaxEvents = 3
INVARIANTS NoDataLost
PROPERTIES  OldAreDeleted
