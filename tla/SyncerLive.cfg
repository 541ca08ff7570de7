SPECIFICATION FairSpec
CONSTANTS
  a = a
  b = b
  k1 = k1
  k2 = k2
  Instances = {a, b}
  Keys = {k1}
  Values = {0, 1, 2}
  AppValues = {1, 2}
  SchemaTracksChanges = TRUE
  ReceiveOnly = {}
  OnlyOnce = {}
  ForceSnapshots = TRUE
  MaxConsecutiveSnapshotLoads = 1
  Skew <- AheadA
  MaxWrites = 2
  MaxCrashes = 0
  MaxLosses = 0
PROPERTY Convergence
