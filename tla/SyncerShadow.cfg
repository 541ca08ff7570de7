SPECIFICATION Spec
CONSTANTS
  a = a
  b = b
  k1 = k1
  k2 = k2
  Instances = {a, b}
  Keys = {k1}
  Values = {0, 1}
  AppValues = {1}
  SchemaTracksChanges = FALSE
  ReceiveOnly = {}
  OnlyOnce = {}
  ForceSnapshots = FALSE
  MaxConsecutiveSnapshotLoads = 1
  Skew <- NoSkew
  MaxWrites = 2
  MaxCrashes = 1
  MaxLosses = 1
INVARIANTS   CommittedIsMerged ReadyMeansMerged UploadedUnlessRaced
 
