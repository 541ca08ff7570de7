SPECIFICATION Spec
CONSTANTS
  a = a
  b = b
  k1 = k1
  k2 = k2
  Instances = {a, b}
  Keys = {k1}
  Values = {0, 1}
  AppValues = {1}
  SchemaTracksChanges = TRUE
  ReceiveOnly = {}
  OnlyOnce = {}
  ForceSnapshots = FALSE
  MaxConsecutiveSnapshotLoads = 1
  Skew <- NoSkew
  MaxWrites = 3
  MaxCrashes = 0
  MaxLosses = 0
INVARIANT UploadedWhenSynced
SYMMETRY Symmetry
