SPECIFICATION Spec
CONSTANTS
  a = a
  b = b
  k1 = k1
  k2 = k2
  Instances = {a, b}
  Keys = {k1, k2}
  Values = {0, 1}
  AppValues = {1}
  SchemaTracksChanges = TRUE
  ReceiveOnly = {}
  OnlyOnce = {}
  ForceSnapshots = FALSE
  MaxConsecutiveSnapshotLoads = 1
  Skew <- NoSkew
  MaxWrites = 2
  MaxCrashes = 1
  MaxLosses = 1
INVARIANTS UploadedUnlessRaced IndInv
SYMMETRY Symmetry
PROPERTIES ImplementsReplicatedMap
