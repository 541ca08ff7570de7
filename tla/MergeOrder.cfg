SPECIFICATION Spec
CONSTANTS
  r1 = r1
  r2 = r2
  Replicas = {r1, r2}
  Values = {0, 1, 2}
  LiveValues = {1, 2}
  Timestamps = {1, 2}
  FormatVersions = {1, 3}
  MaxEntries = 4
INVARIANTS Agreement HoldsNewest
SYMMETRY Symmetry
