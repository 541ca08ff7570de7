SPECIFICATION FairSpec
CONSTANTS
  d1 = d1
  d2 = d2
  Values = {0, 1}
  dbiNames <- TwoDbis
  Keys = {1, 2}
  Retention = 2
  LoadCutoff = 1
  CheckEvery = 1
  InvalidKeys = {}
  MaxTime = 4
  MaxWrites = 1
  MaxFailures = 1
 
PROPERTIES OnlyStaleRemoved StaleStaysAway 
