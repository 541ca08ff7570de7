CONSTANTS
  i1 = i1
  i2 = i2
  old = old
  Instances = {i1, i2}
  OldInstances = {old}
  Configured <- ConfiguredNames
  DatabaseName <- DBName
  ForeignNames <- OtherFiles
  Added <- LaterVersion
  Pairs <- SomePairs
  OldKVs <- OldEntries
  Settings <- AllSettings
  HeaderExtraPaddingBlock = TRUE
  MaxTime = 4
  MaxWrites = 2
  LMDBMaxKeySize = 9
  DupSortHackMaxKeySize = 3
  Values = {0, 1, 2, 3, 4}
SPECIFICATION Spec
CHECK_DEADLOCK FALSE
INVARIANTS SameFlags MainIsShadow QuietAgree
PROPERTIES ReadAsWritten 
