SPECIFICATION FairSpec
CONSTANTS
  own = own
  b = b
  Instances = {own, b}
  Own = own
  DownloadLimit = 1
  DecompressLimit = 2
  InitialFiles <- OneEach
  InitialBad <- NoneBad
  MaxFiles = 2
  MaxFaults = 1
INVARIANTS TokensConserved NoLostWakeUp 
PROPERTIES NewestGoodIsLoaded 
