SPECIFICATION FairSpec
CONSTANTS
  i1 = i1
  i2 = i2
  Instances = {i1, i2}
  BatchSize = 1
  FetchAttempts = 1
  EventsPerBlock = 1
  BadBlocks = {}
  MaxHeight = 1
  Archivable = 1
  MaxFaults = 1
PROPERTIES EveryBlockApplied 
