SPECIFICATION Spec
CONSTANTS
  i1 = i1
  i2 = i2
  Instances = {i1, i2}
  BatchSize = 2
  FetchAttempts = 2
  EventsPerBlock = 1
  BadBlocks = {3}
  MaxHeight = 3
  Archivable = 1
  MaxFaults = 1
SYMMETRY InstanceSymmetry
INVARIANTS TypeOK ExactlyOnceInOrder InstancesFit
PROPERTY ImplementsBlockLog
