SPECIFICATION FairSpec
CONSTANTS
  LastBlock = 5
  ChunkBlocks = 3
  BackfillStart = 0
  Child = {"c1", "c2"}
  Creations <- EarlyChildren
  FactoryFrom = 1
  DiscoveryWindows = 2
  Warmup = 0
  Interval = {1, 2, 3}
  Bounds <- Pairs
  MaxEntries = 3
  Readahead = 1
  StreamMode = FALSE
  FirstFinal = 1
  Faults = {"scan", "stream"}
  MaxFailures = 2
  MaxBoots = 1
INVARIANTS
  ChildrenPersisted
PROPERTIES
  BackfillCompletes
