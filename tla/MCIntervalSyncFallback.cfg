SPECIFICATION Spec
CONSTANTS
  LastBlock = 5
  ChunkBlocks = 3
  BackfillStart = 0
  Child = {"c1"}
  Creations <- OneChild
  FactoryFrom = 1
  DiscoveryWindows = 2
  Warmup = 1
  Interval = {1, 2, 3}
  Bounds <- Pairs
  MaxEntries = 3
  Readahead = 1
  StreamMode = FALSE
  FirstFinal = 1
  Faults = {"rollback"}
  MaxFailures = 1
  MaxBoots = 0
INVARIANTS
  ChildrenPersisted
