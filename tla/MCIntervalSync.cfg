SPECIFICATION Spec
CONSTANTS
  LastBlock = 5
  ChunkBlocks = 2
  BackfillStart = 0
  Child = {"c1", "c2"}
  Creations <- TwoChildren
  FactoryFrom = 2
  DiscoveryWindows = 2
  Warmup = 1
  Interval = {1, 2, 3}
  Bounds <- Uneven
  MaxEntries = 3
  Readahead = 1
  StreamMode = TRUE
  FirstFinal = 5
  Faults = {"scan", "stream", "insert", "logs", "rollback", "ack", "retries"}
  MaxFailures = 3
  MaxBoots = 1
INVARIANTS
  TypeOK
  ChildrenPersisted
  LogsStored
  RowsOnce
  NobodyStranded
  WatermarkHonest
  CoverageHonest
  StashConsumed
PROPERTIES
  BackfillSpec
