SPECIFICATION FairSpec
CONSTANTS
  Block <- MCBlock
  Root = "r"
  Parent <- MCParent
  Height <- MCHeight
  Ancestry <- MCAncestry
  Child = {"c", "d"}
  Creates <- MCCreates
  ChildLogs <- MCChildLogs
  None = None
  MaxSwitches = 1
  HashProbes = TRUE
  SparseSamples = TRUE
  SpuriousConflicts = FALSE
  RingCap = 2
  MaxStrikes = 1
  Missing = {"mixHash"}
  Refuses = TRUE
  DeliveryThreshold = 2
  AddressBudget = 1
  EndBlock = 3
  MaxBoots = 0
PROPERTIES
  CatchesUp
  FinalityCatchesUp
  RedeliveryEnds
