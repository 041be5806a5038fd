SPECIFICATION Spec
CONSTANTS
  Block <- MCBlock
  Root = "r"
  Parent <- MCParent
  Height <- MCHeight
  Ancestry <- MCAncestry
  Child = {"c", "d"}
  Creates <- MCCreates
  ChildLogs <- MCChildLogs
  None = None
  MaxSwitches = 2
  HashProbes = TRUE
  SparseSamples = FALSE
  SpuriousConflicts = TRUE
  RingCap = 5
  MaxStrikes = 1
  Missing = {}
  Refuses = FALSE
  DeliveryThreshold = 2
  AddressBudget = 1
  EndBlock = None
  MaxBoots = 1
INVARIANTS
  TypeOK
  WindowLinked
  RingCoversResume
  TripwiresSilent
  FeedMatchesWindow
  FinalityAgrees
  FinalizedCanonical
  LogsComplete
PROPERTIES
  FeedSpec
