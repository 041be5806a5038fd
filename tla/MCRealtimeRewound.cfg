SPECIFICATION Spec
CONSTANTS
  Block <- DeepBlock
  Root = "r"
  Parent <- DeepParent
  Height <- DeepHeight
  Ancestry <- DeepAncestry
  Child = {"c", "d"}
  Creates <- DeepCreates
  ChildLogs <- DeepCreates
  None = None
  MaxSwitches = 2
  HashProbes = TRUE
  SparseSamples = FALSE
  SpuriousConflicts = FALSE
  RingCap = 5
  MaxStrikes = 1
  Missing = {}
  Refuses = FALSE
  DeliveryThreshold = 2
  AddressBudget = 1
  EndBlock = None
  MaxBoots = 0
PROPERTIES
  GapMeansFork
