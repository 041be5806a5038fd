SPECIFICATION Spec
CONSTANTS
  Undefined = Undefined
  f1 = f1
  f2 = f2
  f3 = f3
  Factory = {f1, f2, f3}
  FactoryAddress <- Twins
  Selector <- New
  MaxAddresses = 6
  BodyBudget = 21
  EnvelopeSize = 1
  Chain <- TwinChain
  PortalHead = 0
  Apps <- TwinApps
  Datasets <- Whole
  MaxFailures = 0
INVARIANTS
  RealtimeCovers
CHECK_DEADLOCK FALSE
