SPECIFICATION Spec
CONSTANTS
  Undefined = Undefined
  f1 = f1
  Factory = {f1}
  FactoryAddress <- Addresses
  Selector <- Selectors
  MaxAddresses = 3
  BodyBudget = 11
  EnvelopeSize = 1
  Chain <- MCChain
  PortalHead = 3
  Apps <- MCApps
  Datasets <- MCDatasets
  MaxFailures = 2
INVARIANTS
  StoredExact
  TracesAsStock
  NoSilentGap
  FatalIsEarned
  BodiesFit
  RealtimeCovers
CHECK_DEADLOCK FALSE
