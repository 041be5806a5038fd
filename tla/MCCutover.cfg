SPECIFICATION Spec
CONSTANTS
  Chain = {1, 2}
  Depth <- TwoDepths
  Pace <- Paces
  LastBlock = 4
  Events <- SomeEvents
  NoEnd = 99
  None = None
  Apps <- MCApps
  ReplicaLag = 2
  MaxBoots = 1
INVARIANTS
  TypeOK
  IndexedOnce
  BoundaryServed
PROPERTIES
  LoopSpec
  ReadyWithoutRpc
