SPECIFICATION Spec
CONSTANTS
  Request = {f1, f2, f3}
  Chunk = {i1, i2}
  None = None
  MinLimit = 1
  MaxLimit = 2
  StartLimit = 3
  RampEvery = 2
  RampStep = 2
  MaxRetries = 1
  Columns = 0
  MaxSpan = 1
  BatchRows = {0}
  MaxChained = 0
  MaxHeld = 0
INVARIANTS
  TypeOK
  SlotsMatch
  WorkConserving
PROPERTIES
  AdmitsInOrder
  NoStarvation
