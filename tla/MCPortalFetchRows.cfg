SPECIFICATION Spec
CONSTANTS
  Request = {f1, f2, f3}
  Chunk = {i1, i2}
  None = None
  MinLimit = 2
  MaxLimit = 2
  StartLimit = 1
  RampEvery = 1
  RampStep = 2
  MaxRetries = 0
  Columns = 1
  MaxSpan = 2
  BatchRows = {1}
  MaxChained = 1
  MaxHeld = 1
SYMMETRY Symmetry
INVARIANTS
  RowsMatch
