CONSTANTS
  Voter = {n1}
  Request = {r1}
  Nil = Nil
  MaxTerm = 2
  MaxLog = 2
  MaxRecords = 5
  CELLS = 2
SPECIFICATION Spec
CHECK_DEADLOCK FALSE
INVARIANTS
  MemoryIsRecovered
PROPERTIES
  KeepsPromise
