CONSTANTS
  Node = {n1, n2}
  Nil = Nil
  MaxSends = 2
  Kinds = {"crash", "hang"}
  MaxOutages = 2
  MaxSplits = 1
  MaxFailures = 1
SPECIFICATION Spec
CHECK_DEADLOCK FALSE
INVARIANTS
  TypeOK
  RunsOnItsDisk
  CrashedIsExpected
  HeldOnlyWhileHung
  OnePlaceEach
PROPERTIES
  HeldNotLost
