CONSTANTS
  Node = {n1, n2}
  Nil = Nil
  MaxSends = 0
  Kinds = {"crash", "hang"}
  MaxOutages = 1
  MaxSplits = 0
  MaxFailures = 1
SPECIFICATION Spec
CHECK_DEADLOCK FALSE
INVARIANTS
  SettledMeansUp
