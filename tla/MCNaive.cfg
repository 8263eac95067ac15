CONSTANTS
  Primary = n1
  Backup = {n2, n3}
  Nil = Nil
  Profiles = {"perfect", "quiet", "aggressive"}
  Writes = 3
  Keys = 2
  DELETE_EVERY = 3
  SYNC_EVERY = 2
  MaxOutages = 2
  MaxErrors = 1
  MaxRepeats = 1
SPECIFICATION Spec
SYMMETRY Symmetry
CHECK_DEADLOCK FALSE
INVARIANTS
  OnlyOrderDiffers
  QuietIsWhole
  LossIsTheWindow
