CONSTANTS
  MaxEvents = 4
  MaxDelay = 2
  MaxRun = 3
SPECIFICATION Spec
INVARIANTS
  TypeOK
  NoneAfterTheEnd
PROPERTIES
  NoneLeftBehind
  KeepsAgenda
