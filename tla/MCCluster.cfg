CONSTANTS
  n1 = n1
  n2 = n2
  n3 = n3
  r1 = 0
  r2 = 1
  Server = {n1, n2, n3}
  Request = {0, 1}
  Nil = Nil
  Faulty = {}
  MaxTerm = 2
  MaxLog = 3
  MaxCampaigns = 0
  MaxMsgs = 11
  MaxAttempts = 3
  NODE_IDS <- MCNodeIds
SPECIFICATION SpecClient
CONSTRAINT ClientBounded
CHECK_DEADLOCK FALSE
INVARIANTS
  ClientTypeOK
  AckedWasAnswered
  ClientNeverStalls
  HintLed
  ReorderedOnlyIfRepeated
