CONSTANTS
  n1 = n1
  n2 = n2
  n3 = n3
  r1 = 0
  r2 = 1
  Server = {n1, n2, n3}
  Request = {0, 1}
  Nil = Nil
  Faulty = {}
  MaxTerm = 2
  MaxLog = 1
  MaxCampaigns = 0
  MaxMsgs = 14
  MaxAttempts = 5
  NODE_IDS <- MCNodeIds
SPECIFICATION SpecTwoLeaders
CONSTRAINT Bounded
CHECK_DEADLOCK FALSE
INVARIANTS
  PromiseKept
