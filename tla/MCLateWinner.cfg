CONSTANTS
  n1 = n1
  n2 = n2
  n3 = n3
  r1 = r1
  r2 = r2
  Server = {n1, n2, n3}
  Request = {r1}
  Nil = Nil
  Faulty = {}
  MaxTerm = 2
  MaxLog = 1
  MaxCampaigns = 2
  MaxMsgs = 99
  Strides = {1}
SPECIFICATION CheckedSpec
CONSTRAINT Bounded
CHECK_DEADLOCK FALSE
INVARIANTS
  CompletenessAlarmIsReal
