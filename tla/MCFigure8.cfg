CONSTANTS
  n1 = n1
  n2 = n2
  n3 = n3
  r1 = r1
  r2 = r2
  Server = {n1, n2, n3}
  Request = {r1}
  Nil = Nil
  Faulty = {}
  MaxTerm = 4
  MaxLog = 2
  MaxCampaigns = 2
  MaxMsgs = 14
  Strides = {1, 2}
SPECIFICATION SpecCheckedFigure8
CONSTRAINT Bounded
CHECK_DEADLOCK FALSE
INVARIANTS
  LeaderCompleteness
  AlarmsExplained
  RemembersApplied
