CONSTANTS
  n1 = n1
  n2 = n2
  n3 = n3
  r1 = r1
  r2 = r2
  Server = {n1, n2, n3}
  Request = {r1}
  Nil = Nil
  Faulty = {}
  MaxTerm = 3
  MaxLog = 2
  MaxCampaigns = 0
  MaxMsgs = 99
SPECIFICATION SpecProgress
CHECK_DEADLOCK FALSE
PROPERTIES
  LogsRepaired
  RequestsAnswered
  CommitReachesAll
