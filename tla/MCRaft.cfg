CONSTANTS
  n1 = n1
  n2 = n2
  n3 = n3
  r1 = r1
  r2 = r2
  Server = {n1, n2, n3}
  Request = {r1}
  Nil = Nil
  Faulty = {n1}
  MaxTerm = 2
  MaxLog = 2
  MaxCampaigns = 2
  MaxMsgs = 14
SPECIFICATION SpecRaft
CONSTRAINT RaftBounded
CHECK_DEADLOCK FALSE
SYMMETRY Symmetry
INVARIANTS
  TypeOK
  ElectionSafety
  OneVotePerTerm
  MemoryIsDurable
  OnlyOldLeadersStandBy
  SomebodyCanStand
  LogMatching
  StateMachineSafety
  AppliedIsOnMajority
  MatchIndexIsDurable
  NextIndexInRange
  AppliedInLog
PROPERTIES
  HardStateMonotonic
  CommitMonotonic
