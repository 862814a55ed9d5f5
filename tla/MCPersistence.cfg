CONSTANTS
  Session = {s1, s2}
  MaxEventsPerSession = 2
  MaxSessions = 1
  Caller = {c1, c2}
  Loop = {l1, l2}
  NoOne = nobody
  MaxPublished = 3
  MaxBadRollbacks = 1
  MaxCrashes = 1
SPECIFICATION Spec
SYMMETRY Symmetry
VIEW WithoutLeftovers
CONSTRAINT OneDisaster
INVARIANTS
  TypeOK
  SessionsBounded
  WriteTaskMatchesBatch
  ExactlyOnceInOrder
  NothingLost
PROPERTIES
  DurableGrows
  ImplementsDurableLog
