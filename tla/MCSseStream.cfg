CONSTANTS
  Client = {a, b}
  Resuming = {a}
  Mode = "http"
  QueueSize = 1
  MaxEvents = 3
  MaxCuts = 2
SPECIFICATION FairSpec
CHECK_DEADLOCK FALSE
INVARIANTS
  TypeOK
  NoGapWhenOrdered
  OncePerConnection
PROPERTIES
  DueIsReceived
