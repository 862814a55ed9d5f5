CONSTANTS
  Client = {a}
  Resuming = {a}
  Mode = "http"
  QueueSize = 2
  MaxEvents = 2
  MaxCuts = 1
SPECIFICATION Spec
CHECK_DEADLOCK FALSE
INVARIANT
  NoGap
