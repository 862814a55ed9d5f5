CONSTANTS
  Task = {main, child}
  Main = main
  Context = {c1}
  MaxRetries = 0
  MaxEvents = 4
  MaxTimeouts = 0
  MaxFaults = 1
SPECIFICATION Spec
CHECK_DEADLOCK FALSE
INVARIANT
  CompleteMeansNothingLost
