CONSTANTS
  Task = {main}
  Main = main
  Context = {c1, c2}
  MaxRetries = 0
  MaxEvents = 4
  MaxTimeouts = 0
  MaxFaults = 0
SPECIFICATION Spec
CHECK_DEADLOCK FALSE
INVARIANT
  GapMeansLoss
